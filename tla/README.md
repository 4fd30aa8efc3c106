# A TLA+ model of webcfg

webcfg runs on a gateway. It fetches *bundles* of configuration documents from
the cloud, sends each document to the component of the device that owns it,
follows the component's answer, and remembers which version of each document is
applied. This directory models that program in TLA+, checks the model with TLC
and proves theorems about it with TLAPS. Paths are relative to the repository's
source root; the code is in `src/src/`.

1. [Inventory](#1-inventory) &nbsp; 2. [Modules](#2-modules) &nbsp;
3. [The models](#3-the-models) &nbsp; 4. [Runs](#4-runs) &nbsp;
5. [Proofs](#5-proofs) &nbsp; 6. [Where code and comments disagree](#6-where-the-code-and-its-comments-disagree)
&nbsp; 7. [Limits](#7-limits) &nbsp; 8. [Not modelled](#8-not-modelled)

## 1. Inventory

### Threads

| Thread | Entry point | Blocks on |
|---|---|---|
| main loop ("sync thread") | `WebConfigMultipartTask`, webcfg.c:113 | `sync_condition`, HTTP, setValues |
| event consumer ("event thread") | `processSubdocEvents`, webcfg_event.c:259 | `event_con`, setValues |
| timer thread | `blobEventHandler`, webcfg_event.c:127 | five-second sleep |
| notification sender | `processWebConfgNotification`, webcfg_notify.c | `notify_con`, parodus |
| parodus receiver | `parodus_receive`, webcfg_client.c | parodus socket, `client_con` |
| rbus callbacks | `webcfg_rbus.c` | none of its own |
| MQTT (optional build) | `WebconfigMqttTask`, webcfg_mqtt.c | `mqtt_sync_condition` |

They share linked lists and flags. Each list has a mutex, held per look-up or
per update; nothing is held across a decision made of several of them, nor
across a call that blocks.

### Components

| Component | State | Operations | Talks to | What makes it correct |
|---|---|---|---|---|
| **Tmp list and parts** (webcfg_db.c, webcfg_multipart.c) | `g_head`: documents in progress with version, status, error, trans id, retry count; `g_mp_head`: parsed parts | `addToTmpList`, `updateTmpList`, `deleteFromTmpList`, `delete_tmp_list`, `release_success_docs_tmplist`, `addToMpList`, `delete_mp_doc` | every thread below | the list agrees with the database; no document is lost in it; a new document is sent |
| **Applying a bundle** (webcfg_multipart.c) | locals of `processMsgpackSubdoc`, `g_ETAG`, `g_doc_fail` | parse, send each document, count, `checkRootUpdate`, `checkRootDelete`, `failedDocsRetry` | both lists, database, components, notifications | root is recorded when the whole bundle is applied and not before; failures are retried, within bounds |
| **Component events and timers** (webcfg_event.c) | `eventDataQ`, the expiry-timer list | `webcfgCallback`, handlers of ACK, NACK, timeout, EXPIRE, COMP_INIT; `retryMultipartSubdoc` | tmp list, database, components | only the answer to the current attempt counts; each document settles |
| **Database** (webcfg_db.c, webcfg_pack.c) | `webcfgdb_data`, `WEBCFG_DB_FILE` | `initDB`, `addNewDocEntry`, `checkDBList`, the root version at boot | applying, events, reset | what is recorded was applied; what was recorded survives a restart |
| **Main loop and force sync** (webcfg.c, webcfg_rbus.c) | `ForceSyncMsgQ`, the static buffer `ForceSync`, `ForceSyncTransID`, the `needed` and `started` flags, `bootSyncInProgress`, `maintenanceSyncInProgress` | boot sync, forced sync, maintenance sync, retry timer, start and shutdown | HTTP, applying, rbus | every accepted request leads to a sync of what it names; shutdown is not slept through |
| **HTTP request** (webcfg_multipart.c, webcfg.c, webcfg_auth.c) | `g_ETAG`, root version and names to report | build headers, response, retry by status | database, tmp list | root and document versions reported are those recorded; retries are bounded |
| **Notifications** (webcfg_notify.c) | `notifyMsgQ` | `addWebConfgNotifyMsg`, sender | parodus | sent once each, in order; no lost wakeup |
| **rbus parameters** (webcfg_rbus.c) | RFC, URL, force-sync text, force-reset counter | get and set handlers | main loop, database, tmp list | at most three resets a day; a rejected request has no effect |
| **Maintenance window and timers** (webcfg_timer.c) | window start and end, retry timestamps | `checkMaintenanceTimer`, `getMaintenanceSyncSeconds`, `checkRetryTimer` | main loop | one sync per window; the wait ends in the window |
| **Metadata** (webcfg_metadata.c) | lists of supported and supplementary documents | look-ups by name or bit | applying, HTTP | classification equals list membership |
| **Aker and parodus** (webcfg_aker.c, webcfg_client.c) | one response slot | send with transaction id, wait, retry | applying | a response is taken by the request it answers |
| **MQTT, WAN handling** | optional builds | same bundles through another transport | | |
| **Decoding and glue** (webcfg_param.c, webcfg_blob.c, webcfg_generic*.c, main.c) | none | conversion, library calls | | |

### What is hard

* **Order of answers.** Components answer whenever they like: before setValues
  has returned, after the document was sent again, after the next bundle came.
* **Two threads on one list.** Sync and event thread both retry, both decide
  whether the document just applied was the last, and keep pointers across calls
  that block while the other frees the nodes.
* **Failure.** A failed setValues may still have delivered; a component restarts
  and loses what it had not applied; a part cannot be decoded.
* **Counters and flags.** `g_doc_fail` is cleared before the retries run;
  `retry_count` is compared and incremented without a lock; trans ids are random
  and may collide.
* **Requests and the loop that serves them.** A request is written to a static
  buffer that the main loop clears, queued, and only then accepted, refused or
  postponed by flags that the main loop changes meanwhile; the main loop waits
  without looking at the queue.
* **Versions in several places.** List, memory and file, and the root version
  separately in `g_ETAG`.

`PROJECT.json` lists these hazards line by line with the property for each.

## 2. Modules

| Module | Models | Variables stand for |
|---|---|---|
| `SubdocApply` (`MCSubdocApply`) | what a sync does to documents: lists, setValues, answers, retries, timers, recording | the two lists, database, events, components |
| `ForceSync` | which syncs run and when: the main loop, its callers, flags, request queue, condition variable | flags, buffer, queue, positions |
| `Maintenance` | how long the main loop waits: the daily window, the retry of documents | clock, times of the day, flags of the loop |
| `SyncRequest` | one sync with the cloud: attempts, response codes, root version, token | position, response, root, token |
| `WebcfgDB` | the database in memory and on disk: three writers, crashes, upgrades, resets | list, file, bytes in flight |
| `RootVersion` | the list as data and the root version that is derived from it; used by the two above | (operators) |
| `Workers` | the worker threads, their queues, how they are started and joined | positions, queues, signals |
| `Mailbox` | abstract: what a message queue promises; `Workers` implements it twice | box, deliveries |
| `AkerExchange` | the aker document: asked for, sent and answered over parodus | node, globals, messages |

Each has its theorems in a module `...Proofs`, except `Mailbox` and `RootVersion`
(theorems about them are in `WorkersProofs`, `WebcfgDBProofs` and
`SyncRequestProofs`). `SubdocApply` has two, `SubdocApplyProofs` and, on top
of it, `SubdocListProofs`.

How they divide a sync between them: `Maintenance` says when the main loop wakes,
`ForceSync` which sync it then runs, `SyncRequest` how the bundle is asked for,
`SubdocApply` what happens to its documents (`AkerExchange` to one of them, which
takes another way), `WebcfgDB` what becomes of what they record. `Workers` is the
threads in which this happens. What one module keeps in detail is one step or a
free choice in the others: in `SubdocApply` any bundle may come whenever the sync
thread is idle, in `ForceSync` a sync is its beginning and its end, in
`SyncRequest` a bundle is recorded at any time after, in `WebcfgDB` an ACK comes
at any time: the abstraction is towards more behaviour. Where a module is narrower
than the code, section 7 says so.

## 3. The models

### `SubdocApply`: state

One action per step between two places where another thread can act on what is
read or written next: a blocking call, or the end of a list's mutex.

| Variable | Code |
|---|---|
| `tmp` | the tmp list, `g_head` |
| `mp` | the parts, `g_mp_head` |
| `db`, `disk` | `webcfgdb_data`, `WEBCFG_DB_FILE` |
| `etag` | `g_ETAG`; its value is the number of the bundle |
| `docFail`, `supp` | `g_doc_fail`, `g_supplementarySync` |
| `pc`, `cursor`, `current`, `success` | position and counters of the sync thread |
| `call` | for each of the two threads, the document it is working on, its node, version and trans id, and the step it takes next (`state`): a retry that has passed the checks ("check"), a setValues call that will succeed ("sent") or fail ("unsent"), an answer found valid ("valid", "refused"), a document marked as applied ("marked"), root to be recorded ("rooted") and marked ("rootdb"), the database to be saved ("save"), the lists to be deleted ("saved", "drop", "free"); "derived" for the root version a request is about to store |
| `events`, `timer`, `expiring` | `eventDataQ`, the timer list, the local of `blobEventHandler` |
| `requests`, `running` | the components: blobs received, version in use |
| `cloud`, `applied`, `top`, `faults` | history and bounds |

A list is a function from addresses to nodes in list order. Addresses are given
out once; a pointer held across a blocking call is an address, and its node has
been freed once the address is gone. Root is at address 0, the head.

### `SubdocApply`: actions

| Actions | Code |
|---|---|
| `Refresh`, `StoreRoot`, `NoBundle` | `refreshConfigVersionList`: the root version is derived in one step and stored in another; a request that brings no bundle |
| `Fetch`, `ParseFails`, `Parse`, `AddToTmpList` | `webcfg_http_request`, `headr_callback`, `parseMultipartDocument`, `addToTmpList`; `Parse` replaces the parts and then may find that there are none |
| `SendDoc`, `DecodeFails`, `SetSucceeds`, `LoopRecords`, `SetFails`, `EndLoop` | `processMsgpackSubdoc` |
| `Mark`, `Record`, `RecordRoot`, `MarkRoot`, `Save`, `CheckDelete`, `DeleteTmpList`, `DeleteMultipart` | what every path does when a document is applied, in either thread: `updateTmpList`; `checkDBList` and `checkRootUpdate`; `updateRootVersionToDB`, database and list; `addNewDocEntry`; `deleteRootAndMultipartDocs` |
| `StartFailedDocsRetry`, `RetryNext`, `NotYetDue`, `EndFailedDocsRetry` | `failedDocsRetry`, and the main loop that calls it |
| `Retry`, `RetrySend`, `RetrySucceeds`, `RetryFails` | `retryMultipartSubdoc`, in either thread; the comparison of `checkAndUpdateTmpRetryCount` and its increment are separate steps |
| `ReleaseSuccessDocs` | `release_success_docs_tmplist` |
| `HandleEvent` and `HandleAck`, `HandleNack`, `HandleTimeout`, `HandleExpire`, `HandleInit` | `processSubdocEvents` |
| `TimerCheck`, `TimerExpires` | `blobEventHandler` |
| `ComponentAccepts`, `ComponentRefuses`, `ComponentNeedsTime`, `ComponentRestarts` | the components (outside the repository) |

`HandleAck` and `HandleNack` check an answer against the list and end there; what
follows from it are the steps of the fourth row, between which the other thread may
do anything, the parsing of the next bundle included. `DeleteEach` keeps the early
end of the loops that remove the head. Error codes 190 to 193 are one code (`Crash`);
all other data is kept apart only as far as the code does.

### `SubdocApply`: properties

| Property | Says |
|---|---|
| `TypeOK` | types; addresses in use have been given out |
| `DBTruth` | the database names versions the component has accepted, of primary documents |
| `SuccessRecorded` | what the list shows as applied, a primary document, is in the database with that version, unless the thread that marked it has yet to record it |
| `StaleNeverRecorded` | whatever enters the database is the version the list works on, unless the node was taken out of the list between the check and the recording (action property) |
| `SavedWhenDone` | the file lags behind only while some thread still has to save |
| `RetryBounded` | the retry count stays within the limit, plus one for the race on it |
| `RootMeansApplied` | root on disk stands for a bundle that is applied |
| `RootFollows` | once all primary documents in the list are applied, root is, or a thread is about to say so; for lists without primary scalar documents |
| `NewDocsAreSent` | the loop sends every new document that has a part, in a list that root heads |
| `NoneForgotten` | a pending document whose part is there has something on its way that settles it |
| `AllSettle` | in the end every document is settled (liveness) |

Six definitions say more than these, and TLC refutes them (section 6):
`RootSuccessRecorded` (`SuccessRecorded` for root), `LatestRecorded` and `RootRecorded`
(`StaleNeverRecorded` and `RootFollows` without their exceptions), `EveryNewDocSent`
and `NewPartsKept` (`NewDocsAreSent` for any list, and without the exception for
parts taken away), `NoneLost` (`NoneForgotten` without parts).

A list is headed by root from the first bundle until a loop over it deletes root
as its head; such a loop may leave nodes behind, and the lists without root are
those nodes with the documents of later bundles among them.

`NoneForgotten` and `AllSettle` except two cases in which the code does leave a
document pending: COMP_INIT with a version that the database already has
(webcfg_event.c:580), and a retry count past its limit (section 6).

### `ForceSync`: state

Three threads: `main` (the main loop), `rbus` (the set handlers, one at a time)
and `wan` (the WAN event handler). The build is the one with
`WEBCONFIG_BIN_SUPPORT` and without MQTT.

| Variable | Code |
|---|---|
| `queue` | `ForceSyncMsgQ`, entries of a name and a transaction id |
| `text` | the static buffer `ForceSync`; a bundle that strtok has cut reads as its first name |
| `poked` | `ForceSyncTransID` (webcfg_rbus.c) is not empty |
| `needed`, `started` | `g_webcfg_forcedsync_needed` and `g_cloud_forcesync_retry_needed` as a set; the same for `_started` |
| `ready`, `bootSync`, `maintSync`, `supp`, `shutdown`, `rfc` | `webcfgReady`, `bootSyncInProgress`, `maintenanceSyncInProgress`, `g_supplementarySync`, `g_shutdown`, `RfcVal` |
| `transId` | `g_ForceSyncTransID` (webcfg_multipart.c), what the sync reports |
| `signalled` | the main loop is in `pthread_cond_timedwait` and has been signalled |
| `pc`, `forced`, `syncDoc`, `waitFlag`, `maintDoc`, `head` | position and locals of the main loop |
| `stage`, `id` | where each thread is in `set_rbus_ForceSync`, and its `transactionId` |
| `due` | history: documents queued since their last sync began |
| `asked`, `toggles` | bounds |

### `ForceSync`: actions

| Actions | Code |
|---|---|
| `Poke`, `Trigger`, `CopyRoot` | `webcfgFrSetHandler`, `trigger_webcfg_forcedsync` |
| `TestText` to `Signal` | `set_rbus_ForceSync` after the buffer is filled: `UpdateEntry`, `AddEntry` or `DeleteQueue`, `AddFirst`, `AddSecond`, then the checks `GoAhead`, `Ignore`, `SayLater`; `NoPlaceForStatus` when the main loop is the caller |
| `Disable`, `Enable`, `StartThread` | `set_rbus_RfcEnable` |
| `BecomeReady` to `EndBoot` | `WebConfigMultipartTask` up to its loop |
| `StartForced`, `EndForced`, `ClearText`, `EndClear` | a forced sync |
| `StartMaintenance` to `EndMaintenance` | the maintenance window |
| `Lock`, `SyncNeeded`, `NothingNeeded`, `Sleep`, `Wake`, `TakeFlags`, `TakeRequest`, `Accept`, `AfterTimeout` | the part under `sync_mutex`, and the wait that gives it up |
| `LeaveLoop`, `ResetFlags`, `ResetQueue`, `Exit` | the end of the thread |

A thread is cut wherever another can act on what it reads or writes next: no
lock guards the buffer and the flags, so nearly every call is a step. `Signal`,
`Disable` and `Enable` need `sync_mutex` and so wait while the main loop is at
one of the places in `Holding`. `MainStep` is everything the main loop does,
including its own pass through `set_rbus_ForceSync` when it clears the buffer.
A wait ends by signal, without cause, or by its time.

### `ForceSync`: properties

| Property | Says |
|---|---|
| `TypeOK` | types; a sync by name is of a supplementary document |
| `NoneLost` | a document asked for, whose sync has not begun since, is in the queue or taken for the next sync |
| `SyncIsTheRequest` | a forced sync fetches what its request names and reports its id: nothing of the sync before is left over |
| `ShutdownNoticed` | when the thread is told to end, it is not left asleep |
| `PostponedServed` | a postponed request is served in the end (liveness) |

What takes a request out without a sync is excepted where the code does so on
purpose: a bundle replaces the queue, the maintenance window frees the entry it
takes, the end of the thread deletes the queue. `PostponedServed` further excepts
a crash (section 6).

### `Workers` and `Mailbox`

Four threads: `notify` (sends notifications), `process` (handles component
events), `timer` (turns expired timers into events), `client` (receives from
parodus); two queues, `notifyMsgQ` and `eventDataQ`; and the main thread, which
starts the four and joins them.

| Variable | Code |
|---|---|
| `at` | where each worker is; "none" before `pthread_create` and after `pthread_join` |
| `queue`, `signalled` | the two lists; which waiting consumer has been signalled |
| `main`, `rbus` | where the main thread is, and `set_rbus_RfcEnable` |
| `shutdown`, `rfc` | `g_shutdown`, `RfcVal` |
| `taken`, `posted`, `toggles` | history and bounds |

| Actions | Code |
|---|---|
| `Post` in `TimerExpires`, `ClientPosts`, `ProcessNotifies`, `MainNotifies`, `BusEvent` | `addWebConfgNotifyMsg`, `addToEventQueue`: append, and signal if the list was empty |
| `Take`, `Handled`, `Leave`, `Wait`, `Wake` | the loop of a consumer, one critical section each |
| `TimerSleeps`, `TimerWakes`, `ClientReceives`, `ClientReturns` | where the two other threads look at `g_shutdown` |
| `StartNotify`, `StartClient`, `StartEvents` | `WebConfigMultipartTask` up to its loop |
| `LeaveLoop` to `Exit` | the end of it (webcfg.c:414): signals, joins, deletion of the lists |
| `Disable`, `Enable`, `StartThread` | `set_rbus_RfcEnable`, at any moment |

| Property | Says |
|---|---|
| `NoLostWakeup` | a consumer asleep and unsignalled has an empty list, also over an end and a new start |
| `FreedAlone` | lists are deleted when no worker is left, and no second set of workers is started |
| `NotifyBoxSpec`, `EventBoxSpec` | each queue implements `Mailbox`: every message once, in order, and in the end while the box is open |
| `ShutdownEnds` | a main thread that has left its loop ends, unless it is switched on again meanwhile |

`Mailbox` is three actions. The mapping takes the list for the box, the history
for what is delivered, and calls a box closed while its consumer is not there or
`g_shutdown` is set.

### `WebcfgDB` and `RootVersion`

Three threads change the list and save it: `main` when it forms a request or is
told that there is no configuration, `event` on an ACK, `rbus` in a force reset.
To save is three steps, `Pack`, `Open` (which truncates the file) and `Write`; no
lock is over them. `OpenFails` leaves the file as it was, `WriteFails` leaves it torn;
`addNewDocEntry` goes on in either case as if it had been written (`Written`).

| Variable | Code |
|---|---|
| `db`, `file` | `webcfgdb_data`; `WEBCFG_DB_FILE`: none, torn, or a list |
| `stage`, `packed` | where each thread is, and the bytes it is about to write |
| `reason`, `known`, `resetOnce` | reboot reason, `g_RebootReason`, the static `reset_once` |
| `derived`, `reported`, `status` | the locals of `refreshConfigVersionList`; what the request under way tells |
| `etag`, `acked`, `void`, `newest` | the bundle that is being applied, what of it is recorded, what a reset has cleared |
| `todo` | what `resetSubdocVersion` has still to do |
| `since`, `overlap`, `saves`, `syncs`, `resets`, `crashes` | history and bounds; `saves` tells whether the last save has failed, and whether the list has been read from the file since |

| Actions | Code |
|---|---|
| `BeginSync`, `StoreRoot`, `Send`, `Answered`, `NoConfiguration`, `Bundle` | `refreshConfigVersionList`, `derive_root_doc_version_string`, `checkDBList`; the answers that matter |
| `Ack`, `RecordRoot` | the ACK handler of `processSubdocEvents`, `updateRootVersionToDB` |
| `Reset`, `ResetVersion`, `ResetTmp` | the force reset handler and `resetSubdocVersion` |
| `Restart`, `Reboot`, `FactoryReset`, `Upgrade`, `Reload` | `initDB` on what the file is then |

| Property | Says |
|---|---|
| `RootHonest` | a root version in memory, in the file or in bytes about to be written stands for its bundle |
| `Persisted` | what the list says is in the file once nobody is saving: every change is saved, and a save that succeeds makes up for one before that has failed |
| `UpgradeRefetches` | after a firmware upgrade root 0 is reported until a root is recorded again |

`Persisted` excepts two threads that save at once (`overlap`, section 6), and the time
from a save that failed, which nobody notices, to the next. `UpgradeRefetches` excepts
a list that has been read again from a file that such a save should have replaced:
`reset_once` then says that root has been reset, and the file has the old one.
`RootVersion` holds the list as a function of names and `DeriveRoot`, the decision
table of `derive_root_doc_version_string`.

### `SyncRequest`

`processWebconfgSync` and below: up to four requests, each with headers built
anew, an answer, and what `handlehttpResponse` makes of it.

| Variable | Code |
|---|---|
| `pc`, `attempt`, `kind`, `answer` | position, `retry_count`, primary or supplementary, the response |
| `contentLen`, `gEtag` | `g_contentLen`, `g_ETAG`, written by every header line, also of a redirection |
| `db`, `hasFile`, `reason`, `known`, `resetOnce` | as in `WebcfgDB`; a refresh is one step here |
| `token`, `stored`, `renewed` | `webpa_auth_token`, what the read script gives |
| `out` | the root version of the bundle that is being applied |
| `outcome`, `told`, `failures`, `ack` | history; `told` counts the notifications with the response's code, `failures` those that root has failed |

Actions: `Begin`, `Prepare` (`createCurlHeader`, `getAuthToken`), `Send`,
`NotSent`, `Redirected`, `Answered`; one per branch of `handlehttpResponse`
(`NothingNew`, `NotFound`, `Bundle`, `NoContent`, `Failed`, `Expired`), `Wake` after
the back-off; beside them `Recorded` and `TokenExpires`.

| Property | Says |
|---|---|
| `ToldOnce` | the cloud hears the end of each sync by its response code once, unless it ends with a bundle, a confirmed reset, or a last attempt not sent or refused; and of a failure of root at most once for each attempt, twice for a last one that is told by its code too |
| `FreshToken` | after a token has been created no request goes out with one expired before |
| `NeverNoneAgain` | a device with a root never reports again that it has none (action property) |
| `SyncEnds` | every sync ends (liveness) |

### `AkerExchange`

The main thread asks parodus whether aker is there, waits for the answer, sends
the blob; the client thread receives status and result; the event thread compares
the result with the node in the tmp list. Requests and answers may be lost.

| Variable | Code |
|---|---|
| `node` | aker's node of the tmp list |
| `pc`, `tries`, `docs` | the loops of `processAkerSubdoc`'s caller, `checkAkerStatus`, `send_aker_blob` |
| `wake`, `reply` | `wakeFlag`, `aker_status`; "freed" after its first use |
| `sentVer`, `sentTrans`, `flag`, `fails` | `akerDocVersion`, `akerTransId`, `send_aker_flag`, `sleep_counter` |
| `asked`, `blobs`, `inbox`, `events` | what is on its way |
| `applied`, `lost`, `heard`, `overtaken`, `falseAlarm` | history |

| Property | Says |
|---|---|
| `AckMeansApplied` | "success" only if aker has applied that version |
| `NoneForgotten` | a pending document has something to come, or its answer was lost |
| `MainReturns` | the main thread does not stay with aker (liveness) |

`AckMeansApplied` excepts a document sent while the answer to one before was due:
version and id of the event are those of the last document sent.

### `Maintenance`

Times of the day, as in the code, over a clock that runs. `Plan` computes how long
the loop waits (`MaintenanceWait` for `getMaintenanceSyncSeconds`, `RetryWait` for
`updateRetryTimeDiff` and `retrySyncSeconds`); `TimesOut`, `Signalled` and `Woken`
are the three ways to come out of the wait; `Maintain` and `NotDue` are
`checkMaintenanceTimer`; `DocFails` is a component that crashes.

`OncePerDay` (action property): no two maintenance syncs on one day, whatever
force syncs and retries come in between, unless a wait has returned without cause.

## 4. Runs

| Run | Instance | States | Shows |
|---|---|---|---|
| `apply_once` | one bundle of two blobs, 1 trans id, codes 192 and 611, 3 faults | 2.7 M | `TypeOK`, `RootMeansApplied`, `RetryBounded`, `NoneForgotten` under every order of answers, failed calls, restarts and retries by both threads |
| `apply_blobs` | two bundles out of three: two blobs, one of them again and newer, a supplementary one; 2 trans ids, 1 fault | 3.3 M | `SuccessRecorded`, `RootFollows`, `NewDocsAreSent`, `NoneForgotten`, `StaleNeverRecorded` when a bundle arrives before the last is settled |
| `apply_mixed` | three bundles out of four: a scalar and an unsupported document in either order, one of them undecodable, a supplementary one, one without parts; codes 204 and 400; 1 fault | 4.3 M | `DBTruth`, `SuccessRecorded`, `SavedWhenDone`, `NoneForgotten` across all exits of the loop |
| `apply_live` | one bundle of two blobs, 2 faults, fair | 195 k | `AllSettle` |
| `force_sync` | two requests over rbus or from the WAN event, `RfcEnable` switched once, its storing may fail | 5.5 M | `TypeOK`, `NoneLost`, `SyncIsTheRequest`, `ShutdownNoticed` under every interleaving |
| `force_live` | two requests over rbus, `RfcEnable` switched off and on, fair | 750 k | `PostponedServed` |
| `workers` | three messages, `RfcEnable` switched three times, fair | 136 k | `TypeOK`, `NoLostWakeup`, `FreedAlone`, `NotifyBoxSpec`, `EventBoxSpec`, `ShutdownEnds` |
| `webcfg_db` | two documents, two bundles, two syncs, one force reset, one crash or reboot, any failing saves | 5.7 M | `TypeOK`, `RootHonest`, `Persisted`, `UpgradeRefetches` |
| `sync_request` | two syncs of either kind, any answers, one expiry of the token, every root a device can come up with; fair | 1.6 M | `TypeOK`, `ToldOnce`, `FreshToken`, `NeverNoneAgain`, `SyncEnds` |
| `aker` | two documents, two checks, two failures to receive, two messages in flight; fair | 605 k | `TypeOK`, `AckMeansApplied`, `NoneForgotten`, `MainReturns` |
| `maintenance` | four days of six units, window over midnight, two force syncs, two failures | 2.7 M | `TypeOK`, `OncePerDay` |
| `v_retry` | the same | | `RetryExact` violated (section 6) |

**Bounds.** In `SubdocApply`, `MaxSync` bounds the bundles, `MaxFaults` the
failures, refusals, slow answers and restarts together, `MaxRetry` is
`MAX_APPLY_RETRY_COUNT`: 2 where the code has 3, so that it is reached with few
faults, twice by different threads. Two documents are needed for "the last one",
a second bundle for stale answers and for one that arrives between two steps of the
event thread, a third for nodes that survive two syncs. Two
trans ids make both a collision and a difference possible; they are symmetric, no
property names one. Where there is one, every blob is sent under the same id, and
only its version tells a late answer from the right one. Without a limit on faults a
document could fail for ever; the limit bounds the environment, never the code.
`RootMeansApplied` is checked where it can hold (one bundle, no scalar document);
section 6 says why not elsewhere.

In `ForceSync`, two requests let one be under way while the other is postponed,
updates its entry or arrives in the middle of it; a bundle is one request with two
entries, so the queue reaches three. "root" stands for all primary documents and
"telemetry" for the supplementary ones, the two names the code itself compares
with. One switch of `RfcEnable` ends the thread at any point; the second, in
`force_live`, starts it again over what the first has left.

In `Workers`, three messages let one be handled, one wait and one arrive; three
switches end the threads, start them while they still end, and end them again. In
`WebcfgDB`, the second bundle is the one that overtakes, and a crash may fall
between any two steps of three savers; the crash after an upgrade is the upgrade
itself. In `SyncRequest`, a second sync sees what the first has left in the static
variables; attempts are the four of the code. The documents of `WebcfgDB` are model
values, and symmetric. In `AkerExchange`, `Checks` and `Failures` are 5 (waits of 15,
31, 63 and 127 seconds between the checks) and 14 in the code: they only count, and with 2 the first, a
middle and the last round are different. In `Maintenance` a day of six units and a
retry after two keep the order of the code's 86400 and 900 (a retry is shorter
than a day); three midnights are passed. The theorems of section 5 hold for all
values of these constants.

**Deadlock** is not checked: the bounded systems have nothing to do after the last
bundle, request, message or tick, and the real one waits for the next. `ForceSync`
also stops when the process has crashed.

**Fairness** (`FairSpec`). `SubdocApply`: weak fairness of `SyncStep`, `EventStep`
and `TimerStep`: threads that run when they can; setValues returns. Weak fairness
of `StartFailedDocsRetry`: the main loop's timed wait ends and it calls
`failedDocsRetry` while the flag is set. Strong fairness of `RetryNext`: a
document may be "not yet due" on one pass or several, but its time comes. Weak
fairness of `ComponentAccepts`: a component that is up takes what it was sent.
Nothing is assumed of fetches, failures or restarts.

`ForceSync`: weak fairness of `MainStep` only, and where the main loop joins the
other threads only while `shutdown` is set, for they end only then (`Workers`);
the main loop runs, a sync ends (`SyncRequest`), a timed wait ends. Callers may
stop anywhere.

`Workers`: consumers run; only a signal wakes a waiting one for certain, so the
proof that messages are taken does not rest on wake-ups without cause; the timer
thread comes to its sleep, a receive returns (both have time-outs in the code);
the main thread runs, but connecting to parodus may fail for ever unless a
shutdown breaks it off. `SyncRequest`: the main thread runs, a request ends by
curl's time-out. `AkerExchange`: the waits of the main thread have time-outs; the
client and the event thread take what is there, and so does parodus. No fairness
is used of producers, callers, losses or faults.

## 5. Proofs

`SubdocApplyProofs.tla` proves, for every choice of documents, bundles, trans
ids, codes and limits that satisfies the assumptions in `SubdocApply.tla`
(bundles are all primary or all supplementary, versions are positive, root is not a document, no trans id is the null one):

* **`TypeCorrect`**: `Spec => []TypeOK`. One lemma per action; below them one
  lemma per list operator (`Put`, `SetRoot`, `DeleteEach`, `Join`, `GiveUp`). `Rewritten(u, t)`, "u is t with some nodes written to", is what
  most of them conclude.
* **`DBTruthCorrect`**: `Spec => []DBTruth`. `DBTruth` is not inductive: the step
  that records a version takes it from what the thread has kept, and that comes from
  an event checked some steps before. The inductive `Truth` adds
  * `AnswersTrue`: an ACK in the queue carries a version its component has
    accepted, a COMP_INIT carries such a version or 0;
  * `RunningTrue`: so does `running`, from which a restarted component answers;
  * `CallsTrue`: so does a call whose document is to be marked or recorded;
  * `VersionsPositive`: versions in the list and in the calls are positive, so
    that a COMP_INIT with version 0, of a component that has applied nothing,
    never equals the version of a document of the list and records nothing.
    This needs the known version that the event thread carries through a retry
    to be that of a node (`PositiveCalls`).

* **`SavedWhenDoneCorrect`**: `SavedWhenDone` is inductive as it stands. A step that
  records goes on to one that saves (`RecordStepSaves`), also when it stores the root
  version of a request (`SyncSaves`), and the other thread leaves it there
  (`OthersSave`); the loop of `processMsgpackSubdoc` counts what it records
  (`PassedSaves`), and saves at its end if it has counted anything.
* **`RetryBoundedCorrect`**: a thread between the comparison of a node's retry count
  and its increment holds a ticket for that node. `WithinLimit`: the count and the
  tickets of a node are at most `MaxRetry + 1`. A ticket is given only below
  `MaxRetry` (`RetryKept`) and goes with the increment (`TicketSpent`); every other
  step leaves each node its count or starts it from 0 (`Tamed`), except the first
  send, which sets it to 1 while the sync thread has no ticket (`SetValuesKept`).

`SubdocListProofs.tla` goes on from these: what the two threads make of the list
between them. All of it rests on the shape of the list, and each theorem adds what
its property needs.

* **`ListInvariant`**: `Spec => []ListInv`, the shape. Root is at address 0 and nothing
  else is. A list may hold several nodes of one name, since nodes get left behind;
  `getTmpNode` finds the first, the others are *hidden*. A node that is hidden is a
  new document nobody has worked on, and a new document has no error code
  (`Shape`); what a thread has kept is a first node or a freed one
  (`CallsSeen`), also when the parts of the next bundle become nodes, for these come
  behind every address in use (`Ahead`). So nobody ever writes to a hidden node.
* **`CallsInvariant`**, a lemma for the others: a thread has kept the document of its
  node, if the node is still there (`CallNamed`); scalar documents are marked by the
  sync thread only, for they have no events, timers and requests (`BlobEvents`), and
  blobs by the event thread only (`CallState`).
* **`SuccessRecordedCorrect`**. `RecordInv`: the property, and for the document a thread
  works on, as long as it is its business, the node it has kept is the only one that
  may be applied, and has the version it is going to record once it has marked it
  (`Owned`). A step records what its thread has marked (`Recorded`), or marks a node
  (`Marks`), or does neither (`Unmarked`, `Unrecorded`).
* **`NewDocsAreSentCorrect`**. `SentInv`: a new document in a list with root has no part,
  is about to get its turn, or has its part at or behind the position of the loop
  (`NewInLoop`); names are there once (`Names`). It survives what the other thread does
  while the loop waits, the deletion of the list and, later, of the parts among it.
* **`RootFollowsCorrect`**. `FollowInv`: the property with the list as a parameter
  (`Follows`), unless it is in the hand of a thread (`InHand`), and what lets
  `updateRootVersionToDB` act when it should: a primary document in either list means
  that a primary response has set the etag (`EtagKnown`), a thread that is to mark root
  has a version for it (`RootKnown`), and the loop of a sync sends documents of its
  kind (`SyncDoc`).

`NewDocsAreSentCorrect` and `RootFollowsCorrect` have a hypothesis, `DistinctNames`: no bundle names a document twice. The code does not
check it. A name that comes twice gives two nodes, and the second is hidden until
the first is deleted: it is not sent, and its version stays in the list. Once a maintenance window has
released the first, a retry of the document sends the first part and records root,
and the second version is never sent. The cloud sends each document once; the runs have
only such bundles. The other theorems hold without it.

`ForceSyncProofs.tla` proves, for all sets of documents that contain "root" and
"telemetry" and not the empty name, any sources of requests, any number of
requests and switches:

* **`TypeCorrect`**: `Spec => []TypeOK`. The lemma `NamesInBuffer` is about the cut
  buffer: whatever is read from it is a name or nothing.
* **`ShutdownNoticedCorrect`**. Inductive with `HeldRunning`: between the check of
  `g_shutdown` and the wait the loop holds `sync_mutex`, which `Disable` needs, so
  no shutdown becomes pending there. Without it the step into the wait fails.
* **`SyncIsTheRequestCorrect`**. The inductive `SyncInv` follows `syncDoc`, `supp`
  and the id round the loop: `syncDoc` and the supplementary flag are clear
  outside a forced sync of a supplementary document and the maintenance window,
  and what was taken and what is set agree from `Accept` to the sync. Callers
  touch none of these (`CallersLeaveLoop`, `RequestsLeaveLoop`).
* **`NoneLostCorrect`**. `NoneLost` is inductive on top of `TypeOK` and `SyncInv`:
  taking the head of the queue (`TakeKeeps`), adding (`AppendKeeps`) and renaming
  an entry (`UpdateKeeps`) each keep what is queued, and the request taken is what
  the next sync fetches.

`WorkersProofs`, for any number of messages and switches:

* **`TypeCorrect`**, and **`NoLostWakeupCorrect`**: `NoLostWakeup` is inductive over
  the types as it stands; what carries it is that a consumer tests its list and
  waits in one critical section, and that a list that is not empty has no waiter.
* **`FreedAloneCorrect`**. The inductive `AbsentNone` says for each place of the main
  thread which workers do not exist there; a join needs its worker to be "done",
  a worker alone never comes into being.
* **`NotifyBoxCorrect`**, **`EventBoxCorrect`**: `Spec => NotifyBox!Spec`, the safety
  half of the refinement, by a step simulation (`NotifyStep`, `EventStep`): an
  append is a `Post`, a take a `Deliver`, and any change of `at` or `shutdown` an
  `OpenOrClose` or a stutter.

`WebcfgDBProofs`, for any documents, bundles, syncs, resets and crashes:

* **`TypeCorrect`**, and **`RootHonestCorrect`**: `Spec => []RootHonest`. A step may
  write bytes that were packed long ago, or a root that was derived from the list
  of then. The inductive invariant adds `ListsOld` (no version is newer than the
  newest bundle), `BundleNewest`, `AckedCovered` (what is recorded of the bundle is
  at least its version, or was reset), `RootWaits` (root is recorded only when all
  are), `DerivedHonest` (a root derived and not yet stored is covered by the list
  as it is now: versions grow or are reset to 0) and `NoneDerived`. It holds with
  the overlap of savers that `Persisted` excepts, and for a crash between any two
  steps.
* **`PersistedCorrect`**. `SavedInv`: the list is written by one thread at a time
  (`OneWriter`; when two overlap the property is excepted), and unless the
  list is about to be packed (again), what is being written is the list, or else the
  file is, if the last save has not failed (`Unpacked`, `UpToDate`).
* **`UpgradeRefetchesCorrect`**. A root version is fresh if it is 0 or has been
  recorded since the upgrade. `UpgradeInv`: what a request has derived and told is
  fresh (`ToldFresh`), and so is what is about to be written (`BytesFresh`); while
  the list's is not, nothing has happened yet that a request must precede
  (`ListFresh`); and once the list's is, the file's is too, or is being replaced, or
  could not be (`FileFresh`), which does no harm until the list is read again. A list with a root has another document (`RootNotAlone`), from
  `RootHonest` and the assumption of `RootVersion` that there are documents,
  finitely many.

`SyncRequestProofs`, for any syncs, versions and expiries:

* **`TypeCorrect`** and **`ToldOnceCorrect`**, from one invariant: `Tells` says that
  no code has been told while an attempt is under way or another follows, so that
  each of the branches that tell it is the first, and how many failures of root have
  been told at each place of an attempt. The types of the two counters need it.
* **`FreshTokenCorrect`** from `TokenInv`: a token created and not expired since
  is what the script reads, so a request that reads it anew gets that one or none.
* **`NeverNoneAgainCorrect`**: an action property, by the decision table
  `DeriveRoot`: with a file it never gives a string that the list does not have,
  but POST-NONE.

`AkerExchangeProofs`, for any number of checks, failures, documents and messages:

* **`TypeCorrect`**, with `Counted`: the counter of tries starts again when the loop
  of checks is left, so it stays below the limit of whichever loop runs.
* **`AckMeansAppliedCorrect`**. `Sound`: a result "ok" in flight is of a version that
  aker has applied (`OkResults`); and unless a document has overtaken an answer,
  every answer due is of the document sent last (`LastSent`), so the events
  (`AckEvents`) and the node (`Acked`) name applied versions.
* **`NoneForgottenCorrect`**. `Kept` follows the pending node: it is of the last
  document, its id is the one the events will carry, and from the send on
  something about it is known to come or to be lost.

`MaintenanceProofs`, for any day, window, retry time, clock and force syncs:

* **`TypeCorrect`**: the random time is of the day, no wait is longer than two days.
* **`OncePerDayCorrect`**. `Once`: after the sync of a day, `count` is 1 until the wait
  that was planned with it has ended, and that wait ends on another day. It rests
  on four lemmas about days and seconds (`Division`, `DaysGrow`, `DayMonotone`,
  `NextDay`).

Every safety property of the passing runs is proved but three, which are only
model-checked: `StaleNeverRecorded`, `NoneForgotten` and `RootMeansApplied`. Their
inductive invariants must follow each document through every step between the check
of an answer and the deletion of the lists. Liveness is out of the provers' reach,
like everything with ENABLED: `AllSettle`, `PostponedServed`, `ShutdownEnds`,
`SyncEnds`, `MainReturns` and the fairness half of the two refinements.

## 6. Where the code and its comments disagree

Each of these was met while modelling. `v_retry` is kept as a run; the others are
definitions that a run would refute, found with the constants (and, for those
marked fair, the `FairSpec`) of the configuration named, which has to be given the
definition as INVARIANT or PROPERTY. Definitions stand at the end of their module
with the comment they quote.

| Definition | Configuration | What TLC finds |
|---|---|---|
| `RootMeansApplied` | `apply_mixed` | **Root recorded early.** With a scalar document first, the loop of `processMsgpackSubdoc` finds one success for one document looked at and records the root version (webcfg_multipart.c:847), though the next document may be refused; `checkRootUpdate` (:2481) says "when all primary docs are success" |
| `RootMeansApplied` | `apply_blobs` | **Root of the wrong bundle.** `headr_callback` overwrites `g_ETAG` (webcfg_multipart.c:1152) while the list still holds the bundle before; its last ACK, handled then, records the new root version with nothing of it applied |
| `RootSuccessRecorded` | `apply_blobs` | **Root taken back.** Every primary request stores the root version it has derived (webcfg_multipart.c:1474): 0 when the reboot reason cannot be read, or the version from before the event thread recorded a newer one. The list says that root is applied, the database does not, and the bundle is fetched again |
| `LatestRecorded` | `apply_blobs` | **Recorded too late.** Between the comparison of an ACK's version with the list (webcfg_event.c:311, "latest doc is not yet applied") and `checkDBList` the next bundle may replace the node: the older version is recorded, the list works on the newer one |
| `NewPartsKept` | `apply_blobs` | **Parts of the next bundle freed.** `deleteRootAndMultipartDocs` deletes the list and then the parts (webcfg_multipart.c:2569). A bundle parsed in between is cached in the list, and loses its parts: the loop ends, and its documents stay "pending_apply" until the cloud sends them again |
| `RootRecorded` | `apply_mixed` | **Root not recorded.** The loop records root only when its count of successes equals its count of documents (webcfg_multipart.c:847). A blob or an unsupported document before a scalar one is looked at and not counted as a success, so the scalar document that completes the bundle leaves root as it was, and the bundle is fetched again |
| `EveryNewDocSent` | `apply_blobs` | **Release stops at the head.** `deleteFromTmpList` does not set `next_node` when it removes the head (webcfg_db.c:728): the loops over it end, nodes stay, and hide the next bundle's documents of the same name, which are never sent |
| `NoneLost` | `apply_mixed` | **Left behind for good.** A document whose part is gone is never sent again: a retry finds "Multipart mp cache is NULL" (webcfg_event.c:963), clears nothing and asks for no other. That happens to the documents of the bundle before when a bundle has no parts, for its parsing empties the list of parts first (webcfg_multipart.c:525, :570), and to the nodes that a loop over `deleteFromTmpList` has left |
| `RetryBounded` without its "+ 1" | `apply_once` | **Retry count past its limit.** Two threads may both pass the comparison (webcfg_event.c:1209) before either increments; the test for equality then never holds, and the document stays pending without the "max retry" notification |
| `QueueNoticed` | `force_sync` | **Signal lost.** `set_rbus_ForceSync` signals when no flag says busy (webcfg_rbus.c:2039, "to trigger sync"). The main loop tests the `needed` flags before its wait and not the queue, and this path sets no flag. The request was answered with success; its id now makes every later one "in progress", but only a flag, a later signal or the end of the wait brings the loop back to it |
| `EnabledRuns` | `force_live` | **Enabled and not running.** `RfcEnable` set to false and, while the thread ends, to true: `g_mpthreadId` is not NULL yet (webcfg_rbus.c:1792), nothing is started, and the thread ends |
| `JoinEnds` | `workers`, fair | **Joining for ever.** The same switch clears `g_shutdown` while the main thread joins: a consumer that wakes goes back to its wait, and `pthread_join` (webcfg.c:430) never returns; a second switch off signals only the main loop |
| `pc # "crashed"` (in `PostponedServed`) | `force_sync` | **Clearing the buffer is a request** (webcfg.c:199). If a caller fills the buffer after the main loop has cleared it and before it is tested, the main loop queues that request itself, and where the answer is "later" writes the status through a null pointer (`NoPlaceForStatus`). If the clearing comes later, an entry without a name is queued, or nothing |
| `SavedIsList` | `webcfg_db` | **Older list saved last.** Of two threads that save, the one that packed first may write last (webcfg_db.c:164): the file lacks the newer versions until the next save. `addNewDocEntry` does not look at what `writeToDBFile` returns either (:173), nor that at what `fwrite` does (:233): after a failure the file is the old one, or half of the new one |
| `ResetHolds` | `webcfg_db` | **Reset undone.** A force reset clears root (webcfg_rbus.c:836), and the event thread may record it right after, with the last ACK of a bundle: the forced sync reports the version that was to be reset |
| `AckFromServer` | `sync_request` | **Length of another response.** `g_contentLen` is set by every header line of that name and cleared only when used (webcfg.c:713): one of a redirection or an earlier response decides about a 200 that brought nothing usable, and root becomes POST-NONE although the server has confirmed nothing |
| `AckOfPrimary` | `sync_request` | **Confirmed by the wrong request.** An empty 200, or a 404, to a supplementary request, which tells no root, sets POST-NONE as well (webcfg.c:717) |
| `NoFalseAlarm` | `aker` | **Flag set after the answer.** `send_aker_flag` is set after `libparodus_send` returns (webcfg_aker.c:376); if the answer came first, the next 14 failures to receive make an answered document failed |
| `LossIsTold` | `aker`, fair | **Loss not told.** A receive that times out resets the counter (webcfg_client.c:169): when only the answer is lost nothing is told, and the document stays pending |
| `RetryExact` | run `v_retry` | **Retry over midnight.** `retrySyncSeconds` compares times of the day (webcfg_timer.c:240); for a retry after midnight the difference is negative and becomes 0, and the main loop spins until midnight |
| `TimesReached` | `maintenance` | **A time no day has.** In a window over midnight a draw of 0 becomes 86400 (webcfg_timer.c:154), which no time of the day reaches: that maintenance sync does not take place, and with it no later one |

Further behaviour that no comment contradicts, and that a reader of the models may
want to know:

* a request refused because the thread is not ready ("Ignoring this request",
  webcfg_rbus.c:1982) is in the queue by then, and is served by a later one;
* a supplementary sync drops the other supplementary documents from the list; an
  ACK under another trans id leaves its timer running; the event thread's failure
  code 611 hides a crash code from `failedDocsRetry`;
* a 200 without data in the last attempt is told as a failure of root (webcfg.c:729)
  and again by its code (:794), and a wrong content type in each attempt
  (webcfg_multipart.c:435): `HeardOnce` of `SyncRequest` states that the cloud hears of
  the end of a sync in one notification, and TLC refutes it;
* the attempts of a sync (`SyncRequest`) do not look at `g_shutdown`: up to four
  requests and back-offs pass before the thread sees it;
* a failure in the event thread sets `doc_fail` without waking the main loop: the
  retry after 15 minutes may wait for the end of a wait of up to a day, whose end
  then serves the retry in place of the maintenance sync;
* a force sync between midnight and the maintenance time, with the count of the day
  before still 1, plans the next maintenance sync for the day after.

## 7. Limits

* **Steps.** A module cuts wherever another thread can act on what is read or written
  next. In `SubdocApply` some statements that follow each other are one action all
  the same: `checkDBList` and the walk of `checkRootUpdate` (no one else removes what
  the walk looks for in a different order than before or after it), the removal of
  old nodes and the appending of new ones in `addToTmpList`, and `reset_numOfMpDocs`
  with `delete_tmp_list`. A handler's look at the list (`getTmpNode`, `validateEvent`,
  the version) is one action, and what it does about it is another.
* **Freed memory.** A write through a pointer to a freed node has no effect in
  `SubdocApply`, and a read takes the branch of "not found", or in `Record` the kind of
  document that the node was: the model shows that the pointers do dangle, not what
  follows. In `AkerExchange` a freed status may read as anything.
* **Syncs and time in `ForceSync`.** A sync begins and ends. The maintenance window
  may come at the end of any timed wait; when it does is in `Maintenance`. Payloads
  refused before they are queued (JSON, no telemetry URL) are left out, and so is that a
  caller clears the buffer and, given JSON, holds its text in it for a moment before
  it is replaced by the value.
* **Bundles in `WebcfgDB`** have all documents, and do not arrive while the event
  thread is between the last document and root. What happens then is "Root of the
  wrong bundle" in section 6; `RootHonest` is about everything else.
* **`SyncRequest`** refreshes the root version in one step, without the other
  writers of the list; these are in `WebcfgDB`.
* **The clock** of `Maintenance` is that of the zone for which `localtime` works: the
  offset of `getTimeOffset` is 0. Its steps take no time.
* **Exceptions in properties**, each for behaviour described in section 6 or in the
  definition's comment: COMP_INIT with a known version (webcfg_event.c:580) and the
  retry race in `NoneForgotten` and `AllSettle`, and documents without a part in
  `NoneForgotten`; a node that is taken out of the list, or is not recorded yet, in
  `StaleNeverRecorded`, `SuccessRecorded` and `RootFollows`; overlapping and failed
  saves in `Persisted`, and a list read again after one in `UpgradeRefetches`;
  overtaken answers in `AckMeansApplied`; a wait that returns without cause in
  `OncePerDay`; a shutdown that is taken back in `ShutdownEnds`.
* **Memory exhaustion** and failures to start a thread are left out.

## 8. Not modelled

* **MQTT** (webcfg_mqtt.c): an optional build in place of HTTP. The same bundles and
  notifications come through callbacks of the mosquitto library, whose ordering
  and threads the repository does not show.
* **msgpack and parameter decoding** (webcfg_param.c, webcfg_blob.c,
  webcfg_helpers.c): conversion of data without state; a part is decoded or not.
* **CCSP and generic glue** (webcfg_generic*.c, main.c, the rbus registration and value
  conversion of webcfg_rbus.c): calls into libraries outside the repository; they
  stand behind setValues, the reboot reason and the read scripts of the models.
* **Metadata look-ups** (webcfg_metadata.c): the lists are set at start and searched
  by name; `SubdocApply` takes the kinds of documents as constants. How a name is
  found in the string is a comparison of bytes without state.
* **Force reset limit** (webcfg_rbus.c:933): three per 24 hours, a counter of one
  thread; `WebcfgDB` bounds the resets by a constant, any limit implies that.
* **The blob parameter and cached blob** (webcfg_db.c, webcfg_rbus.c): a copy of the
  list for readers, rebuilt after each change.
* **Logging**, and the text of notifications.

Hazards without a property are listed in `PROJECT.json` with the reason.
