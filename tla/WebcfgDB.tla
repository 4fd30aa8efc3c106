------------------------------ MODULE WebcfgDB -------------------------------
(***************************************************************************)
(* The database of applied versions in memory and on disk, across restarts *)
(* and reboots (webcfg_db.c), and the root version the device reports      *)
(* (webcfg_multipart.c). Three threads write it, without a common lock:    *)
(*                                                                         *)
(*   main   forming a request, or on an answer that says there is no       *)
(*          configuration: refreshConfigVersionList;                       *)
(*   event  on the ACK of a document: the document, and root with the last *)
(*          one (webcfg_event.c);                                          *)
(*   rbus   a force reset: version 0 for root and the documents named      *)
(*          (webcfg_rbus.c).                                               *)
(*                                                                         *)
(* Each then saves the list: packs it, truncates the file, writes it. What *)
(* the documents of a bundle go through before their ACK is the subject of *)
(* SubdocApply; a bundle has all documents here, and the next one arrives  *)
(* when the event thread is not in the middle of recording.                *)
(***************************************************************************)
EXTENDS RootVersion

CONSTANTS
  MaxBundles,    \* bound: bundles, numbered by version
  MaxSyncs,      \* bound: requests
  MaxResets,     \* bound: force resets
  MaxCrashes     \* bound: restarts and reboots

ASSUME BoundsAssumption ==
  MaxBundles \in Nat /\ MaxSyncs \in Nat /\ MaxResets \in Nat /\ MaxCrashes \in Nat

Threads == {"main", "event", "rbus"}

VARIABLES
  db,         \* webcfgdb_data
  file,       \* WEBCFG_DB_FILE: "none", "torn" (truncated, or not decodable) or "whole"
  reason,     \* the platform's reboot reason
  known,      \* g_RebootReason has been fetched
  resetOnce,  \* the static flag reset_once
  stage,      \* where each thread is
  packed,     \* the bytes each thread is about to write; empty when it is not
  status,     \* the response under which the main thread refreshes, or 0
  derived,    \* locals rootVersion and root_ver of the main thread, until it sends
  reported,   \* the root of the request that waits for its answer
  etag,       \* the bundle whose documents are out; 0 if there is none
  acked,      \* its documents that have been recorded
  void,       \* its documents whose version in the tmp list a reset has cleared
  todo,       \* names that the force reset still has to reset
  newest,     \* number of bundles so far
  since,      \* history: root versions recorded since the last upgrade
  overlap,    \* history: two threads have been saving at the same time
  saves,      \* history: "failed" from a save that failed to the next that did not,
              \* "reread" if the list has been read again meanwhile, otherwise "good"
  syncs, resets, crashes

dbVars     == <<db, file, packed, overlap, saves>>
rootVars   == <<reason, known, resetOnce, status, derived, reported, syncs>>
bundleVars == <<etag, acked, newest, since>>
resetVars  == <<void, todo, resets>>
vars == <<dbVars, rootVars, bundleVars, resetVars, stage, crashes>>

NoRoot == Root(NoStr, 0, FALSE)
NoFile == [state |-> "none", db |-> EmptyDB]
Torn   == [state |-> "torn", db |-> EmptyDB]
Whole(list) == [state |-> "whole", db |-> list]

Init ==
  /\ db = EmptyDB /\ file = NoFile /\ packed = [t \in Threads |-> EmptyDB]
  /\ overlap = FALSE /\ saves = "good"
  /\ reason \in Reasons /\ known = FALSE /\ resetOnce = FALSE
  /\ status = 0 /\ derived = NoRoot /\ reported = NoRoot
  /\ etag = 0 /\ acked = {} /\ newest = 0 /\ since = {}
  /\ void = {} /\ todo = {}
  /\ stage = [t \in Threads |-> "idle"]
  /\ syncs = 0 /\ resets = 0 /\ crashes = 0

Move(t, place) == stage' = [stage EXCEPT ![t] = place]

------------------------------------------------------------------------------
(* Saving the list: addNewDocEntry, writeToDBFile.                          *)

Saving(t) == stage[t] \in {"pack", "open", "write"}

Pack(t) ==
  /\ stage[t] = "pack"
  /\ packed' = [packed EXCEPT ![t] = db]
  /\ overlap' = (overlap \/ \E u \in Threads \ {t} : stage[u] \in {"open", "write"})
  /\ Move(t, "open")
  /\ UNCHANGED <<db, file, saves, rootVars, bundleVars, resetVars, crashes>>

\* fopen "w+".
Open(t) ==
  /\ stage[t] = "open"
  /\ file' = Torn
  /\ Move(t, "write")
  /\ UNCHANGED <<db, packed, overlap, saves, rootVars, bundleVars, resetVars, crashes>>

\* What addNewDocEntry does next, whatever writeToDBFile has returned.
Written(t) ==
  /\ packed' = [packed EXCEPT ![t] = EmptyDB]
  /\ Move(t, IF t = "event" THEN "idle" ELSE "saved")
  /\ UNCHANGED <<db, overlap, rootVars, bundleVars, resetVars, crashes>>

Failed == saves' = IF saves = "reread" THEN saves ELSE "failed"

\* fopen fails: the file is what it was.
OpenFails(t) ==
  /\ stage[t] = "open"
  /\ Failed /\ UNCHANGED file
  /\ Written(t)

\* fwrite at the beginning of the file; what another thread has written is
\* overwritten, and the decoder takes the first object.
Write(t) ==
  /\ stage[t] = "write"
  /\ file' = Whole(packed[t])
  /\ saves' = IF saves = "reread" THEN saves ELSE "good"
  /\ Written(t)

\* fwrite writes less, which is not checked, or there was nothing packed.
WriteFails(t) ==
  /\ stage[t] = "write"
  /\ Failed /\ file' = Torn
  /\ Written(t)

------------------------------------------------------------------------------
(* The main thread: refreshConfigVersionList when a request is formed and   *)
(* when the answer is 404, or 200 without content.                          *)

\* The reboot reason is fetched until that succeeds; without it root is 0.
Derive(s) ==
  /\ status' = s
  /\ \E k \in {known, TRUE} :
       /\ known' = k
       /\ LET r == IF k THEN DeriveRoot(reason, file.state # "none", db, resetOnce, s)
                        ELSE Root(NoStr, 0, resetOnce)
          IN derived' = r /\ resetOnce' = r.done
  /\ Move("main", "derived")
  /\ UNCHANGED <<dbVars, reason, bundleVars, resetVars, crashes>>

BeginSync ==
  /\ stage["main"] = "idle" /\ syncs < MaxSyncs
  /\ Derive(0)
  /\ syncs' = syncs + 1
  /\ UNCHANGED reported

\* Mutant: root is not saved.
StoreRootUnsaved ==
  /\ stage["main"] = "derived"
  /\ db' = Put(db, "root", derived.ver, derived.str)
  /\ Move("main", "saved")
  /\ UNCHANGED <<file, packed, overlap, saves, rootVars, bundleVars, resetVars, crashes>>

StoreRoot ==
  /\ stage["main"] = "derived"
  /\ IF NoChange(db, derived.ver, derived.str)
     THEN Move("main", "saved") /\ UNCHANGED db
     ELSE Move("main", "pack") /\ db' = Put(db, "root", derived.ver, derived.str)
  /\ UNCHANGED <<file, packed, overlap, saves, rootVars, bundleVars, resetVars, crashes>>

\* The versions are listed and the request is sent.
Send ==
  /\ stage["main"] = "saved" /\ status = 0
  /\ reported' = derived /\ derived' = NoRoot
  /\ Move("main", "sent")
  /\ UNCHANGED <<dbVars, reason, known, resetOnce, status, syncs, bundleVars,
                 resetVars, crashes>>

\* In sync, or an error, or no answer.
Answered ==
  /\ \/ stage["main"] = "sent"
     \/ stage["main"] = "saved" /\ status # 0
  /\ Move("main", "idle")
  /\ status' = 0 /\ derived' = NoRoot /\ reported' = NoRoot
  /\ UNCHANGED <<dbVars, reason, known, resetOnce, syncs, bundleVars, resetVars, crashes>>

NoConfiguration ==
  /\ stage["main"] = "sent"
  /\ \E s \in {200, 404} : Derive(s)
  /\ reported' = NoRoot
  /\ UNCHANGED syncs

\* A bundle: its documents are put into the tmp list and sent.
Bundle ==
  /\ stage["main"] = "sent" /\ stage["event"] = "idle" /\ newest < MaxBundles
  /\ newest' = newest + 1 /\ etag' = newest + 1
  /\ acked' = {} /\ void' = {}
  /\ Move("main", "idle")
  /\ reported' = NoRoot
  /\ UNCHANGED <<dbVars, reason, known, resetOnce, status, derived, syncs, since, todo,
                 resets, crashes>>

------------------------------------------------------------------------------
(* The event thread: an ACK of the version that the tmp list has.           *)

\* Mutant: root is recorded with any document.
AckAny(d) ==
  /\ stage["event"] = "idle" /\ etag # 0 /\ d \notin acked \cup void
  /\ db' = Put(db, d, etag, NoStr)
  /\ acked' = acked \cup {d}
  /\ Move("event", "root")
  /\ UNCHANGED <<file, packed, overlap, saves, rootVars, etag, newest, since, resetVars, crashes>>

Ack(d) ==
  /\ stage["event"] = "idle" /\ etag # 0 /\ d \notin acked \cup void
  /\ db' = Put(db, d, etag, NoStr)
  /\ acked' = acked \cup {d}
  /\ Move("event", IF acked' = Docs THEN "root" ELSE "pack")
  /\ UNCHANGED <<file, packed, overlap, saves, rootVars, etag, newest, since, resetVars, crashes>>

\* All documents are "success": checkRootUpdate, updateRootVersionToDB.
RecordRoot ==
  /\ stage["event"] = "root"
  /\ db' = Put(db, "root", etag, NoStr)
  /\ since' = since \cup {etag}
  /\ Move("event", "pack")
  /\ UNCHANGED <<file, packed, overlap, saves, rootVars, etag, acked, newest, resetVars, crashes>>

------------------------------------------------------------------------------
(* Force reset: webcfgSubdocForceResetSetHandler.                           *)

\* All names must be in the list; root is added to them, in front.
Reset(docs) ==
  /\ stage["rbus"] = "idle" /\ resets < MaxResets
  /\ \A n \in docs \cup {"root"} : db.ver[n] # Absent
  /\ todo' = docs \cup {"root"}
  /\ resets' = resets + 1
  /\ Move("rbus", "reset")
  /\ UNCHANGED <<dbVars, rootVars, bundleVars, void, crashes>>

Turn(n) == n \in todo /\ ("root" \in todo => n = "root")

\* resetSubdocVersion: the list, then the file ...
ResetVersion(n) ==
  /\ stage["rbus"] = "reset" /\ Turn(n)
  /\ db' = Put(db, n, 0, NoStr)
  /\ Move("rbus", "pack")
  /\ UNCHANGED <<file, packed, overlap, saves, rootVars, bundleVars, resetVars, crashes>>

\* ... then the tmp list, where the document keeps its status; after the last one
\* a forced sync is asked for.
ResetTmp(n) ==
  /\ stage["rbus"] = "saved" /\ Turn(n)
  /\ todo' = todo \ {n}
  /\ void' = IF n \in Docs \ acked THEN void \cup {n} ELSE void
  /\ Move("rbus", IF todo' = {} THEN "idle" ELSE "reset")
  /\ UNCHANGED <<dbVars, rootVars, bundleVars, resets, crashes>>

------------------------------------------------------------------------------
(* Crashes and restarts.                                                    *)

\* Memory is lost; initDB reads the file if it can be decoded.
Boot(newFile, newReason) ==
  /\ crashes < MaxCrashes /\ crashes' = crashes + 1
  /\ file' = newFile /\ reason' = newReason
  /\ db' = newFile.db
  /\ packed' = [t \in Threads |-> EmptyDB] /\ overlap' = FALSE /\ saves' = "good"
  /\ known' = FALSE /\ resetOnce' = FALSE
  /\ status' = 0 /\ derived' = NoRoot /\ reported' = NoRoot
  /\ etag' = 0 /\ acked' = {} /\ void' = {} /\ todo' = {}
  /\ stage' = [t \in Threads |-> "idle"]
  /\ UNCHANGED <<newest, syncs, resets>>

\* The process alone, or the device.
Restart      == Boot(file, reason) /\ UNCHANGED since
Reboot       == Boot(file, "other") /\ UNCHANGED since
FactoryReset == Boot(NoFile, "factory") /\ UNCHANGED since
Upgrade      == Boot(file, "upgrade") /\ since' = {}

\* RfcEnable off and on: the threads have ended, the list is deleted and read again;
\* static variables stay.
Reload ==
  /\ \A t \in Threads : stage[t] = "idle"
  /\ crashes < MaxCrashes /\ crashes' = crashes + 1
  /\ db' = file.db /\ saves' = IF saves = "failed" THEN "reread" ELSE saves
  /\ etag' = 0 /\ acked' = {} /\ void' = {}
  /\ UNCHANGED <<file, packed, overlap, rootVars, newest, since, todo, resets, stage>>

------------------------------------------------------------------------------

SaveStep(t) == Pack(t) \/ Open(t) \/ OpenFails(t) \/ Write(t) \/ WriteFails(t)
MainStep  == BeginSync \/ StoreRoot \/ Send \/ Answered \/ NoConfiguration \/ Bundle
EventStep == (\E d \in Docs : Ack(d)) \/ RecordRoot
ResetStep ==
  \/ \E docs \in (SUBSET Docs) \ {{}} : Reset(docs)
  \/ \E n \in Names : ResetVersion(n) \/ ResetTmp(n)
Fault == Restart \/ Reboot \/ FactoryReset \/ Upgrade \/ Reload

Next == (\E t \in Threads : SaveStep(t)) \/ MainStep \/ EventStep \/ ResetStep \/ Fault

Spec == Init /\ [][Next]_vars

------------------------------------------------------------------------------
(* Properties.                                                              *)

Versions == 0..MaxBundles
DB == [ver : [Names -> Versions \cup {Absent}], str : Strings]
RootReport == [str : Strings, ver : Versions, done : BOOLEAN]
Places == {"idle", "derived", "pack", "open", "write", "saved", "sent", "root", "reset"}

TypeOK ==
  /\ db \in DB /\ packed \in [Threads -> DB] /\ overlap \in BOOLEAN
  /\ saves \in {"good", "failed", "reread"}
  /\ file \in [state : {"none", "torn", "whole"}, db : DB]
  /\ reason \in Reasons /\ known \in BOOLEAN /\ resetOnce \in BOOLEAN
  /\ status \in {0, 200, 404} /\ derived \in RootReport /\ reported \in RootReport
  /\ stage \in [Threads -> Places]
  /\ etag \in Versions /\ newest \in Versions /\ since \subseteq Versions
  /\ acked \subseteq Docs /\ void \subseteq Docs /\ todo \subseteq Names
  /\ syncs \in 0..MaxSyncs /\ resets \in 0..MaxResets /\ crashes \in 0..MaxCrashes

\* A root version stands for its bundle: in memory, in the file, and in what is
\* about to be written, each document is of the root's version or newer, or has
\* been reset. So a device that comes up from any file never tells the cloud that
\* it has a bundle of which a document is missing.
Honest(list) ==
  RootOf(list) > 0 => \A d \in Docs : list.ver[d] = 0 \/ list.ver[d] >= RootOf(list)
RootHonest ==
  /\ Honest(db) /\ Honest(file.db)
  /\ \A t \in Threads : Honest(packed[t])

\* What the list says is in the file once nobody is saving it: every path that changes
\* the list saves it, and a save writes all of it, so that it makes up for one before
\* that has failed. Not if two threads have been saving at once, nor after a save that
\* failed until the next, for which nobody asks.
Quiet == \A t \in Threads : ~Saving(t)
Persisted ==
  Quiet /\ ~overlap /\ saves = "good" /\ stage["event"] # "root" => db = file.db

\* After an upgrade of the firmware everything is fetched again: a request reports
\* root 0 until a root version has been recorded since ("when subdocs are applied
\* and reboot due to software migration/rollback, root reset to 0",
\* webcfg_multipart.c:1428). Not if the file still has a root that could not be
\* overwritten and is read again, while reset_once says that it is reset.
UpgradeRefetches ==
  stage["main"] = "sent" /\ reason = "upgrade" /\ saves # "reread" =>
    reported.ver \in since \cup {0}

\* "addNewDocEntry function will pack the DB blob and persist to a bin file"
\* (webcfg_db.c:163): after a save the file is the list, whoever saves beside.
\* Refuted with webcfg_db.cfg: the older of two packed lists may be written last, and
\* what fopen and fwrite return is ignored.
SavedIsList == Quiet /\ stage["event"] # "root" => db = file.db

\* "update db list with version 0 for the given subdoc" (webcfg_rbus.c:836): after
\* a force reset, and until the next bundle, no root version is recorded, so that
\* the sync it asks for fetches. Refuted when the last ACK of a bundle is being
\* recorded meanwhile.
ResetHolds ==
  resets > 0 /\ stage["rbus"] = "idle" /\ newest = etag /\ crashes = 0 => RootOf(db) = 0
=============================================================================
