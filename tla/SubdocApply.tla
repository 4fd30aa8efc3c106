----------------------------- MODULE SubdocApply -----------------------------
(***************************************************************************)
(* How a fetched configuration bundle is applied: the cache of sub-        *)
(* documents in progress (the "tmp list", webcfg_db.c), the parsed parts   *)
(* (the "mp list", webcfg_multipart.c), the database of applied versions   *)
(* (webcfg_db.c), and the threads that work on them at the same time:      *)
(*                                                                         *)
(*   sync thread   WebConfigMultipartTask: fetches a bundle, parses it,    *)
(*                 caches it, sends each sub-document to its component     *)
(*                 with setValues, and retries failed ones later;          *)
(*   event thread  processSubdocEvents: handles the answers of the         *)
(*                 components in the order of the event queue;             *)
(*   timer thread  blobEventHandler: turns an expired timer into an event. *)
(*                                                                         *)
(* Components (outside this repository) and the cloud are the environment. *)
(*                                                                         *)
(* A linked list is a function from addresses to nodes, in the order of    *)
(* the addresses. The parts of a bundle get new addresses, and the node of *)
(* a document has the address of its part; root, the head when it is       *)
(* there, has address 0. A pointer kept across a blocking call is an       *)
(* address: its node has been freed once the address has left the list.    *)
(*                                                                         *)
(* Not modelled here: memory exhaustion, the notifications to the cloud    *)
(* (webcfg_notify.c: every handler below only adds messages to its queue), *)
(* the aker sub-document (applied by webcfg_aker.c), the order of primary, *)
(* supplementary and forced syncs (webcfg.c: any order is allowed here),   *)
(* a force reset (webcfg_rbus.c), which takes a document out of the        *)
(* database and of the tmp list.                                           *)
(*                                                                         *)
(* No lock spans the handling of an answer or the recording of a version:  *)
(* each reads and writes the lists and the database in steps of their own, *)
(* and call[p].state says which one thread p does next.                    *)
(***************************************************************************)
EXTENDS Integers, Sequences, FiniteSets

CONSTANTS
  Docs,             \* names of sub-documents
  Root,             \* the entry "root", not a sub-document
  SuppDocs,         \* the supplementary ones (the others are primary)
  ScalarDocs,       \* those without a blob: applied when setValues returns
  UnsupportedDocs,  \* those the device's metadata does not list as supported
  Bundles,          \* what the cloud may send: sequences of parts
  TransIds,         \* transaction ids of blobs (random: they may collide)
  FailCodes,        \* error codes a failing setValues may return
  MaxRetry,         \* MAX_APPLY_RETRY_COUNT
  MaxSync,          \* bound: bundles fetched
  MaxFaults         \* bound: failures, slow answers and restarts

Absent    == -1     \* no entry in the database
NoTrans   == "none" \* trans_id 0
Crash     == 192    \* stands for 190, 191, 192 and 193: retried later
NotThere  == 204    \* retried later unless the document is unsupported
OwnCode   == 611    \* stands for codes of webconfig or of a component's NACK

ASSUME DocsAssumption ==
  /\ Root \notin Docs
  /\ SuppDocs \subseteq Docs /\ ScalarDocs \subseteq Docs
  /\ UnsupportedDocs \subseteq Docs
ASSUME BundlesAssumption ==
  \A b \in Bundles :
    /\ b \in Seq([name : Docs, version : Nat \ {0}, ok : BOOLEAN])
    /\ \A i \in 1..Len(b) : b[i].name \in SuppDocs <=> b[1].name \in SuppDocs
ASSUME NumbersAssumption ==
  /\ MaxRetry \in Nat \ {0}
  /\ MaxSync \in Nat /\ MaxFaults \in Nat
  /\ FailCodes \subseteq Nat
ASSUME TransAssumption == NoTrans \notin TransIds

VARIABLES
  tmp,       \* the tmp list: address -> node (g_head)
  mp,        \* the parts of the bundles: address -> part (g_mp_head)
  db,        \* version of each applied document, and of root (webcfgdb_data)
  disk,      \* what WEBCFG_DB_FILE holds
  etag,      \* g_ETAG, the root version of the last primary response
  docFail,   \* g_doc_fail: failedDocsRetry has something to do
  top,       \* the highest address used so far
  cloud,     \* history: the bundles fetched, the last one in progress
  pc,        \* where the sync thread is
  supp,      \* g_supplementarySync of the sync in progress
  cursor,    \* the address the sync thread's loop has reached
  current,   \* current_doc_count of processMsgpackSubdoc
  success,   \* success_count of processMsgpackSubdoc
  call,      \* what each thread is in the middle of, and its next step
  events,    \* eventDataQ
  timer,     \* trans_id of each document's running timer
  expiring,  \* document whose timer blobEventHandler has seen expired
  requests,  \* blobs each component has received and not yet answered
  running,   \* the version each component runs
  applied,   \* history: every version each component has accepted
  faults     \* number of faults so far

lists   == <<tmp, mp>>
stored  == <<db, disk>>
syncing == <<etag, top, cloud, supp>>
loop    == <<pc, cursor, current, success>>
outside == <<requests, running, applied>>
vars == <<lists, stored, syncing, loop, docFail, call, events, timer,
          expiring, outside, faults>>

-----------------------------------------------------------------------------
(* The lists.                                                              *)

Threads == {"sync", "event"}
Null    == -1
NoCall  == [doc |-> Root, node |-> Null, version |-> 0, known |-> 0,
            trans |-> NoTrans, state |-> "none"]
IsPrimary(d) == d \notin SuppDocs

Node(d, v, status) ==
  [name |-> d, version |-> v, status |-> status, details |-> "none",
   code |-> 0, trans_id |-> NoTrans, retry_count |-> 0]

\* updateTmpList: retry_count is cleared unless "retry" is given.
Updated(n, v, status, details, code, trans, retry) ==
  [n EXCEPT !.version = v, !.status = status, !.details = details,
            !.code = code, !.trans_id = trans,
            !.retry_count = IF retry THEN @ ELSE 0]

\* updateTmpList and the like write through a pointer only to a node of that
\* name; nothing is written when the node has been freed meanwhile.
Here(t, a, d) == a \in DOMAIN t /\ t[a].name = d
Put(t, a, d, n) == IF Here(t, a, d) THEN [t EXCEPT ![a] = n] ELSE t

Only(t, S) == [a \in S |-> t[a]]
Empty      == [a \in {} |-> Null]
Join(t, u) == [a \in DOMAIN t \cup DOMAIN u |->
                 IF a \in DOMAIN t THEN t[a] ELSE u[a]]
IsLeast(a, S) == a \in S /\ \A b \in S : a <= b

\* getTmpNode: the first node with this name, or NULL.
Named(t, d) == {a \in DOMAIN t : t[a].name = d}
Pointer(t, d) ==
  IF Named(t, d) = {} THEN {Null} ELSE {a \in Named(t, d) : IsLeast(a, Named(t, d))}

\* The loops that delete every matching node through deleteFromTmpList: it
\* does not set next_node when it removes the head, so the loop ends there.
DeleteEach(t, S) ==
  IF \E a \in S : IsLeast(a, DOMAIN t)
    THEN Only(t, {a \in DOMAIN t : ~IsLeast(a, DOMAIN t)})
    ELSE Only(t, DOMAIN t \ S)

SetRoot(t, v, status) ==
  [a \in DOMAIN t |->
     IF a \in Pointer(t, Root)
       THEN Updated(t[a], v, status, "none", 0, NoTrans, FALSE) ELSE t[a]]

\* Mutant: any error code is taken for "unsupported".
SkippedIfError(n) == n.code # 0 \/ ~IsPrimary(n.name)
Skipped(n) == (n.code = NotThere /\ n.details = "doc_unsupported")
              \/ ~IsPrimary(n.name)
Subdocs(t) == {a \in DOMAIN t : t[a].name # Root}
AllSuccess(t, S) == S # {} /\ \A a \in S : t[a].status = "success"

\* checkRootUpdate: every primary document that counts is applied.
CheckRootUpdate(t) == AllSuccess(t, {a \in Subdocs(t) : ~Skipped(t[a])})
\* checkRootDelete: every document is applied.
CheckRootDelete(t) == AllSuccess(t, Subdocs(t))

\* Mutant: an entry is added, never replaced.
CheckDBListAdds(b, d, v) == IF b[d] = Absent THEN [b EXCEPT ![d] = v] ELSE b
\* checkDBList: add or replace one entry.
CheckDBList(b, d, v) == [b EXCEPT ![d] = v]
\* The root version, taken from g_ETAG, enters the database.
RootToDB(b) == IF etag # 0 THEN CheckDBList(b, Root, etag) ELSE b

\* Thread p goes on with the given step; "none" ends what it was doing.
Goes(p, state) ==
  call' = [call EXCEPT ![p] = IF state = "none" THEN NoCall
                              ELSE [@ EXCEPT !.state = state]]
\* The sync thread is leaving the loop of processMsgpackSubdoc early.
Leaving(p) == p = "sync" /\ pc = "leave"
AfterDelete(p) == IF Leaving(p) THEN "save" ELSE "none"

\* setValues has returned to thread p: a scalar document is applied, and the
\* tmp list says so.
Applied(p) ==
  LET c == call[p] IN
  /\ tmp' = Put(tmp, c.node, c.doc, Updated(tmp[c.node], c.version, "success",
                                            "none", 0, NoTrans, FALSE))
  /\ applied' = [applied EXCEPT ![c.doc] = @ \cup {c.version}]
  /\ Goes(p, "marked")

Init ==
  /\ tmp = Empty /\ mp = Empty
  /\ db = [d \in Docs \cup {Root} |-> Absent] /\ disk = db
  /\ etag = 0 /\ docFail = 0 /\ top = 0 /\ cloud = <<>>
  /\ pc = "idle" /\ supp = FALSE
  /\ cursor = 0 /\ current = 0 /\ success = 0
  /\ call = [p \in Threads |-> NoCall]
  /\ events = <<>> /\ timer = [d \in Docs |-> NoTrans] /\ expiring = Root
  /\ requests = [d \in Docs |-> <<>>]
  /\ running = [d \in Docs |-> 0] /\ applied = [d \in Docs |-> {}]
  /\ faults = 0

-----------------------------------------------------------------------------
(* The sync thread: one bundle, from the request to its last sub-document. *)

OfThisSync(d) == IsPrimary(d) = ~supp
RootVersion == IF supp THEN 0 ELSE etag

\* refreshConfigVersionList, called for the headers of a primary request: the
\* root version derived from the database, or 0 when the reboot reason cannot
\* be read or a firmware upgrade resets root (derive_root_doc_version_string).
Refresh ==
  /\ pc = "idle" /\ call["sync"] = NoCall /\ Len(cloud) < MaxSync
  /\ pc' = "request"
  /\ \E v \in {0, IF db[Root] = Absent THEN 0 ELSE db[Root]} :
       call' = [call EXCEPT !["sync"] =
                  [NoCall EXCEPT !.version = v, !.state = "derived"]]
  /\ UNCHANGED <<lists, stored, syncing, cursor, current, success, docFail,
                 events, timer, expiring, outside, faults>>

\* ... stores it in the database, whatever has been recorded there meanwhile,
\* and saves the database when that changed the version or the string of root.
StoreRoot ==
  /\ call["sync"].state = "derived"
  /\ db' = CheckDBList(db, Root, call["sync"].version)
  /\ \/ Goes("sync", "save")
     \/ db' = db /\ Goes("sync", "none")
  /\ UNCHANGED <<lists, disk, syncing, loop, docFail, events, timer, expiring,
                 outside, faults>>

\* A response that brings no bundle, or none within the time-out.
NoBundle ==
  /\ pc = "request" /\ call["sync"] = NoCall
  /\ pc' = "idle"
  /\ UNCHANGED <<lists, stored, syncing, cursor, current, success, docFail,
                 call, events, timer, expiring, outside, faults>>

\* webcfg_http_request: the response to a primary request, or to a supplemen-
\* tary one (which takes no version list along). headr_callback stores the ETag
\* of a primary one before anything of its body has been looked at.
Fetch(b) ==
  /\ pc \in {"idle", "request"} /\ call["sync"] = NoCall
  /\ Len(cloud) < MaxSync
  /\ supp' = (pc = "idle")
  /\ \A i \in 1..Len(b) : b[i].name \in SuppDocs <=> supp'
  /\ cloud' = Append(cloud, b)
  /\ etag' = IF supp' THEN etag ELSE Len(cloud')
  /\ pc' = "received"
  /\ UNCHANGED <<lists, stored, top, cursor, current, success, docFail, call,
                 events, timer, expiring, outside, faults>>

\* parseMultipartDocument without a boundary: nothing is applied.
ParseFails ==
  /\ pc = "received" /\ faults < MaxFaults
  /\ faults' = faults + 1
  /\ pc' = "idle"
  /\ UNCHANGED <<lists, stored, syncing, cursor, current, success,
                 docFail, call, events, timer, expiring, outside>>

\* parseMultipartDocument: delete_mp_doc, then addToMpList for every part. It
\* ends here when no part at all is there now ("Multipart list is empty").
Parse ==
  /\ pc = "received"
  /\ LET bundle == cloud[Len(cloud)]
         kept == {a \in DOMAIN mp : ~OfThisSync(mp[a].name)}
     IN /\ mp' = Join(Only(mp, kept),
                      [a \in (top + 1)..(top + Len(bundle)) |-> bundle[a - top]])
        /\ top' = top + Len(bundle)
  /\ pc' = IF mp' = Empty THEN "idle" ELSE "parsed"
  /\ UNCHANGED <<tmp, stored, etag, cloud, supp, cursor, current, success,
                 docFail, call, events, timer, expiring, outside, faults>>

\* addToTmpList: refresh the root node, drop the documents of this sync type,
\* append the new ones (behind a new root node if the list was empty).
AddToTmpList ==
  /\ pc = "parsed"
  /\ LET t == IF supp THEN tmp ELSE SetRoot(tmp, RootVersion, "pending")
         u == DeleteEach(t, {a \in Subdocs(t) : OfThisSync(t[a].name)})
         root == [a \in IF u = Empty /\ mp # Empty THEN {0} ELSE {}
                    |-> Node(Root, RootVersion, "pending")]
         new == [a \in {x \in DOMAIN mp : OfThisSync(mp[x].name)} |->
                    Node(mp[a].name, mp[a].version, "pending_apply")]
     IN tmp' = Join(u, Join(root, new))
  /\ pc' = "apply"
  /\ UNCHANGED <<mp, stored, syncing, cursor, current, success, docFail, call,
                 events, timer, expiring, outside, faults>>

\* Mutant: the loop advances once too often.
ApplicableNext ==
  {a \in DOMAIN mp : /\ a > cursor
                     /\ \E n \in Pointer(tmp, mp[a].name) :
                          n # Null /\ tmp[n].status = "pending_apply"}
\* processMsgpackSubdoc: the parts at or behind the loop's position whose
\* node in the tmp list is "pending_apply"; the others are skipped.
Applicable ==
  {a \in DOMAIN mp : /\ a >= cursor
                     /\ \E n \in Pointer(tmp, mp[a].name) :
                          n # Null /\ tmp[n].status = "pending_apply"}
Counted(d) == IF IsPrimary(d) THEN current + 1 ELSE current

\* Thread p calls setValues for document d, whose node n becomes m. A blob is
\* sent under a random transaction id, and its component may have received it
\* even if the call goes on to fail.
SetValues(p, d, n, m, v, known) ==
  \E state \in {"sent", "unsent"} :
    /\ state = "sent" \/ faults < MaxFaults
    /\ faults' = IF state = "sent" THEN faults ELSE faults + 1
    /\ call' = [call EXCEPT ![p] = [doc |-> d, node |-> n, version |-> v,
                    known |-> known, trans |-> NoTrans, state |-> state]]
    /\ IF d \in ScalarDocs
         THEN tmp' = Put(tmp, n, d, m) /\ UNCHANGED requests
         ELSE \E x \in TransIds :
                /\ tmp' = Put(tmp, n, d, [m EXCEPT !.trans_id = x])
                /\ requests' = IF state = "sent"
                     THEN [requests EXCEPT ![d] = Append(@, [version |-> v, trans_id |-> x])]
                     ELSE requests

MayFail(c) ==
  /\ c.state = "unsent" \/ (c.state = "sent" /\ faults < MaxFaults)
  /\ faults' = IF c.state = "sent" THEN faults + 1 ELSE faults

\* The next part of the bundle is sent to its component.
SendDoc ==
  /\ pc = "apply" /\ call["sync"] = NoCall
  /\ \E a \in Applicable : \E n \in Pointer(tmp, mp[a].name) :
       /\ IsLeast(a, Applicable) /\ mp[a].ok
       /\ SetValues("sync", mp[a].name, n,
            [Updated(tmp[n], mp[a].version, "pending", "none", 0, NoTrans, FALSE)
               EXCEPT !.retry_count = 1], mp[a].version, 0)
       /\ cursor' = a + 1 /\ current' = Counted(mp[a].name)
  /\ UNCHANGED <<mp, stored, syncing, pc, success, docFail, events, timer,
                 expiring, running, applied>>

\* The next part of the bundle cannot be decoded.
DecodeFails ==
  /\ pc = "apply" /\ call["sync"] = NoCall
  /\ \E a \in Applicable : \E n \in Pointer(tmp, mp[a].name) :
       /\ IsLeast(a, Applicable) /\ ~mp[a].ok
       /\ tmp' = Put(tmp, n, mp[a].name,
                     Updated(tmp[n], mp[a].version, "failed", "decode_failed",
                             OwnCode, NoTrans, FALSE))
       /\ cursor' = a + 1 /\ current' = Counted(mp[a].name)
  /\ UNCHANGED <<mp, stored, syncing, pc, success, docFail, call, outside,
                 events, timer, expiring, faults>>

\* setValues has succeeded and n documents have been applied in this loop, b
\* names their versions: root is recorded when as many documents were looked at
\* in it so far, and the tmp list (not the parts) deleted when all are applied.
Passed(b, n) ==
  LET all == n = current /\ ~supp IN
  /\ db' = IF all THEN RootToDB(b) ELSE b
  /\ success' = IF all /\ etag # 0 THEN n + 1 ELSE n
  /\ Goes("sync", IF all /\ CheckRootDelete(tmp) THEN "drop" ELSE "none")

\* setValues succeeds in the sync thread's loop.
SetSucceeds ==
  /\ pc = "apply" /\ call["sync"].state = "sent"
  /\ IF call["sync"].doc \in ScalarDocs
       THEN Applied("sync") /\ UNCHANGED <<db, success>>
       ELSE Passed(db, success) /\ UNCHANGED <<tmp, applied>>
  /\ UNCHANGED <<mp, disk, syncing, pc, cursor, current, docFail, events,
                 timer, expiring, requests, running, faults>>

\* The loop records the scalar document it has just marked.
LoopRecords ==
  LET c == call["sync"] IN
  /\ pc = "apply" /\ c.state = "marked"
  /\ IF IsPrimary(c.doc)
       THEN Passed(CheckDBList(db, c.doc, c.version), success + 1)
       ELSE Passed(db, success)
  /\ UNCHANGED <<lists, disk, syncing, pc, cursor, current, docFail, events,
                 timer, expiring, outside, faults>>

Unsupported(d, code) == d \in UnsupportedDocs /\ code \in {Crash, NotThere}

\* setValues fails. Codes of a component that is not there are retried later,
\* the others reject the document. An unsupported document may be the last
\* one the root version waits for: then root is recorded and the loop left.
SetFails(code) ==
  LET c == call["sync"]
      later == code \in {Crash, NotThere}
      unsupported == Unsupported(c.doc, code)
      details == IF unsupported THEN "doc_unsupported"
                 ELSE IF later THEN "failed_retrying" ELSE "doc_rejected"
      t == Put(tmp, c.node, c.doc, Updated(tmp[c.node], c.version, "failed",
                                           details, code, NoTrans, later))
      last == ~supp /\ unsupported /\ code = NotThere /\ CheckRootUpdate(t)
  IN
  /\ pc = "apply" /\ MayFail(c)
  /\ tmp' = t
  /\ docFail' = IF later /\ ~unsupported THEN 1 ELSE docFail
  /\ pc' = IF last THEN "leave" ELSE "apply"
  /\ Goes("sync", IF last THEN "rooted" ELSE "none")
  /\ UNCHANGED <<mp, stored, syncing, cursor, current, success, events, timer,
                 expiring, outside>>

\* Mutant: addNewDocEntry is not called.
EndLoopUnsaved ==
  /\ pc = "apply" /\ call["sync"] = NoCall /\ Applicable = {}
  /\ pc' = "idle" /\ cursor' = 0 /\ current' = 0 /\ success' = 0
  /\ UNCHANGED <<lists, stored, syncing, docFail, call, outside, events, timer,
                 expiring, faults>>
\* No part is left (or the parts have been released meanwhile): the database
\* is saved if the loop has recorded anything.
EndLoop ==
  /\ pc = "apply" /\ call["sync"] = NoCall /\ Applicable = {}
  /\ disk' = IF success > 0 THEN db ELSE disk
  /\ pc' = "idle" /\ cursor' = 0 /\ current' = 0 /\ success' = 0
  /\ UNCHANGED <<lists, db, syncing, docFail, call, outside, events, timer,
                 expiring, faults>>

-----------------------------------------------------------------------------
(* Recording: what a thread does once a document has been applied, each    *)
(* step of it without a lock the others would have to wait for.            *)

\* updateTmpList and the notifications (sendSuccessNotification, NACK).
Mark(p) ==
  LET c == call[p]
      n == tmp[c.node]
  IN
  /\ \/ /\ c.state = "valid"
        /\ tmp' = Put(tmp, c.node, c.doc, Updated(n, c.version, "success",
                                             "none", 0, c.trans, FALSE))
        /\ Goes(p, "marked")
     \/ /\ c.state = "refused"
        /\ tmp' = Put(tmp, c.node, c.doc, Updated(n, c.version, "failed",
                                             "NACK", OwnCode, c.trans, FALSE))
        /\ Goes(p, "none")
  /\ UNCHANGED <<mp, stored, syncing, loop, docFail, events, timer, expiring,
                 outside, faults>>

\* Mutant: a supplementary document is recorded too.
RecordAny(p) ==
  LET c == call[p] IN
  /\ p = "sync" => pc = "retry"
  /\ c.state = "marked"
  /\ db' = CheckDBList(db, c.doc, c.version)
  /\ Goes(p, IF CheckRootUpdate(tmp) THEN "rooted" ELSE "save")
  /\ UNCHANGED <<lists, disk, syncing, loop, docFail, events, timer, expiring,
                 outside, faults>>
\* checkDBList and checkRootUpdate, for a primary document only.
Record(p) ==
  LET c == call[p] IN
  /\ p = "sync" => pc = "retry"
  /\ c.state = "marked"
  /\ IF IsPrimary(c.doc)
       THEN /\ db' = CheckDBList(db, c.doc, c.version)
            /\ Goes(p, IF CheckRootUpdate(tmp) THEN "rooted" ELSE "save")
       ELSE Goes(p, "saved") /\ UNCHANGED db
  /\ UNCHANGED <<lists, disk, syncing, loop, docFail, events, timer, expiring,
                 outside, faults>>

\* updateRootVersionToDB: the database (g_ETAG is read here), ...
RecordRoot(p) ==
  /\ call[p].state = "rooted"
  /\ db' = RootToDB(db)
  /\ call' = [call EXCEPT ![p] = [@ EXCEPT !.version = etag, !.state = "rootdb"]]
  /\ UNCHANGED <<lists, disk, syncing, loop, docFail, events, timer, expiring,
                 outside, faults>>

\* Mutant: only the database is updated.
MarkRootNot(p) ==
  /\ call[p].state = "rootdb"
  /\ Goes(p, IF Leaving(p) THEN "saved" ELSE "save")
  /\ UNCHANGED <<lists, stored, syncing, loop, docFail, events, timer, expiring,
                 outside, faults>>
\* ... and then the root node of the tmp list.
MarkRoot(p) ==
  /\ call[p].state = "rootdb"
  /\ tmp' = IF call[p].version # 0 THEN SetRoot(tmp, call[p].version, "success") ELSE tmp
  /\ Goes(p, IF Leaving(p) THEN "saved" ELSE "save")
  /\ UNCHANGED <<mp, stored, syncing, loop, docFail, events, timer, expiring,
                 outside, faults>>

\* addNewDocEntry. It is what the loop does last when it is left early.
Save(p) ==
  /\ call[p].state = "save"
  /\ disk' = db
  /\ IF Leaving(p)
       THEN /\ pc' = "idle" /\ cursor' = 0 /\ current' = 0 /\ success' = 0
            /\ Goes(p, "none")
       ELSE /\ UNCHANGED loop
            /\ Goes(p, IF p = "sync" /\ pc = "request" THEN "none" ELSE "saved")
  /\ UNCHANGED <<lists, db, syncing, docFail, events, timer, expiring, outside,
                 faults>>

\* deleteRootAndMultipartDocs: checkRootDelete, ...
CheckDelete(p) ==
  /\ call[p].state = "saved"
  /\ Goes(p, IF CheckRootDelete(tmp) THEN "drop" ELSE AfterDelete(p))
  /\ UNCHANGED <<lists, stored, syncing, loop, docFail, events, timer, expiring,
                 outside, faults>>

\* ... delete_tmp_list (all that processMsgpackSubdoc does when it is not left
\* early) ...
DeleteTmpList(p) ==
  /\ call[p].state = "drop"
  /\ tmp' = Empty
  /\ Goes(p, IF p = "sync" /\ pc = "apply" THEN "none" ELSE "free")
  /\ UNCHANGED <<mp, stored, syncing, loop, docFail, events, timer, expiring,
                 outside, faults>>

\* ... and delete_multipart.
DeleteMultipart(p) ==
  /\ call[p].state = "free"
  /\ mp' = Empty
  /\ Goes(p, AfterDelete(p))
  /\ UNCHANGED <<tmp, stored, syncing, loop, docFail, events, timer, expiring,
                 outside, faults>>

RecordStep(p) ==
  \/ Mark(p) \/ Record(p) \/ RecordRoot(p) \/ MarkRoot(p) \/ Save(p)
  \/ CheckDelete(p) \/ DeleteTmpList(p) \/ DeleteMultipart(p)

-----------------------------------------------------------------------------
(* Retries: by the sync thread after 15 minutes, by the event thread.      *)

\* What the event thread does after retryMultipartSubdoc has failed.
GiveUp(p, t, n, d, known) ==
  IF p = "event" /\ Here(t, n, d) /\ t[n].retry_count < MaxRetry
    THEN Put(t, n, d, Updated(t[n], known, "failed", "retry_failed", OwnCode,
                              t[n].trans_id, TRUE))
    ELSE t

\* Mutant: the list is not told.
ExhaustedSilently(n) == n
\* checkAndUpdateTmpRetryCount, when the count has reached its limit.
Exhausted(n) ==
  IF n.retry_count = MaxRetry /\ n.details # "max_retry_reached"
    THEN Updated(n, n.version, "failed", "max_retry_reached", n.code, NoTrans, TRUE)
    ELSE n

\* Mutant: the limit is passed by one.
RetriesLeftOrEqual(n) == n.retry_count <= MaxRetry
RetriesLeft(n) == n.retry_count < MaxRetry

\* retryMultipartSubdoc, from its checks on the lists and the retry count: the
\* count is compared here and incremented, without a lock, in the next step.
Retry(p, n, d, known) ==
  LET fails(t) == tmp' = GiveUp(p, t, n, d, known) /\ UNCHANGED call
  IN
  /\ \/ (mp = Empty \/ n \notin DOMAIN tmp) /\ fails(tmp)
     \/ /\ mp # Empty /\ n \in DOMAIN tmp /\ ~RetriesLeft(tmp[n])
        /\ fails(Put(tmp, n, d, Exhausted(tmp[n])))
     \/ /\ mp # Empty /\ n \in DOMAIN tmp /\ RetriesLeft(tmp[n])
        /\ call' = [call EXCEPT ![p] = [NoCall EXCEPT
                      !.doc = d, !.node = n, !.known = known, !.state = "check"]]
        /\ UNCHANGED tmp
  /\ UNCHANGED <<requests, faults>>

\* ... and up to its setValues call: the document is sent again from the parts
\* that are cached now.
RetrySend(p) ==
  LET c == call[p]
      d == c.doc
      n == c.node
      parts == Named(mp, d)
      m == [tmp[n] EXCEPT !.retry_count = @ + 1]
      fails(t) == /\ tmp' = GiveUp(p, t, n, d, c.known)
                  /\ call' = [call EXCEPT ![p] = NoCall]
                  /\ UNCHANGED <<requests, faults>>
  IN
  /\ c.state = "check"
  /\ \/ parts = {} /\ fails(Put(tmp, n, d, m))
     \/ \E a \in parts :
          /\ IsLeast(a, parts)
          /\ \/ /\ ~mp[a].ok
                /\ fails(Put(tmp, n, d, Updated(m, mp[a].version, "failed",
                               "decode_failed", OwnCode, NoTrans, FALSE)))
             \/ /\ mp[a].ok
                /\ SetValues(p, d, n,
                     IF d \in ScalarDocs THEN m
                       ELSE Updated(m, mp[a].version, "pending",
                                    "failed_retrying", 0, NoTrans, TRUE),
                     mp[a].version, c.known)
  /\ UNCHANGED <<mp, stored, syncing, loop, docFail, events, timer, expiring,
                 running, applied>>

\* setValues returns to a retry: success, which applies a scalar document.
RetrySucceeds(p) ==
  /\ p = "sync" => pc = "retry"
  /\ call[p].state = "sent"
  /\ IF call[p].doc \in ScalarDocs
       THEN Applied(p)
       ELSE Goes(p, "none") /\ UNCHANGED <<tmp, applied>>
  /\ UNCHANGED <<mp, stored, syncing, loop, docFail, events, timer, expiring,
                 requests, running, faults>>

\* setValues returns to a retry: failure.
RetryFails(p, code) ==
  LET c == call[p]
      later == code \in {Crash, NotThere}
      n == tmp[c.node]
      m == IF later
             THEN Updated(n, c.version, "pending", "failed_retrying", code, NoTrans, TRUE)
             ELSE Updated(n, c.version, "failed", "doc_rejected", code, NoTrans, FALSE)
      t == Put(tmp, c.node, c.doc, m)
  IN
  /\ p = "sync" => pc = "retry"
  /\ MayFail(c)
  /\ tmp' = GiveUp(p, t, c.node, c.doc, c.known)
  /\ docFail' = IF later THEN 1 ELSE docFail
  /\ call' = [call EXCEPT ![p] = NoCall]
  /\ UNCHANGED <<mp, stored, syncing, loop, events, timer, expiring, outside>>

\* failedDocsRetry: the nodes it looks for, from its position on.
Retryable ==
  {a \in DOMAIN tmp :
     /\ a >= cursor
     /\ \/ tmp[a].code = Crash
        \/ tmp[a].code = NotThere /\ tmp[a].details # "doc_unsupported"}

\* The main loop calls it with the flag set, and clears the flag when its
\* retry timer is over.
StartFailedDocsRetry ==
  /\ pc = "idle" /\ docFail = 1
  /\ docFail' \in {0, 1}
  /\ pc' = "retry"
  /\ UNCHANGED <<lists, stored, syncing, cursor, current, success, call,
                 events, timer, expiring, outside, faults>>

\* The next of them, when its retry_timestamp has passed (checkRetryTimer).
RetryNext ==
  /\ pc = "retry" /\ call["sync"] = NoCall
  /\ \E a \in Retryable : /\ IsLeast(a, Retryable)
                          /\ cursor' = a + 1
                          /\ Retry("sync", a, tmp[a].name, 0)
  /\ UNCHANGED <<mp, stored, syncing, pc, current, success, docFail, events,
                 timer, expiring, running, applied>>

\* Mutant: the flag is not set again.
NotYetDueForgotten ==
  /\ pc = "retry" /\ call["sync"] = NoCall
  /\ \E a \in Retryable : IsLeast(a, Retryable) /\ cursor' = a + 1
  /\ UNCHANGED <<lists, stored, syncing, pc, current, success, docFail, call,
                 outside, events, timer, expiring, faults>>
\* The next of them, when it has not: the flag is set for the next time.
NotYetDue ==
  /\ pc = "retry" /\ call["sync"] = NoCall
  /\ \E a \in Retryable : IsLeast(a, Retryable) /\ cursor' = a + 1
  /\ docFail' = 1
  /\ UNCHANGED <<lists, stored, syncing, pc, current, success, call, outside,
                 events, timer, expiring, faults>>

EndFailedDocsRetry ==
  /\ pc = "retry" /\ call["sync"] = NoCall /\ Retryable = {}
  /\ pc' = "idle" /\ cursor' = 0
  /\ UNCHANGED <<lists, stored, syncing, current, success, docFail, call,
                 events, timer, expiring, outside, faults>>

\* release_success_docs_tmplist, when a maintenance window begins.
ReleaseSuccessDocs ==
  /\ pc = "idle"
  /\ LET done == {a \in DOMAIN tmp : tmp[a].status = "success"}
     IN done # {} /\ tmp' = DeleteEach(tmp, done)
  /\ UNCHANGED <<mp, stored, syncing, loop, docFail, call, events, timer,
                 expiring, outside, faults>>

-----------------------------------------------------------------------------
(* The event thread: processSubdocEvents.                                  *)

\* Mutant: the version check is missing.
ValidAnyVersion(e, n) == n \in DOMAIN tmp /\ tmp[n].trans_id = e.trans_id
\* validateEvent, and the version check that follows it: the event answers the
\* transaction under which the node was last sent.
Valid(e, n) == n \in DOMAIN tmp /\ tmp[n].trans_id = e.trans_id /\ tmp[n].version = e.version

\* stopWebcfgTimer: only the timer of the same transaction.
StopTimer(e) ==
  timer' = IF timer[e.doc] = e.trans_id THEN [timer EXCEPT ![e.doc] = NoTrans] ELSE timer

\* Thread "event" goes on to settle the document of the event.
Settles(e, n, state) ==
  call' = [call EXCEPT !["event"] =
             [doc |-> e.doc, node |-> n, version |-> e.version, known |-> 0,
              trans |-> e.trans_id, state |-> state]]

\* An answer is checked against the list here and acted upon later: Mark.
HandleAck(e, n) ==
  /\ e.kind = "ACK"
  /\ IF Valid(e, n) THEN StopTimer(e) /\ Settles(e, n, "valid")
                    ELSE UNCHANGED <<timer, call>>
  /\ UNCHANGED <<lists, stored, syncing, loop, docFail, expiring, outside,
                 faults>>

HandleNack(e, n) ==
  /\ e.kind = "NACK"
  /\ IF Valid(e, n) THEN StopTimer(e) /\ Settles(e, n, "refused")
                    ELSE UNCHANGED <<timer, call>>
  /\ UNCHANGED <<lists, stored, syncing, loop, docFail, expiring, outside,
                 faults>>

\* The component needs more time: start its timer (startWebcfgTimer).
HandleTimeout(e, n) ==
  /\ e.kind = "TIMEOUT"
  /\ timer' = IF Valid(e, n) THEN [timer EXCEPT ![e.doc] = e.trans_id] ELSE timer
  /\ UNCHANGED <<lists, stored, syncing, loop, docFail, call, expiring, outside,
                 faults>>

\* Mutant: looks at the status instead.
NackedOrPending(n) == n \in DOMAIN tmp /\ tmp[n].status # "success"
Nacked(n) == n \in DOMAIN tmp /\ tmp[n].details = "NACK"
TmpVersion(n) == IF n \in DOMAIN tmp THEN tmp[n].version ELSE 0

\* The timer has expired: send the document again unless it was refused.
HandleExpire(e, n) ==
  /\ e.kind = "EXPIRE"
  /\ IF Nacked(n) THEN UNCHANGED <<tmp, call, requests, faults>>
                  ELSE Retry("event", n, e.doc, TmpVersion(n))
  /\ UNCHANGED <<mp, stored, syncing, loop, docFail, timer, expiring, running,
                 applied>>

\* A component has started (again) and says which version it runs: a document
\* it already runs is recorded, a newer one is sent again.
HandleInit(e, n) ==
  LET known == TmpVersion(n) IN
  /\ e.kind = "INIT"
  /\ \/ /\ known = e.version /\ n \in DOMAIN tmp /\ db[e.doc] # e.version
        /\ Settles(e, n, "valid")
        /\ UNCHANGED <<tmp, requests, faults>>
     \/ /\ known # e.version /\ n \in DOMAIN tmp /\ ~Nacked(n)
        /\ Retry("event", n, e.doc, known)
     \/ /\ \/ ~n \in DOMAIN tmp
           \/ known = e.version /\ db[e.doc] = e.version
           \/ known # e.version /\ Nacked(n)
        /\ UNCHANGED <<tmp, call, requests, faults>>
  /\ UNCHANGED <<mp, stored, syncing, loop, docFail, timer, expiring, running,
                 applied>>

HandleEvent ==
  /\ call["event"] = NoCall
  /\ events # <<>> /\ events' = Tail(events)
  /\ \E n \in Pointer(tmp, Head(events).doc) :
       \/ HandleAck(Head(events), n)
       \/ HandleNack(Head(events), n)
       \/ HandleTimeout(Head(events), n)
       \/ HandleExpire(Head(events), n)
       \/ HandleInit(Head(events), n)

-----------------------------------------------------------------------------
(* The timer thread: blobEventHandler looks for an expired timer and then, *)
(* in a second step, resets that document's timer and queues the event.    *)

TimerCheck(d) ==
  /\ expiring = Root /\ timer[d] # NoTrans
  /\ expiring' = d
  /\ UNCHANGED <<lists, stored, syncing, loop, docFail, call, events, timer,
                 outside, faults>>

\* Mutant: the name of the expired timer is not checked.
TimerExpiresUnchecked ==
  /\ timer' = timer
  /\ events' = Append(events, [kind |-> "EXPIRE", doc |-> expiring,
                               trans_id |-> NoTrans, version |-> 0, code |-> 0])
  /\ expiring' = Root
  /\ UNCHANGED <<lists, stored, syncing, loop, docFail, call, outside, faults>>
TimerExpires ==
  /\ expiring # Root
  /\ timer' = [timer EXCEPT ![expiring] = NoTrans]
  /\ events' = Append(events, [kind |-> "EXPIRE", doc |-> expiring,
                               trans_id |-> NoTrans, version |-> 0, code |-> 0])
  /\ expiring' = Root
  /\ UNCHANGED <<lists, stored, syncing, loop, docFail, call, outside, faults>>

-----------------------------------------------------------------------------
(* The components (external): each takes the blobs it has received in      *)
(* order, and answers with an event (webcfgCallback, addToEventQueue).     *)

Event(kind, d, x, v, code) ==
  events' = Append(events, [kind |-> kind, doc |-> d, trans_id |-> x,
                            version |-> v, code |-> code])

ComponentAccepts(d) ==
  /\ requests[d] # <<>>
  /\ LET r == Head(requests[d]) IN
     /\ running' = [running EXCEPT ![d] = r.version]
     /\ applied' = [applied EXCEPT ![d] = @ \cup {r.version}]
     /\ Event("ACK", d, r.trans_id, r.version, 0)
  /\ requests' = [requests EXCEPT ![d] = Tail(@)]
  /\ UNCHANGED <<lists, stored, syncing, loop, docFail, call, timer, expiring,
                 faults>>

ComponentRefuses(d) ==
  /\ requests[d] # <<>> /\ faults < MaxFaults
  /\ LET r == Head(requests[d]) IN
     Event("NACK", d, r.trans_id, r.version, OwnCode)
  /\ requests' = [requests EXCEPT ![d] = Tail(@)]
  /\ faults' = faults + 1
  /\ UNCHANGED <<lists, stored, syncing, loop, docFail, call, timer, expiring,
                 running, applied>>

ComponentNeedsTime(d) ==
  /\ requests[d] # <<>> /\ faults < MaxFaults
  /\ LET r == Head(requests[d]) IN
     Event("TIMEOUT", d, r.trans_id, r.version, 0)
  /\ faults' = faults + 1
  /\ UNCHANGED <<lists, stored, syncing, loop, docFail, call, timer, expiring,
                 outside>>

\* A component that restarts has lost the blobs it had not applied.
ComponentRestarts(d) ==
  /\ d \notin ScalarDocs /\ faults < MaxFaults
  /\ Event("INIT", d, NoTrans, running[d], 0)
  /\ requests' = [requests EXCEPT ![d] = <<>>]
  /\ faults' = faults + 1
  /\ UNCHANGED <<lists, stored, syncing, loop, docFail, call, timer, expiring,
                 running, applied>>

-----------------------------------------------------------------------------
SyncStep ==
  \/ StoreRoot \/ NoBundle \/ LoopRecords \/ RecordStep("sync")
  \/ ParseFails \/ Parse \/ AddToTmpList \/ SendDoc \/ DecodeFails
  \/ SetSucceeds \/ (\E code \in FailCodes : SetFails(code)) \/ EndLoop
  \/ RetrySucceeds("sync") \/ (\E code \in FailCodes : RetryFails("sync", code))
  \/ RetryNext \/ RetrySend("sync") \/ NotYetDue \/ EndFailedDocsRetry
EventStep ==
  \/ HandleEvent \/ RecordStep("event") \/ RetrySend("event") \/ RetrySucceeds("event")
  \/ \E code \in FailCodes : RetryFails("event", code)
TimerStep == TimerExpires \/ \E d \in Docs : TimerCheck(d)
ComponentStep ==
  \E d \in Docs : \/ ComponentAccepts(d) \/ ComponentRefuses(d)
                  \/ ComponentNeedsTime(d) \/ ComponentRestarts(d)

Next ==
  \/ Refresh \/ (\E b \in Bundles : Fetch(b)) \/ StartFailedDocsRetry \/ ReleaseSuccessDocs
  \/ SyncStep \/ EventStep \/ TimerStep \/ ComponentStep

Spec == Init /\ [][Next]_vars

FairSpec ==
  /\ Spec
  /\ WF_vars(SyncStep) /\ WF_vars(EventStep) /\ WF_vars(TimerStep)
  /\ WF_vars(StartFailedDocsRetry) /\ SF_vars(RetryNext)
  /\ \A d \in Docs : WF_vars(ComponentAccepts(d))

-----------------------------------------------------------------------------
(* Properties.                                                             *)

Statuses == {"pending_apply", "pending", "success", "failed"}
Details  == {"none", "doc_unsupported", "failed_retrying", "doc_rejected",
             "decode_failed", "retry_failed", "max_retry_reached", "NACK"}
Kinds    == {"ACK", "NACK", "TIMEOUT", "EXPIRE", "INIT"}
Trans    == TransIds \cup {NoTrans}
Codes    == FailCodes \cup {0, OwnCode}

NodeType ==
  [name : Docs \cup {Root}, version : Nat, status : Statuses,
   details : Details, code : Codes, trans_id : Trans, retry_count : Nat]
PartType == [name : Docs, version : Nat \ {0}, ok : BOOLEAN]
States ==
  {"none", "derived", "check", "sent", "unsent", "valid", "refused", "marked",
   "rooted", "rootdb", "save", "saved", "drop", "free"}
CallType ==
  [doc : Docs \cup {Root}, node : Nat \cup {Null}, version : Nat, known : Nat,
   trans : Trans, state : States]
EventType ==
  [kind : Kinds, doc : Docs, trans_id : Trans, version : Nat, code : Codes]
RequestType == [version : Nat \ {0}, trans_id : TransIds]

\* Types; every address in use has been given out, and a bundle that has been
\* received is there to be parsed.
TypeOK ==
  /\ tmp \in [DOMAIN tmp -> NodeType] /\ DOMAIN tmp \subseteq 0..top
  /\ mp \in [DOMAIN mp -> PartType] /\ DOMAIN mp \subseteq 1..top
  /\ db \in [Docs \cup {Root} -> Nat \cup {Absent}]
  /\ disk \in [Docs \cup {Root} -> Nat \cup {Absent}]
  /\ etag \in Nat /\ docFail \in {0, 1} /\ top \in Nat
  /\ cloud \in Seq(Bundles) /\ supp \in BOOLEAN
  /\ pc = "received" => cloud # <<>>
  /\ pc \in {"idle", "request", "received", "parsed", "apply", "leave", "retry"}
  /\ cursor \in Nat /\ current \in Nat /\ success \in Nat
  /\ call \in [Threads -> CallType]
  /\ events \in Seq(EventType)
  /\ timer \in [Docs -> Trans] /\ expiring \in Docs \cup {Root}
  /\ requests \in [Docs -> Seq(RequestType)]
  /\ running \in [Docs -> Nat] /\ applied \in [Docs -> SUBSET Nat]
  /\ faults \in Nat

\* The database names, for primary documents only, versions their component
\* has really accepted: no lost, late or refused answer, no restart and no
\* retry makes checkDBList record another one (webcfg_event.c, processSubdoc-
\* Events; webcfg_multipart.c, processMsgpackSubdoc).
DBTruth ==
  \A d \in Docs : db[d] # Absent => d \notin SuppDocs /\ db[d] \in applied[d]

\* What the tmp list shows as applied, a primary document, is in the database
\* with that same version as soon as the thread that marked it has recorded it:
\* updateTmpList(..."success") and checkDBList never disagree, whatever the
\* other threads did to the list and to the database meanwhile.
SuccessRecorded ==
  \A a \in DOMAIN tmp :
    /\ tmp[a].status = "success" /\ tmp[a].name # Root /\ IsPrimary(tmp[a].name)
    /\ ~\E p \in Threads : call[p].state = "marked" /\ call[p].node = a
    => db[tmp[a].name] = tmp[a].version

\* The same for root, when no thread is at work. Violated: the next primary
\* request stores a root version it has derived before, or 0.
RootSuccessRecorded ==
  call = [p \in Threads |-> NoCall]
    => \A a \in Named(tmp, Root) :
         tmp[a].status = "success" => db[Root] = tmp[a].version

\* A late answer never puts back an older version: whatever enters the
\* database is the version that the tmp list is working on (the trans_id and
\* version checks of processSubdocEvents, the version setValues was called
\* with in the sync thread), unless the node it was checked against has been
\* taken out of the list while it was being recorded. Stated for a list that
\* root heads: in another one a node may be left of the bundle before, which a
\* retry sends again with the part of the next one.
StaleNeverRecorded ==
  [][Named(tmp, Root) # {} => \A d \in Docs : db'[d] # db[d] =>
       \/ \E a \in Named(tmp, d) : tmp[a].version = db'[d]
       \/ \E p \in Threads : /\ call[p].doc = d /\ call[p].state = "marked"
                             /\ call[p].node \notin DOMAIN tmp]_vars

\* The same without these exceptions ("version in event & tmp are not same
\* indicates latest doc is not yet applied", webcfg_event.c). Violated: a new
\* bundle may come between that check and checkDBList.
LatestRecorded ==
  [][\A d \in Docs : db'[d] # db[d] =>
       \E a \in Named(tmp, d) : tmp[a].version = db'[d]]_vars

\* The file is behind the database only while some thread has still to save
\* it: no path records a version and then forgets addNewDocEntry, so that a
\* reboot would bring the old version back.
SavedWhenDone ==
  disk # db => \/ pc = "apply" /\ success > 0
               \/ pc = "leave"
               \/ \E p \in Threads : call[p].state \in {"rooted", "rootdb", "save"}

\* A document is sent again at most MAX_APPLY_RETRY_COUNT times, and once more
\* when both threads have compared its count before either incremented it
\* (checkAndUpdateTmpRetryCount takes no lock).
RetryBounded ==
  \A a \in DOMAIN tmp :
    tmp[a].retry_count + Cardinality({p \in Threads : call[p].state = "check"
                                                       /\ call[p].node = a})
      <= MaxRetry + 1

\* The root version on disk stands for a bundle all of whose parts have been
\* applied, or are not supported: the cloud will not send that bundle again
\* (the comment of checkRootUpdate, webcfg_multipart.c: "Update root version to
\* DB when all primary docs are success").
RootMeansApplied ==
  disk[Root] > 0 =>
    LET b == cloud[disk[Root]] IN
    \A i \in 1..Len(b) : \/ b[i].version \in applied[b[i].name]
                         \/ b[i].name \in UnsupportedDocs

\* Once all the primary documents in the list that count are applied, root is
\* too, or some thread is about to say so: whichever thread applies the last
\* one updates the root node with it (checkRootUpdate, updateRootVersionToDB).
\* Stated for lists without primary scalar documents: the sync thread's loop
\* applies those without that check.
RootFollows ==
  /\ CheckRootUpdate(tmp)
  /\ {tmp[a].name : a \in Subdocs(tmp)} \cap ScalarDocs \subseteq SuppDocs
  /\ ~\E p \in Threads : call[p].state \in {"marked", "rooted", "rootdb"}
  => \A a \in Named(tmp, Root) : tmp[a].status = "success"

\* With scalar documents: the comment of checkRootUpdate ("Update root version
\* to DB when all primary docs are success"), once the loop has ended. Violated:
\* the loop records root only after a success with success_count equal to
\* current_doc_count, which a blob or an unsupported document before it rules out.
RootRecorded ==
  pc = "idle" /\ CheckRootUpdate(tmp)
    => \A a \in Named(tmp, Root) : db[Root] >= tmp[a].version

\* When the sync is over every new document has been sent or given up: the
\* loop of processMsgpackSubdoc skips none, whatever the event thread did to
\* the two lists meanwhile, unless it took the document's part away. Stated for
\* a list that root heads, as the comment of checkRootDelete has it ("Root will
\* be the first doc always in tmp list").
NewDocsAreSent ==
  pc = "idle" /\ Named(tmp, Root) # {}
    => \A a \in DOMAIN tmp :
         tmp[a].status = "pending_apply" => Named(mp, tmp[a].name) = {}

\* The same for any list. Violated: without root at its head the list may hold
\* an older node of the same name in front of the new one.
EveryNewDocSent ==
  pc = "idle" => \A a \in DOMAIN tmp :
    tmp[a].status = "pending_apply" => Named(mp, tmp[a].name) = {}

\* No part is taken away before it is sent ("mp docs destroy can be done ... as
\* all docs success can be reached during any sync", webcfg_event.c). Violated:
\* the next bundle may be parsed between delete_tmp_list and delete_multipart.
NewPartsKept ==
  pc = "idle" /\ Named(tmp, Root) # {}
    => \A a \in DOMAIN tmp : tmp[a].status # "pending_apply"

\* What may still settle the document at address a: a call, a request or an
\* answer in flight, a timer, or a retry by the sync thread.
Awaited(a) ==
  LET d == tmp[a].name
      answers(x) == x.version = tmp[a].version /\ x.trans_id = tmp[a].trans_id
  IN \/ \E p \in Threads : call[p].node = a
     \/ \E i \in 1..Len(requests[d]) : answers(requests[d][i])
     \/ \E i \in 1..Len(events) :
          events[i].doc = d /\ (answers(events[i]) \/ events[i].kind \in {"EXPIRE", "INIT"})
     \/ timer[d] # NoTrans \/ expiring = d
     \/ tmp[a].code \in {Crash, NotThere} /\ (docFail = 1 \/ pc = "retry")

\* Document a is "pending" with nothing on its way that could settle it. Two
\* cases are excepted, which the code does leave behind: the restart of a
\* component that has lost a version the database already has (COMP_INIT:
\* "Already in latest version"), and a retry count that two threads have taken
\* past its limit.
Forgotten(a) ==
  /\ tmp[a].status = "pending" /\ pc # "parsed" /\ ~Awaited(a)
  /\ db[tmp[a].name] # tmp[a].version /\ tmp[a].retry_count <= MaxRetry

\* No document is forgotten, through failed calls, component restarts, timers
\* that expire and retries by both threads, as long as the parts it is retried
\* from are kept: retryMultipartSubdoc leaves no pending document without a call,
\* an answer, a timer or a retry of its own to come.
NoneForgotten ==
  \A a \in Subdocs(tmp) : Named(mp, tmp[a].name) # {} => ~Forgotten(a)

\* A document whose part is gone is not forgotten either. Violated: a bundle
\* without parts empties the mp list, and the next retry sends nothing and
\* leaves the document pending (retryMultipartSubdoc, "Multipart mp cache is
\* NULL"), with no retry to come.
NoneLost == \A a \in Subdocs(tmp) : ~Forgotten(a)

\* Every document is settled in the end (same exceptions): the retries of the
\* sync thread and of the event thread neither go on for ever nor stop early.
Settled(n) == n.status \in {"success", "failed"}
AllSettle ==
  <>[](\A a \in Subdocs(tmp) : \/ Settled(tmp[a])
                                \/ db[tmp[a].name] = tmp[a].version
                                \/ tmp[a].retry_count > MaxRetry)
=============================================================================
