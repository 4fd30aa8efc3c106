---------------------------- MODULE AkerExchange -----------------------------
(***************************************************************************)
(* The aker document (the schedule of parental control). It goes to the    *)
(* aker service over parodus and not over rbus: the main thread asks       *)
(* parodus whether aker is there, then sends the blob (webcfg_aker.c, end  *)
(* of processMsgpackSubdoc); the parodus client thread gets the answers    *)
(* (webcfg_client.c) and makes events of them, which the event thread      *)
(* compares with the document's node in the tmp list (webcfg_event.c). The *)
(* threads share a flag and the identity of the document sent last, which  *)
(* no lock protects. The transaction id of a document is its version here; *)
(* 0 is none. Requests and answers may be lost.                            *)
(***************************************************************************)
EXTENDS Integers, Sequences

CONSTANTS
  Checks,     \* how often aker is asked for; 5 in the code
  Failures,   \* failures to receive until one is told; 14 in the code
  MaxDocs,    \* bound: aker documents
  MaxAsked    \* bound: answers that wait to be received

ASSUME ConstantsAssumption ==
  /\ Checks \in Nat \ {0} /\ Failures \in Nat \ {0}
  /\ MaxDocs \in Nat /\ MaxAsked \in Nat

Sends == 4

VARIABLES
  node,      \* aker in the tmp list: version, status, transaction id
  pc,        \* where the main thread is
  tries,     \* failed checks, or failed sends, of this document
  docs,      \* aker documents so far; the last one is being processed
  wake,      \* wakeFlag
  reply,     \* aker_status: "none", "online", "offline", or "freed"
  sentVer,   \* akerDocVersion
  sentTrans, \* akerTransId
  flag,      \* send_aker_flag
  fails,     \* sleep_counter
  client,    \* the client thread runs
  asked,     \* requests for the status that parodus has
  blobs,     \* versions that aker has been sent and has not answered
  inbox,     \* answers on their way to the client
  events,    \* ACK and NACK events on their way to the event thread
  shutdown,  \* g_shutdown
  applied,   \* history: versions that aker has applied
  lost,      \* history: versions whose answer was lost, or without a message
  heard,     \* history: versions whose answer has been received
  overtaken, \* history: a document was sent while the answer to one before was due
  falseAlarm \* history: a failure to receive was told of an answered document

mainVars  == <<pc, tries, docs>>
waitVars  == <<wake, reply>>
sentVars  == <<sentVer, sentTrans, overtaken>>
clientVars == <<flag, fails, falseAlarm>>
netVars   == <<asked, blobs, inbox, applied, lost>>
vars == <<node, mainVars, waitVars, sentVars, clientVars, netVars, events, heard, client,
          shutdown>>

Node(v, s, t) == [ver |-> v, status |-> s, trans |-> t]
Status(s) == [type |-> "status", code |-> s, ver |-> 0]
Result(c, v) == [type |-> "result", code |-> c, ver |-> v]

Init ==
  /\ node = Node(0, "none", 0)
  /\ pc = "idle" /\ tries = 0 /\ docs = 0
  /\ wake = FALSE /\ reply = "none"
  /\ sentVer = 0 /\ sentTrans = 0 /\ overtaken = FALSE
  /\ flag = FALSE /\ fails = 0 /\ falseAlarm = FALSE /\ client = TRUE
  /\ asked = 0 /\ blobs = {} /\ inbox = <<>> /\ applied = {} /\ lost = {}
  /\ events = <<>> /\ heard = {} /\ shutdown = FALSE

Leave == pc' = "idle" /\ tries' = 0 /\ UNCHANGED docs

------------------------------------------------------------------------------
(* The main thread: is aker there? (checkAkerStatus and the loop around it) *)

MainFrame == UNCHANGED <<clientVars, heard, client, shutdown, events>>

\* A bundle with an aker document.
Document ==
  /\ pc = "idle" /\ docs < MaxDocs /\ ~shutdown
  /\ docs' = docs + 1 /\ node' = Node(docs + 1, "pending", 0)
  /\ pc' = "check" /\ tries' = 0
  /\ MainFrame /\ UNCHANGED <<waitVars, sentVars, netVars>>

\* Mutant: does not give up.
NotReadyAgain ==
  /\ node' = Node(docs, "pending", 0)
  /\ pc' = "backoff" /\ tries' = tries + 1 /\ UNCHANGED docs

\* Not ready; after the last check the document has failed.
NotReady ==
  IF tries = Checks - 1
  THEN Leave /\ node' = Node(docs, "failed", 0)
  ELSE /\ node' = Node(docs, "pending", 0)
       /\ pc' = "backoff" /\ tries' = tries + 1 /\ UNCHANGED docs

Ask ==
  /\ pc = "check"
  /\ \/ /\ asked + Len(inbox) < MaxAsked
        /\ asked' = asked + 1
        /\ pc' = "await" /\ UNCHANGED <<tries, docs, node>>
     \/ NotReady /\ UNCHANGED asked
  /\ MainFrame /\ UNCHANGED <<waitVars, sentVars, blobs, inbox, applied, lost>>

Ready == pc' = "apply" /\ tries' = 0 /\ UNCHANGED <<docs, node>>

\* get_global_status: woken by a status, or at shutdown without one, when it returns
\* what the pointer is: NULL, or the status used before, which has been freed and
\* can read as anything.
Awake ==
  /\ pc = "await"
  /\ wake \/ shutdown
  /\ \/ reply \in {"online", "freed"} /\ Ready
     \/ reply # "online" /\ NotReady
  /\ wake' = FALSE
  /\ reply' = IF reply = "none" THEN "none" ELSE "freed"
  /\ MainFrame /\ UNCHANGED <<sentVars, netVars>>

\* Mutant: waits for the status.
AwaitForever ==
  /\ pc = "await" /\ ~wake /\ shutdown
  /\ NotReady
  /\ MainFrame /\ UNCHANGED <<waitVars, sentVars, netVars>>

\* After WAIT_TIME_IN_SEC.
AwaitTimesOut ==
  /\ pc = "await" /\ ~wake
  /\ NotReady
  /\ MainFrame /\ UNCHANGED <<waitVars, sentVars, netVars>>

\* akerwait__: broken off by a shutdown.
Backoff ==
  /\ pc = "backoff"
  /\ IF shutdown THEN Leave ELSE pc' = "check" /\ UNCHANGED <<tries, docs>>
  /\ MainFrame /\ UNCHANGED <<node, waitVars, sentVars, netVars>>

------------------------------------------------------------------------------
(* The main thread: processAkerSubdoc, send_aker_blob.                      *)

\* The document is decoded and gets its transaction id; or it is not valid.
Apply ==
  /\ pc = "apply"
  /\ \/ node' = Node(docs, "pending", docs) /\ pc' = "version" /\ UNCHANGED <<tries, docs>>
     \/ node' = Node(docs, "failed", 0) /\ Leave
  /\ MainFrame /\ UNCHANGED <<waitVars, sentVars, netVars>>

Due == blobs \cup {inbox[i].ver : i \in {j \in 1..Len(inbox) : inbox[j].type = "result"}}

SetVersion ==
  /\ pc = "version"
  /\ sentVer' = docs
  /\ overtaken' = (overtaken \/ Due # {})
  /\ pc' = "trans" /\ UNCHANGED <<tries, docs>>
  /\ MainFrame /\ UNCHANGED <<node, waitVars, sentTrans, netVars>>

\* Mutant: the id of the first document stays.
SetTransOnce ==
  /\ pc = "trans"
  /\ sentTrans' = IF sentTrans = 0 THEN docs ELSE sentTrans
  /\ pc' = "send" /\ UNCHANGED <<tries, docs>>
  /\ MainFrame /\ UNCHANGED <<node, waitVars, sentVer, overtaken, netVars>>

SetTrans ==
  /\ pc = "trans"
  /\ sentTrans' = docs
  /\ pc' = "send" /\ UNCHANGED <<tries, docs>>
  /\ MainFrame /\ UNCHANGED <<node, waitVars, sentVer, overtaken, netVars>>

SendBlob ==
  /\ pc = "send"
  /\ blobs' = blobs \cup {docs}
  /\ pc' = "flag" /\ tries' = 0 /\ UNCHANGED docs
  /\ MainFrame /\ UNCHANGED <<node, waitVars, sentVars, asked, inbox, applied, lost>>

\* It cannot be sent: again after a wait; in the end, at a shutdown, and at once when
\* it is no update and no delete, the document has failed.
SendFails ==
  /\ pc = "send"
  /\ \/ /\ tries < Sends - 1 /\ ~shutdown
        /\ tries' = tries + 1 /\ UNCHANGED <<pc, docs, node>>
     \/ /\ tries \in {0, Sends - 1} \/ shutdown
        /\ node' = Node(docs, "failed", 0) /\ Leave
  /\ MainFrame /\ UNCHANGED <<waitVars, sentVars, netVars>>

\* Only now, when the answer may have come already.
SetFlag ==
  /\ pc = "flag"
  /\ flag' = TRUE
  /\ Leave
  /\ UNCHANGED <<node, waitVars, sentVars, fails, falseAlarm, netVars, events, heard,
                 client, shutdown>>

------------------------------------------------------------------------------
(* Parodus and aker.                                                        *)

NetFrame == UNCHANGED <<node, mainVars, waitVars, sentVars, clientVars, events, heard,
                        client, shutdown>>

\* Answers the request for the status, or it is lost.
AnswerStatus ==
  /\ asked > 0 /\ asked' = asked - 1
  /\ \/ \E s \in {"online", "offline"} : inbox' = Append(inbox, Status(s))
     \/ UNCHANGED inbox
  /\ NetFrame /\ UNCHANGED <<blobs, applied, lost>>

Codes == {"ok", "rejected", "other", "garbled", "silent"}

\* aker applies the blob or does not; its answer may be lost.
AnswerBlob(v) ==
  /\ v \in blobs /\ blobs' = blobs \ {v}
  /\ \E c \in Codes :
       /\ applied' = IF c \in {"ok", "silent"} THEN applied \cup {v} ELSE applied
       /\ \/ inbox' = Append(inbox, Result(c, v)) /\ UNCHANGED lost
          \/ lost' = lost \cup {v} /\ UNCHANGED inbox
  /\ NetFrame /\ UNCHANGED asked

------------------------------------------------------------------------------
(* The client thread: parodus_receive.                                      *)

ClientFrame == UNCHANGED <<mainVars, sentVars, asked, blobs, applied, shutdown>>

\* 1: nothing has come. The counter starts again.
Nothing ==
  /\ client /\ ~shutdown /\ fails # 0
  /\ fails' = 0
  /\ ClientFrame /\ UNCHANGED <<node, waitVars, flag, falseAlarm, inbox, lost, events,
                                heard, client>>

\* Other failures; the counter keeps counting past the one that is told.
ReceiveFails ==
  /\ client /\ ~shutdown /\ fails <= Failures
  /\ IF flag /\ fails + 1 = Failures
     THEN /\ node' = [node EXCEPT !.status = "failed", !.trans = 0]
          /\ falseAlarm' = (falseAlarm \/ node.ver \in heard)
          /\ fails' = 0 /\ flag' = FALSE
     ELSE fails' = fails + 1 /\ UNCHANGED <<node, falseAlarm, flag>>
  /\ ClientFrame /\ UNCHANGED <<waitVars, inbox, lost, events, heard, client>>

\* Mutant: any status of aker's is an ACK.
OutcomeAck(code) == "ACK"

\* handleAkerStatus: 200, 201; 534, 535.
Outcome(code) == IF code = "ok" THEN "ACK" ELSE "NACK"

\* A message. The outcome is made an event for the document that was sent last; a
\* code that is not known, or a payload that cannot be decoded, is a failure of
\* whatever aker document is in the list; one without a message is passed over.
Receive ==
  /\ client /\ ~shutdown /\ inbox # <<>>
  /\ inbox' = Tail(inbox) /\ flag' = FALSE /\ fails' = 0
  /\ LET m == Head(inbox) IN
       \/ /\ m.type = "status" /\ wake' = TRUE /\ reply' = m.code
          /\ UNCHANGED <<node, events, heard, lost>>
       \/ /\ m.type = "result" /\ UNCHANGED waitVars
          /\ heard' = heard \cup {m.ver}
          /\ \/ /\ m.code \in {"ok", "rejected"}
                /\ events' = Append(events, [ver |-> sentVer, trans |-> sentTrans,
                                             status |-> Outcome(m.code)])
                /\ UNCHANGED <<node, lost>>
             \/ /\ m.code \in {"other", "garbled"}
                /\ node' = [node EXCEPT !.status = "failed", !.trans = 0]
                /\ UNCHANGED <<events, lost>>
             \/ /\ m.code = "silent"
                /\ lost' = lost \cup {m.ver} /\ UNCHANGED <<node, events>>
  /\ ClientFrame /\ UNCHANGED <<falseAlarm, client>>

ClientLeaves ==
  /\ client /\ shutdown
  /\ client' = FALSE /\ fails' = 0
  /\ ClientFrame /\ UNCHANGED <<node, waitVars, flag, falseAlarm, inbox, lost, events, heard>>

------------------------------------------------------------------------------
(* The event thread, and the shutdown.                                      *)

\* validateEvent and the version decide whether the event is of the document.
Event ==
  /\ events # <<>> /\ events' = Tail(events)
  /\ LET e == Head(events) IN
       node' = IF e.trans = node.trans /\ e.ver = node.ver
               THEN [node EXCEPT !.status = IF e.status = "ACK" THEN "success" ELSE "failed"]
               ELSE node
  /\ UNCHANGED <<mainVars, waitVars, sentVars, clientVars, netVars, heard, client, shutdown>>

Shutdown ==
  /\ ~shutdown /\ shutdown' = TRUE
  /\ UNCHANGED <<node, mainVars, waitVars, sentVars, clientVars, netVars, events, heard,
                 client>>

------------------------------------------------------------------------------

MainStep ==
  \/ Ask \/ Awake \/ AwaitTimesOut \/ Backoff \/ Apply
  \/ SetVersion \/ SetTrans \/ SendBlob \/ SendFails \/ SetFlag
ClientStep == Nothing \/ ReceiveFails \/ Receive \/ ClientLeaves
Net == AnswerStatus \/ \E v \in 1..MaxDocs : AnswerBlob(v)

Next == Document \/ MainStep \/ ClientStep \/ Net \/ Event \/ Shutdown

Spec == Init /\ [][Next]_vars

\* The main thread is scheduled, and its waits have timeouts; so are the receiving of
\* what has come, and the event thread.
FairSpec == Spec /\ WF_vars(MainStep) /\ WF_vars(Receive) /\ WF_vars(Event) /\ WF_vars(Net)

------------------------------------------------------------------------------
(* Properties.                                                              *)

Versions == 0..MaxDocs

TypeOK ==
  /\ node \in [ver : Versions, status : {"none", "pending", "failed", "success"},
               trans : Versions]
  /\ pc \in {"idle", "check", "await", "backoff", "apply", "version", "trans", "send", "flag"}
  /\ tries \in 0..(IF pc = "send" THEN Sends - 1 ELSE Checks - 1)
  /\ docs \in Versions /\ sentVer \in Versions /\ sentTrans \in Versions
  /\ wake \in BOOLEAN /\ reply \in {"none", "online", "offline", "freed"}
  /\ flag \in BOOLEAN /\ fails \in 0..Failures + 1 /\ client \in BOOLEAN
  /\ asked \in 0..MaxAsked /\ shutdown \in BOOLEAN
  /\ blobs \subseteq Versions /\ applied \subseteq Versions
  /\ lost \subseteq Versions /\ heard \subseteq Versions
  /\ inbox \in Seq([type : {"status"}, code : {"online", "offline"}, ver : {0}]
                    \cup [type : {"result"}, code : Codes, ver : Versions])
  /\ events \in Seq([ver : Versions, trans : Versions, status : {"ACK", "NACK"}])
  /\ overtaken \in BOOLEAN /\ falseAlarm \in BOOLEAN

\* An aker document counts as applied only when aker has applied that version, as long
\* as no document was sent while the answer to an earlier one was due: the event
\* takes its version and transaction id from the globals, not from the answer.
AckMeansApplied == node.status = "success" /\ ~overtaken => node.ver \in applied

\* The document is not forgotten: while it is pending and the main thread has left it,
\* its answer or the event made of it is still to come, or was lost or empty, or a
\* shutdown has come.
EventOf(v) == \E i \in 1..Len(events) : events[i].ver = v /\ events[i].trans = v
NoneForgotten ==
  pc = "idle" /\ node.status = "pending" =>
    node.ver \in Due \cup lost \/ EventOf(node.ver) \/ shutdown

\* The main thread does not stay with aker: it gives up in the end, however parodus
\* answers.
MainReturns == pc # "idle" ~> pc = "idle"

\* "waiting 70s (14*5sec) to get response from aker and then to send receive failure
\* notification" (webcfg_client.c:180): the failure is told of a document whose
\* response has not come. Refuted: the flag that says that a response is
\* due is set after sending, when it may have come already.
NoFalseAlarm == ~falseAlarm

\* The same comment: a document whose response does not come is told to have failed.
\* Refuted: a receive that times out starts the count again, so only a connection
\* that fails is told; after a lost response the document stays pending.
LossIsTold == node.status = "pending" ~> node.status # "pending" \/ shutdown
=============================================================================
