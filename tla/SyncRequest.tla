----------------------------- MODULE SyncRequest -----------------------------
(***************************************************************************)
(* One sync with the cloud: up to four requests, what each answer leads to *)
(* (webcfg.c, webcfg_multipart.c), the root version that is told and       *)
(* confirmed, and the token (webcfg_auth.c). The cloud answers anything.   *)
(*                                                                         *)
(* A refresh of the root version is one step here; what comes in between   *)
(* when other threads write the list is the subject of WebcfgDB. A bundle  *)
(* ends the sync; its root version is recorded at any time after.          *)
(***************************************************************************)
EXTENDS RootVersion

CONSTANTS
  MaxSyncs,      \* bound: syncs
  MaxVersion,    \* bound: root versions that the cloud sends
  MaxExpiries    \* bound: how often the token expires

ASSUME BoundsAssumption ==
  MaxSyncs \in Nat /\ MaxVersion \in Nat /\ MaxExpiries \in Nat

LastAttempt == 3
NoAnswer    == 0         \* response code if there is no response
Codes == {NoAnswer, 200, 204, 304, 403, 404, 429, 400, 500}
Kinds == {"primary", "supp"}

VARIABLES
  pc,         \* where processWebconfgSync is; "idle" outside of it
  kind,       \* get_global_supplementarySync
  attempt,    \* retry_count
  answer,     \* the response: its code, whether data has come with it, and its own
              \* content length
  contentLen, \* g_contentLen is "0"
  gEtag,      \* g_ETAG
  db,         \* webcfgdb_data
  hasFile,    \* the database file exists
  reason,     \* the platform's reboot reason
  known,      \* g_RebootReason has been fetched
  resetOnce,  \* the static flag reset_once
  token,      \* webpa_auth_token: "none", "expired" or "good"
  stored,     \* the token that the read script gives: the same, or "error"
  renewed,    \* history: a token has been created since the last one expired
  out,        \* root version of the bundle that is being applied, or 0
  outcome,    \* history: how the sync has ended
  told,       \* history: status notifications of this sync, with its response code
  failures,   \* history: notifications of this sync that root has failed
  ack,        \* history: the answer that has set POST-NONE
  syncs, expiries

rootVars  == <<db, hasFile, reason, known, resetOnce>>
tokenVars == <<token, stored, renewed, expiries>>
headVars  == <<contentLen, gEtag>>
histVars  == <<outcome, told, failures, ack>>
vars == <<pc, kind, attempt, answer, headVars, rootVars, tokenVars, out, histVars, syncs>>

Lengths == {"absent", "zero", "more"}
Response(c, d, l) == [code |-> c, data |-> d, len |-> l]
NoResponse == Response(NoAnswer, FALSE, "absent")
NoAck == [code |-> 0, len |-> "absent", kind |-> "primary"]

\* What a device can come up with.
Stored ==
  {Put(EmptyDB, "root", 0, s) : s \in Strings}
    \cup {Put([EmptyDB EXCEPT !.ver = [n \in Names |-> v]], "root", v, NoStr) :
            v \in 1..MaxVersion}

Init ==
  /\ pc = "idle" /\ kind = "primary" /\ attempt = 0 /\ answer = NoResponse
  /\ contentLen = FALSE /\ gEtag = 0
  /\ \/ hasFile = FALSE /\ db = EmptyDB
     \/ hasFile = TRUE /\ db \in Stored
  /\ reason \in Reasons /\ known = FALSE /\ resetOnce = FALSE
  /\ token = "none" /\ stored \in {"error", "expired", "good"} /\ renewed = FALSE
  /\ out = 0
  /\ outcome = "none" /\ told = 0 /\ failures = 0 /\ ack = NoAck
  /\ syncs = 0 /\ expiries = 0

------------------------------------------------------------------------------
(* Helpers.                                                                 *)

\* refreshConfigVersionList, with the response under which it is called.
Refresh(status) ==
  \E k \in {known, TRUE} :
    LET r == IF k THEN DeriveRoot(reason, hasFile, db, resetOnce, status)
                  ELSE Root(NoStr, 0, resetOnce)
    IN /\ known' = k /\ resetOnce' = r.done
       /\ db' = IF NoChange(db, r.ver, r.str) THEN db ELSE Put(db, "root", r.ver, r.str)
       /\ hasFile' = (hasFile \/ ~NoChange(db, r.ver, r.str))
       /\ UNCHANGED reason

\* Mutant: the token is created in memory alone.
CreateTokenKept ==
  \/ UNCHANGED <<token, stored, renewed>>
  \/ renewed' = TRUE /\ token' = "good" /\ UNCHANGED stored

\* createNewAuthToken: the create script, and if it succeeds the read script; each
\* may fail.
CreateToken ==
  \/ UNCHANGED <<token, stored, renewed>>
  \/ /\ stored' = "good" /\ renewed' = TRUE
     /\ token' \in {token, "good"}

\* getAuthToken: cleared, then read; a new one only if there is none to read.
GetToken ==
  \/ token' = "none" /\ UNCHANGED <<stored, renewed>>
  \/ stored # "error" /\ token' = stored /\ UNCHANGED <<stored, renewed>>
  \/ /\ stored = "error"
     /\ \/ token' = "none" /\ UNCHANGED <<stored, renewed>>
        \/ stored' = "good" /\ renewed' = TRUE /\ token' \in {"none", "good"}

Told   == told' = told + 1 /\ UNCHANGED <<outcome, failures, ack>>
End(o) == pc' = "idle" /\ outcome' = o

------------------------------------------------------------------------------
(* webcfg_http_request.                                                     *)

Begin(k) ==
  /\ pc = "idle" /\ syncs < MaxSyncs
  /\ pc' = "attempt" /\ kind' = k /\ attempt' = 0
  /\ outcome' = "none" /\ told' = 0 /\ failures' = 0
  /\ syncs' = syncs + 1
  /\ UNCHANGED <<answer, headVars, rootVars, tokenVars, out, ack>>

\* createCurlHeader; the versions only in the primary request.
Prepare ==
  /\ pc = "attempt" /\ pc' = "prepared"
  /\ GetToken
  /\ IF kind = "primary" THEN Refresh(0) ELSE UNCHANGED rootVars
  /\ UNCHANGED <<kind, attempt, answer, headVars, expiries, out, histVars, syncs>>

Send ==
  /\ pc = "prepared" /\ pc' = "sent"
  /\ UNCHANGED <<kind, attempt, answer, headVars, rootVars, tokenVars, out, histVars,
                 syncs>>

\* No handle, or no URL for this sync.
NotSent ==
  /\ pc \in {"attempt", "prepared"}
  /\ pc' = "sleep" /\ outcome' = "unsent"
  /\ UNCHANGED <<kind, attempt, answer, headVars, rootVars, tokenVars, out, told, failures,
                 ack, syncs>>

\* headr_callback, for each header of each response: a response without the header
\* leaves the value of an earlier one. Only a primary sync has a root version.
Headers(len, v) ==
  /\ contentLen' = IF len = "absent" THEN contentLen ELSE len = "zero"
  /\ gEtag' = IF kind = "primary" /\ v # 0 THEN v ELSE gEtag

\* A response that curl follows by itself.
Redirected ==
  /\ pc = "sent"
  /\ \E len \in Lengths : Headers(len, 0)
  /\ UNCHANGED <<pc, kind, attempt, answer, rootVars, tokenVars, out, histVars, syncs>>

\* The answer, or that there is none: it is data only with code 200, the multipart
\* content type and a body that is not empty; a transfer that broke off has none.
\* A content type that is wrong is told as a failure of root at once, in each attempt
\* anew.
Answered ==
  /\ pc = "sent" /\ pc' = "answered"
  /\ \E c \in Codes, d \in BOOLEAN, len \in Lengths, v \in 0..MaxVersion :
       /\ d => c = 200 /\ len # "zero" /\ v # 0
       /\ c = NoAnswer => len = "absent" /\ v = 0
       /\ answer' = Response(c, d, IF c = 200 THEN len ELSE "absent")
       /\ Headers(len, v)
       /\ failures' \in IF c = 200 /\ ~d THEN {failures, failures + 1} ELSE {failures}
  /\ UNCHANGED <<kind, attempt, rootVars, tokenVars, out, outcome, told, ack, syncs>>

------------------------------------------------------------------------------
(* handlehttpResponse.                                                      *)

HandleFrame == answer' = NoResponse /\ UNCHANGED <<kind, attempt, gEtag, syncs, expiries>>

NothingNew ==
  /\ pc = "answered" /\ answer.code \in {304, 204, 429, 400}
  /\ pc' = "idle" /\ Told
  /\ HandleFrame /\ UNCHANGED <<contentLen, rootVars, token, stored, renewed, out>>

Ack(code) ==
  IF db.str # "POST-NONE" /\ db'.str = "POST-NONE"
  THEN [code |-> code, len |-> answer.len, kind |-> kind] ELSE ack

NotFound ==
  /\ pc = "answered" /\ answer.code = 404
  /\ pc' = "idle"
  /\ Refresh(404)
  /\ told' = told + 1 /\ ack' = Ack(404)
  /\ HandleFrame /\ UNCHANGED <<contentLen, token, stored, renewed, out, outcome, failures>>

\* A bundle; parseMultipartDocument tells at once that its boundary is missing.
Bundle ==
  /\ pc = "answered" /\ answer.code = 200 /\ answer.data
  /\ End("bundle")
  /\ \/ out' = (IF kind = "primary" THEN gEtag ELSE out) /\ UNCHANGED failures
     \/ failures' = failures + 1 /\ UNCHANGED out
  /\ HandleFrame /\ UNCHANGED <<contentLen, rootVars, token, stored, renewed, told, ack>>

\* 200 without data, and a content length of 0 is known.
NoContent ==
  /\ pc = "answered" /\ answer.code = 200 /\ ~answer.data /\ contentLen
  /\ End("confirmed")
  /\ Refresh(200)
  /\ contentLen' = FALSE /\ ack' = Ack(200)
  /\ HandleFrame /\ UNCHANGED <<token, stored, renewed, out, told, failures>>

\* Mutant: told again with each attempt.
FailedEach ==
  /\ pc = "answered"
  /\ \/ answer.code \in {NoAnswer, 500}
     \/ answer.code = 200 /\ ~answer.data /\ ~contentLen
  /\ pc' = "sleep" /\ Told
  /\ HandleFrame /\ UNCHANGED <<contentLen, rootVars, token, stored, renewed, out>>

\* Anything that asks for another attempt. The last one is told by its code, and a 200
\* without data before that as a failure of root.
Failed ==
  /\ pc = "answered"
  /\ \/ answer.code \in {NoAnswer, 500}
     \/ answer.code = 200 /\ ~answer.data /\ ~contentLen
  /\ pc' = "sleep"
  /\ told' = IF attempt = LastAttempt THEN told + 1 ELSE told
  /\ failures' = IF attempt = LastAttempt /\ answer.code = 200
                 THEN failures + 1 ELSE failures
  /\ UNCHANGED <<outcome, ack>>
  /\ HandleFrame /\ UNCHANGED <<contentLen, rootVars, token, stored, renewed, out>>

\* 403: a new token; the last one is not told.
Expired ==
  /\ pc = "answered" /\ answer.code = 403
  /\ pc' = "sleep" /\ outcome' = "expired"
  /\ CreateToken
  /\ HandleFrame /\ UNCHANGED <<contentLen, rootVars, out, told, failures, ack>>

\* Mutant: the attempt is not counted.
WakeUncounted ==
  /\ pc = "sleep" /\ pc' = "attempt" /\ outcome' = "none"
  /\ UNCHANGED <<kind, attempt, answer, headVars, rootVars, tokenVars, out, told, failures, ack,
                 syncs>>

\* Mutant: one attempt more.
WakeOnceMore ==
  /\ pc = "sleep"
  /\ IF attempt > LastAttempt
     THEN pc' = "idle" /\ UNCHANGED <<attempt, outcome>>
     ELSE pc' = "attempt" /\ attempt' = attempt + 1 /\ outcome' = "none"
  /\ UNCHANGED <<kind, answer, headVars, rootVars, tokenVars, out, told, failures, ack,
                 syncs>>

\* After BACKOFF_SLEEP_DELAY_SEC.
Wake ==
  /\ pc = "sleep"
  /\ IF attempt = LastAttempt
     THEN pc' = "idle" /\ UNCHANGED <<attempt, outcome>>
     ELSE pc' = "attempt" /\ attempt' = attempt + 1 /\ outcome' = "none"
  /\ UNCHANGED <<kind, answer, headVars, rootVars, tokenVars, out, told, failures, ack,
                 syncs>>

------------------------------------------------------------------------------
(* Beside the main thread.                                                  *)

\* The event thread has recorded the bundle.
Recorded ==
  /\ out # 0
  /\ db' = Put(db, "root", out, NoStr) /\ hasFile' = TRUE /\ out' = 0
  /\ UNCHANGED <<pc, kind, attempt, answer, headVars, reason, known, resetOnce, tokenVars,
                 histVars, syncs>>

TokenExpires ==
  /\ stored = "good" /\ expiries < MaxExpiries
  /\ stored' = "expired" /\ renewed' = FALSE /\ expiries' = expiries + 1
  /\ token' = IF token = "good" THEN "expired" ELSE token
  /\ UNCHANGED <<pc, kind, attempt, answer, headVars, rootVars, out, histVars, syncs>>

------------------------------------------------------------------------------

Handle == NothingNew \/ NotFound \/ Bundle \/ NoContent \/ Failed \/ Expired
SyncStep == Prepare \/ Send \/ NotSent \/ Answered \/ Handle \/ Wake
Next ==
  (\E k \in Kinds : Begin(k)) \/ SyncStep \/ Redirected \/ Recorded \/ TokenExpires

Spec == Init /\ [][Next]_vars

\* The main thread runs, and a request ends by its timeout at the latest.
FairSpec == Spec /\ WF_vars(SyncStep)

------------------------------------------------------------------------------
(* Properties.                                                              *)

TypeOK ==
  /\ pc \in {"idle", "attempt", "prepared", "sent", "answered", "sleep"}
  /\ kind \in Kinds /\ attempt \in 0..LastAttempt
  /\ answer \in [code : Codes, data : BOOLEAN, len : Lengths]
  /\ contentLen \in BOOLEAN /\ gEtag \in 0..MaxVersion
  /\ db \in [ver : [Names -> (0..MaxVersion) \cup {Absent}], str : Strings]
  /\ hasFile \in BOOLEAN /\ reason \in Reasons /\ known \in BOOLEAN
  /\ resetOnce \in BOOLEAN
  /\ token \in {"none", "expired", "good"} /\ stored \in {"error", "expired", "good"}
  /\ renewed \in BOOLEAN /\ out \in 0..MaxVersion
  /\ outcome \in {"none", "unsent", "expired", "bundle", "confirmed"} /\ told \in 0..1
  /\ failures \in 0..LastAttempt + 2
  /\ ack \in [code : Codes, len : Lengths, kind : Kinds]
  /\ syncs \in 0..MaxSyncs /\ expiries \in 0..MaxExpiries

\* The cloud hears the end of each sync by its response code, once; not of one that ends
\* with a bundle, with the confirmation of a factory reset, or with a last attempt that
\* could not be sent or was refused for its token (handlehttpResponse returns err without
\* telling). That root has failed it hears once for an attempt, and once more for the last.
ToldOnce ==
  pc = "idle" /\ syncs > 0 =>
    /\ told = IF outcome = "none" THEN 1 ELSE 0
    /\ failures <= attempt + IF told = 1 /\ attempt = LastAttempt THEN 2 ELSE 1

\* The cloud hears of the end of a sync in one notification. Refuted: a 200 without data
\* in the last attempt is told as a failure of root and again by its code, a content type
\* that is wrong in each attempt.
HeardOnce == pc = "idle" => told + failures <= 1

\* A device that has had a root without NONE in its list never tells the cloud again
\* that it comes from a factory reset, whatever is answered and recorded.
NeverNoneAgain == [][hasFile /\ db.str \notin Nones => db'.str \notin Nones]_vars

\* Once a token has been created no request goes out with one that has expired
\* before, although each request reads the token anew.
FreshToken == pc = "sent" /\ renewed => token # "expired"

\* Every sync ends, whatever the cloud answers.
SyncEnds == pc # "idle" ~> pc = "idle"

\* "Received factory reset Ack from server, set root to POST-NONE"
\* (webcfg_multipart.c:1419): the answer that sets it on 200 is itself empty. Refuted:
\* the length 0 may be that of an earlier response or of a redirection, and the answer
\* one that broke off or has another content type.
AckFromServer == ack.code = 200 => ack.len = "zero"

\* It answers a request that has told the root. Refuted as well: the answer to the
\* request of a supplementary document sets it too.
AckOfPrimary == ack.code # 0 => ack.kind = "primary"
=============================================================================
