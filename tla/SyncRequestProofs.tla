-------------------------- MODULE SyncRequestProofs ---------------------------
(***************************************************************************)
(* Proofs about SyncRequest, for any number of syncs, root versions and    *)
(* expiries of the token: type correctness, that the cloud is told the end *)
(* of a sync once, that a renewed token is used, and that NONE is not      *)
(* reported again.                                                         *)
(***************************************************************************)
EXTENDS SyncRequest, TLAPS

Versions == 0..MaxVersion
DB == [ver : [Names -> Versions \cup {Absent}], str : Strings]

LEMMA PutType ==
  ASSUME NEW list \in DB, NEW n \in Names, NEW v \in Versions, NEW s \in Strings
  PROVE  Put(list, n, v, s) \in DB
  BY DEF DB, Put

LEMMA RootOfType ==
  ASSUME NEW list \in DB
  PROVE  RootOf(list) \in Versions
<1>1. list.ver["root"] \in Versions \cup {Absent}
  BY DEF DB, Names
<1> QED
  BY <1>1, BoundsAssumption DEF RootOf, Versions

\* What a request reports is a root version of the list, and NONE only if there is no
\* file or the list says so.
LEMMA DeriveType ==
  ASSUME NEW list \in DB, NEW r \in Reasons, NEW f \in BOOLEAN, NEW b \in BOOLEAN,
         NEW s
  PROVE  LET root == DeriveRoot(r, f, list, b, s)
         IN /\ root.str \in Strings /\ root.ver \in Versions /\ root.done \in BOOLEAN
            /\ f /\ list.str \notin Nones => root.str \notin Nones
<1>1. RootOf(list) \in Versions /\ 0 \in Versions /\ list.str \in Strings
  BY RootOfType, BoundsAssumption DEF DB, Versions
<1>2. NoneFor(r) \in Strings /\ NoStr \in Strings /\ "POST-NONE" \in Strings
  BY DEF NoneFor, Strings, Nones, NoStr
<1>3. NoStr \notin Nones /\ "POST-NONE" \notin Nones
  BY DEF Nones, NoStr
<1>4. \A str, v, d : /\ Root(str, v, d).str = str /\ Root(str, v, d).ver = v
                     /\ Root(str, v, d).done = d
  BY DEF Root
<1>5. \E str \in Strings, v \in {0, RootOf(list)}, d \in BOOLEAN :
        /\ DeriveRoot(r, f, list, b, s) = Root(str, v, d)
        /\ f /\ list.str \notin Nones => str \notin Nones
  <2>1. CASE ~f
    BY <1>1, <1>2, <2>1 DEF DeriveRoot
  <2>2. CASE f
    BY <1>1, <1>2, <1>3, <2>2 DEF DeriveRoot
  <2> QED
    BY <2>1, <2>2
<1>6. PICK str \in Strings, v \in {0, RootOf(list)}, d \in BOOLEAN :
        /\ DeriveRoot(r, f, list, b, s) = Root(str, v, d)
        /\ f /\ list.str \notin Nones => str \notin Nones
  BY <1>5
<1> QED
  BY <1>1, <1>4, <1>6

LEMMA StoredType == Stored \subseteq DB /\ EmptyDB \in DB
<1>1. EmptyDB \in DB
  BY DEF EmptyDB, DB, Absent, Strings
<1>2. "root" \in Names /\ 0 \in Versions /\ NoStr \in Strings
  BY BoundsAssumption DEF Names, Versions, Strings
<1>3. ASSUME NEW v \in 1..MaxVersion
      PROVE  Put([EmptyDB EXCEPT !.ver = [n \in Names |-> v]], "root", v, NoStr) \in DB
  <2>1. v \in Versions
    BY BoundsAssumption DEF Versions
  <2>2. [EmptyDB EXCEPT !.ver = [n \in Names |-> v]] \in DB
    BY <1>1, <2>1 DEF DB
  <2> QED
    BY <1>2, <2>1, <2>2, PutType
<1>4. \A s \in Strings : Put(EmptyDB, "root", 0, s) \in DB
  BY <1>1, <1>2, PutType
<1> QED
  BY <1>1, <1>3, <1>4 DEF Stored

------------------------------------------------------------------------------
(* Type correctness, in parts; with it goes what a sync has told so far.    *)

Places == {"idle", "attempt", "prepared", "sent", "answered", "sleep"}
Answers == [code : Codes, data : BOOLEAN, len : Lengths]
Acks == [code : Codes, len : Lengths, kind : Kinds]

PlaceType == pc \in Places /\ kind \in Kinds /\ attempt \in 0..LastAttempt
             /\ syncs \in 0..MaxSyncs
HeadType  == answer \in Answers /\ contentLen \in BOOLEAN /\ gEtag \in Versions
             /\ out \in Versions
RootType  == db \in DB /\ hasFile \in BOOLEAN /\ reason \in Reasons /\ known \in BOOLEAN
             /\ resetOnce \in BOOLEAN
TokenType == token \in {"none", "expired", "good"} /\ stored \in {"error", "expired", "good"}
             /\ renewed \in BOOLEAN /\ expiries \in 0..MaxExpiries
HistType  == outcome \in {"none", "unsent", "expired", "bundle", "confirmed"}
             /\ told \in 0..1 /\ failures \in 0..LastAttempt + 2 /\ ack \in Acks

LEMMA Parts ==
  /\ TypeOK <=> PlaceType /\ HeadType /\ RootType /\ TokenType /\ HistType
  /\ PlaceType' /\ HeadType' /\ RootType' /\ TokenType' /\ HistType' => TypeOK'
  BY DEF TypeOK, PlaceType, HeadType, RootType, TokenType, HistType, Places, Answers,
     Acks, DB, Versions

\* Nothing is told before the sync, or its last attempt, has ended, except that root has
\* failed: once for each attempt that has been answered, and once more for the last.
End1 ==
  /\ told = IF outcome = "none" THEN 1 ELSE 0
  /\ failures <= attempt + IF told = 1 /\ attempt = LastAttempt THEN 2 ELSE 1
Tells ==
  /\ pc \in {"attempt", "prepared", "sent", "answered"} => told = 0 /\ outcome = "none"
  /\ pc \in {"attempt", "prepared", "sent"} => failures <= attempt
  /\ pc = "answered" => failures <= attempt + IF answer.data THEN 0 ELSE 1
  /\ pc = "sleep" => IF attempt = LastAttempt THEN End1
                     ELSE told = 0 /\ failures <= attempt + 1
  /\ pc = "idle" /\ syncs > 0 => End1

Inv == TypeOK /\ Tells

LEMMA RootKept == RootType /\ UNCHANGED rootVars => RootType'
  BY DEF RootType, rootVars
LEMMA TokenKept == TokenType /\ UNCHANGED tokenVars => TokenType'
  BY DEF TokenType, tokenVars
LEMMA HeadKept == HeadType /\ UNCHANGED <<answer, headVars, out>> => HeadType'
  BY DEF HeadType, headVars
LEMMA HistKept == HistType /\ UNCHANGED histVars => HistType'
  BY DEF HistType, histVars
LEMMA PlaceKept ==
  ASSUME PlaceType, UNCHANGED <<kind, attempt, syncs>>, NEW p \in Places, pc' = p
  PROVE  PlaceType'
  BY DEF PlaceType

LEMMA GetTokenType == TokenType /\ GetToken /\ UNCHANGED expiries => TokenType'
  BY DEF TokenType, GetToken
LEMMA CreateTokenType == TokenType /\ CreateToken /\ UNCHANGED expiries => TokenType'
  BY DEF TokenType, CreateToken

\* A refresh keeps the type, and does not bring NONE back.
LEMMA RefreshType ==
  ASSUME RootType, NEW s, Refresh(s)
  PROVE  RootType' /\ (hasFile /\ db.str \notin Nones => db'.str \notin Nones)
<1>1. PICK k \in {known, TRUE} :
        LET r == IF k THEN DeriveRoot(reason, hasFile, db, resetOnce, s)
                      ELSE Root(NoStr, 0, resetOnce)
        IN /\ known' = k /\ resetOnce' = r.done
           /\ db' = IF NoChange(db, r.ver, r.str) THEN db ELSE Put(db, "root", r.ver, r.str)
           /\ hasFile' = (hasFile \/ ~NoChange(db, r.ver, r.str))
           /\ UNCHANGED reason
  BY DEF Refresh
<1> DEFINE r == IF k THEN DeriveRoot(reason, hasFile, db, resetOnce, s)
                     ELSE Root(NoStr, 0, resetOnce)
<1>2. /\ r.str \in Strings /\ r.ver \in Versions /\ r.done \in BOOLEAN
      /\ hasFile /\ db.str \notin Nones => r.str \notin Nones
  <2>1. CASE k
    BY <2>1, DeriveType DEF RootType
  <2>2. CASE ~k
    BY <2>2, BoundsAssumption DEF RootType, Root, Strings, Nones, NoStr, Versions
  <2> QED
    BY <2>1, <2>2
<1> HIDE DEF r
<1>3. known' = k /\ resetOnce' = r.done /\ reason' = reason
      /\ db' = (IF NoChange(db, r.ver, r.str) THEN db ELSE Put(db, "root", r.ver, r.str))
      /\ hasFile' = (hasFile \/ ~NoChange(db, r.ver, r.str))
  BY <1>1 DEF r
<1>4. Put(db, "root", r.ver, r.str) \in DB /\ Put(db, "root", r.ver, r.str).str = r.str
  <2>1. db \in DB /\ "root" \in Names
    BY DEF RootType, Names
  <2>2. Put(db, "root", r.ver, r.str) \in DB
    BY <1>2, <2>1, PutType
  <2> QED
    BY <2>2 DEF Put
<1>5. hasFile' \in BOOLEAN /\ known' \in BOOLEAN
  BY <1>3, Zenon DEF RootType
<1>6. db' \in DB /\ resetOnce' \in BOOLEAN /\ reason' \in Reasons
  BY <1>2, <1>3, <1>4 DEF RootType
<1>7. hasFile /\ db.str \notin Nones => db'.str \notin Nones
  BY <1>2, <1>3, <1>4
<1> QED
  BY <1>5, <1>6, <1>7 DEF RootType

LEMMA InitInv == Init => Inv
<1> SUFFICES ASSUME Init PROVE Inv
  OBVIOUS
<1>1. PlaceType
  BY BoundsAssumption DEF Init, PlaceType, Places, Kinds, LastAttempt
<1>2. HeadType
  <2>1. NoResponse \in Answers
    BY DEF Answers, NoResponse, Response, NoAnswer, Codes, Lengths
  <2>2. 0 \in Versions
    BY BoundsAssumption DEF Versions
  <2>3. answer = NoResponse /\ contentLen = FALSE /\ gEtag = 0 /\ out = 0
    BY DEF Init
  <2> QED
    BY <2>1, <2>2, <2>3 DEF HeadType
<1>3. RootType
  BY StoredType DEF Init, RootType
<1>4. TokenType
  <2>1. 0 \in 0..MaxExpiries
    BY BoundsAssumption
  <2>2. token = "none" /\ stored \in {"error", "expired", "good"} /\ renewed = FALSE
        /\ expiries = 0
    BY DEF Init
  <2> QED
    BY <2>1, <2>2 DEF TokenType
<1>5. HistType
  BY DEF Init, HistType, NoAck, Acks, Codes, NoAnswer, Lengths, Kinds, LastAttempt
<1>6. Tells
  BY DEF Init, Tells
<1> QED
  BY <1>1, <1>2, <1>3, <1>4, <1>5, <1>6, Parts DEF Inv

------------------------------------------------------------------------------
(* The invariant, action by action.                                         *)

LEMMA BeginInv == ASSUME Inv, NEW k \in Kinds, Begin(k) PROVE Inv'
<1> USE Parts DEF Inv
<1>1. PlaceType'
  BY BoundsAssumption DEF PlaceType, Places, Begin, LastAttempt
<1>2. HeadType' /\ RootType' /\ TokenType'
  BY HeadKept, RootKept, TokenKept DEF Begin
<1>3. HistType'
  BY DEF HistType, Begin, LastAttempt
<1>4. Tells'
  BY DEF Tells, Begin
<1> QED
  BY <1>1, <1>2, <1>3, <1>4

LEMMA PrepareInv == ASSUME Inv, Prepare PROVE Inv'
<1> USE Parts DEF Inv
<1>1. PlaceType'
  BY PlaceKept DEF Places, Prepare
<1>2. HeadType' /\ HistType' /\ TokenType'
  BY HeadKept, HistKept, GetTokenType DEF Prepare
<1>3. RootType'
  BY RootKept, RefreshType DEF Prepare
<1>4. Tells'
  BY DEF Tells, Prepare, histVars
<1> QED
  BY <1>1, <1>2, <1>3, <1>4

LEMMA SendInv == ASSUME Inv, Send PROVE Inv'
<1> USE Parts DEF Inv
<1>1. PlaceType'
  BY PlaceKept DEF Places, Send
<1>2. HeadType' /\ HistType' /\ TokenType' /\ RootType'
  BY HeadKept, HistKept, TokenKept, RootKept DEF Send
<1>3. Tells'
  BY DEF Tells, Send, histVars
<1> QED
  BY <1>1, <1>2, <1>3

LEMMA NotSentInv == ASSUME Inv, NotSent PROVE Inv'
<1> USE Parts DEF Inv
<1>1. PlaceType'
  BY PlaceKept DEF Places, NotSent
<1>2. HeadType' /\ TokenType' /\ RootType'
  BY HeadKept, TokenKept, RootKept DEF NotSent
<1>3. HistType'
  BY DEF HistType, NotSent
<1>4. Tells'
  BY DEF Tells, NotSent, End1, PlaceType, HistType, LastAttempt
<1> QED
  BY <1>1, <1>2, <1>3, <1>4

\* The headers of a response leave a length and a version of their types.
LEMMA HeadersType ==
  ASSUME HeadType, NEW len \in Lengths, NEW v \in Versions, Headers(len, v)
  PROVE  contentLen' \in BOOLEAN /\ gEtag' \in Versions
<1>1. contentLen' \in BOOLEAN
  BY Zenon DEF Headers, HeadType
<1>2. gEtag' \in Versions
  BY DEF Headers, HeadType
<1> QED
  BY <1>1, <1>2

LEMMA RedirectedInv == ASSUME Inv, Redirected PROVE Inv'
<1> USE Parts DEF Inv
<1>1. PlaceType' /\ HistType' /\ TokenType' /\ RootType'
  BY HistKept, TokenKept, RootKept DEF Redirected, PlaceType
<1>2. HeadType'
  <2>1. PICK len \in Lengths : Headers(len, 0)
    BY DEF Redirected
  <2>2. 0 \in Versions
    BY BoundsAssumption DEF Versions
  <2>3. contentLen' \in BOOLEAN /\ gEtag' \in Versions
    BY <2>1, <2>2, HeadersType
  <2> QED
    BY <2>3 DEF HeadType, Redirected
<1>3. Tells'
  BY DEF Tells, Redirected, histVars, End1
<1> QED
  BY <1>1, <1>2, <1>3

LEMMA AnsweredInv == ASSUME Inv, Answered PROVE Inv'
<1> USE Parts DEF Inv
<1>1. PlaceType'
  BY PlaceKept DEF Places, Answered
<1>2. TokenType' /\ RootType'
  BY TokenKept, RootKept DEF Answered
<1>3. HeadType'
  <2>1. PICK c \in Codes, d \in BOOLEAN, len \in Lengths, v \in Versions :
          /\ answer' = Response(c, d, IF c = 200 THEN len ELSE "absent")
          /\ Headers(len, v)
    BY DEF Answered, Versions
  <2>2. contentLen' \in BOOLEAN /\ gEtag' \in Versions
    BY <2>1, HeadersType
  <2>3. answer' \in Answers
    BY <2>1 DEF Answers, Response, Lengths
  <2>4. out' = out
    BY DEF Answered
  <2> QED
    BY <2>2, <2>3, <2>4 DEF HeadType
<1>4. told = 0 /\ outcome = "none" /\ failures <= attempt
  BY DEF Answered, Tells
<1>5. /\ failures' \in IF answer'.data THEN {failures} ELSE {failures, failures + 1}
      /\ told' = told /\ outcome' = outcome /\ ack' = ack /\ attempt' = attempt
      /\ pc' = "answered"
  BY DEF Answered, Response
<1>6. failures \in Nat /\ attempt \in 0..LastAttempt 
      /\ failures' <= attempt + IF answer'.data THEN 0 ELSE 1
  BY <1>4, <1>5 DEF HistType, PlaceType, LastAttempt
<1>7. HistType'
  BY <1>5, <1>6 DEF HistType, LastAttempt
<1>8. Tells'
  BY <1>4, <1>5, <1>6 DEF Tells
<1> QED
  BY <1>1, <1>2, <1>3, <1>7, <1>8

\* What has been told before an answer is handled.
LEMMA AnsweredTells ==
  ASSUME Inv, pc = "answered"
  PROVE  /\ told = 0 /\ outcome = "none" /\ failures <= attempt + 1
         /\ answer.data => failures <= attempt
<1>1. failures \in Nat /\ attempt \in Nat
  BY Parts DEF Inv, HistType, PlaceType, LastAttempt
<1> QED
  BY <1>1 DEF Inv, Tells

\* After an answer has been handled there is none.
LEMMA HandleType ==
  ASSUME Inv, HandleFrame, contentLen' \in BOOLEAN, out' \in Versions,
         NEW p \in Places, pc' = p
  PROVE  HeadType' /\ PlaceType'
<1>1. NoResponse \in Answers
  BY DEF Answers, NoResponse, Response, NoAnswer, Codes, Lengths
<1>2. HeadType /\ PlaceType
  BY Parts DEF Inv
<1>3. answer' = NoResponse /\ gEtag' = gEtag
      /\ kind' = kind /\ attempt' = attempt /\ syncs' = syncs
  BY DEF HandleFrame
<1> QED
  BY <1>1, <1>2, <1>3 DEF HeadType, PlaceType

LEMMA NothingNewInv == ASSUME Inv, NothingNew PROVE Inv'
<1> USE Parts DEF Inv
<1>1. HeadType' /\ PlaceType'
  BY HandleType DEF NothingNew, Places, HeadType
<1>2. TokenType' /\ RootType'
  BY RootKept DEF NothingNew, HandleFrame, TokenType
<1>3. told = 0 /\ outcome = "none" /\ failures <= attempt + 1
  BY AnsweredTells DEF NothingNew
<1>4. HistType'
  BY <1>3 DEF HistType, NothingNew, Told
<1>5. Tells'
  BY <1>3 DEF Tells, NothingNew, HandleFrame, Told, End1, PlaceType, HistType, LastAttempt
<1> QED
  BY <1>1, <1>2, <1>4, <1>5

\* An answer that confirms POST-NONE is recorded with its code.
LEMMA AckType ==
  ASSUME Inv, NEW c \in Codes
  PROVE  Ack(c) \in Acks
<1>1. answer.len \in Lengths /\ kind \in Kinds /\ ack \in Acks
  BY Parts DEF Inv, HeadType, Answers, PlaceType, HistType
<1> QED
  BY <1>1 DEF Ack, Acks

LEMMA NotFoundInv == ASSUME Inv, NotFound PROVE Inv'
<1> USE Parts DEF Inv
<1>1. HeadType' /\ PlaceType'
  BY HandleType DEF NotFound, Places, HeadType
<1>2. TokenType'
  BY DEF NotFound, HandleFrame, TokenType
<1>3. RootType'
  BY RefreshType DEF NotFound
<1>4. told = 0 /\ outcome = "none" /\ failures <= attempt + 1
  BY AnsweredTells DEF NotFound
<1>5. ack' \in Acks
  BY AckType DEF NotFound, Codes
<1>6. HistType'
  BY <1>4, <1>5 DEF HistType, NotFound
<1>7. Tells'
  BY <1>4 DEF Tells, NotFound, HandleFrame, End1, PlaceType, HistType, LastAttempt
<1> QED
  BY <1>1, <1>2, <1>3, <1>6, <1>7

LEMMA BundleInv == ASSUME Inv, Bundle PROVE Inv'
<1> USE Parts DEF Inv
<1>1. HeadType' /\ PlaceType'
  BY HandleType DEF Bundle, End, Places, HeadType
<1>2. TokenType' /\ RootType'
  BY RootKept DEF Bundle, HandleFrame, TokenType
<1>3. told = 0 /\ failures <= attempt
  BY AnsweredTells DEF Bundle
<1>4. HistType'
  BY <1>3 DEF HistType, Bundle, End, PlaceType, LastAttempt
<1>5. Tells'
  BY <1>3 DEF Tells, Bundle, HandleFrame, End, End1, PlaceType, HistType, LastAttempt
<1> QED
  BY <1>1, <1>2, <1>4, <1>5

LEMMA NoContentInv == ASSUME Inv, NoContent PROVE Inv'
<1> USE Parts DEF Inv
<1>1. HeadType' /\ PlaceType'
  <2>1. contentLen' \in BOOLEAN /\ out' \in Versions /\ "idle" \in Places /\ pc' = "idle"
        /\ HandleFrame
    BY DEF NoContent, HeadType, End, Places
  <2> QED
    BY <2>1, HandleType
<1>2. TokenType'
  BY DEF NoContent, HandleFrame, TokenType
<1>3. RootType'
  BY RefreshType DEF NoContent
<1>4. told = 0 /\ failures <= attempt + 1
  BY AnsweredTells DEF NoContent
<1>5. ack' \in Acks
  BY AckType DEF NoContent, Codes
<1>6. HistType'
  BY <1>5 DEF HistType, NoContent, End
<1>7. Tells'
  BY <1>4 DEF Tells, NoContent, HandleFrame, End, End1, PlaceType, HistType, LastAttempt
<1> QED
  BY <1>1, <1>2, <1>3, <1>6, <1>7

LEMMA FailedInv == ASSUME Inv, Failed PROVE Inv'
<1> USE Parts DEF Inv
<1>1. HeadType' /\ PlaceType'
  BY HandleType DEF Failed, Places, HeadType
<1>2. TokenType' /\ RootType'
  BY RootKept DEF Failed, HandleFrame, TokenType
<1>3. told = 0 /\ outcome = "none" /\ failures <= attempt + 1
  BY AnsweredTells DEF Failed
<1>4. HistType'
  BY <1>3 DEF HistType, Failed, PlaceType, LastAttempt
<1>5. Tells'
  BY <1>3 DEF Tells, Failed, HandleFrame, End1, PlaceType, HistType, LastAttempt
<1> QED
  BY <1>1, <1>2, <1>4, <1>5

LEMMA ExpiredInv == ASSUME Inv, Expired PROVE Inv'
<1> USE Parts DEF Inv
<1>1. HeadType' /\ PlaceType'
  BY HandleType DEF Expired, Places, HeadType
<1>2. TokenType' /\ RootType'
  BY RootKept, CreateTokenType DEF Expired, HandleFrame
<1>3. told = 0 /\ failures <= attempt + 1
  BY AnsweredTells DEF Expired
<1>4. HistType'
  BY DEF HistType, Expired
<1>5. Tells'
  BY <1>3 DEF Tells, Expired, HandleFrame, End1, PlaceType, HistType, LastAttempt
<1> QED
  BY <1>1, <1>2, <1>4, <1>5

LEMMA WakeInv == ASSUME Inv, Wake PROVE Inv'
<1> USE Parts DEF Inv
<1>1. HeadType' /\ TokenType' /\ RootType'
  BY HeadKept, TokenKept, RootKept DEF Wake
<1>2. PlaceType'
  BY DEF PlaceType, Wake, Places, LastAttempt
<1>3. HistType'
  BY DEF HistType, Wake
<1>4. Tells'
  BY DEF Tells, Wake, End1, PlaceType, HistType, LastAttempt
<1> QED
  BY <1>1, <1>2, <1>3, <1>4

LEMMA RecordedInv == ASSUME Inv, Recorded PROVE Inv'
<1> USE Parts DEF Inv
<1>1. TokenType' /\ HistType' /\ PlaceType'
  BY TokenKept, HistKept DEF Recorded, PlaceType
<1>2. 0 \in Versions /\ NoStr \in Strings /\ "root" \in Names
  BY BoundsAssumption DEF Versions, Strings, NoStr, Names
<1>3. HeadType'
  BY <1>2 DEF HeadType, Recorded, headVars
<1>4. db' \in DB
  <2>1. db \in DB /\ out \in Versions
    BY DEF RootType, HeadType
  <2>2. Put(db, "root", out, NoStr) \in DB
    BY <1>2, <2>1, PutType
  <2> QED
    BY <2>2 DEF Recorded
<1>5. RootType'
  BY <1>4 DEF RootType, Recorded
<1>6. Tells'
  BY DEF Tells, Recorded, histVars, End1
<1> QED
  BY <1>1, <1>3, <1>5, <1>6

LEMMA TokenExpiresInv == ASSUME Inv, TokenExpires PROVE Inv'
<1> USE Parts DEF Inv
<1>1. HeadType' /\ HistType' /\ PlaceType' /\ RootType'
  BY HeadKept, HistKept, RootKept DEF TokenExpires, PlaceType
<1>2. expiries' \in 0..MaxExpiries
  BY BoundsAssumption DEF TokenType, TokenExpires
<1>3. TokenType'
  BY <1>2 DEF TokenType, TokenExpires
<1>4. Tells'
  BY DEF Tells, TokenExpires, histVars, End1
<1> QED
  BY <1>1, <1>3, <1>4

LEMMA StutterInv == ASSUME Inv, UNCHANGED vars PROVE Inv'
<1> USE Parts DEF Inv
<1>1. UNCHANGED <<pc, kind, attempt, syncs>> /\ UNCHANGED <<answer, headVars, out>>
      /\ UNCHANGED rootVars /\ UNCHANGED tokenVars /\ UNCHANGED histVars
  BY DEF vars
<1>2. HeadType' /\ HistType' /\ RootType' /\ TokenType'
  BY <1>1, HeadKept, HistKept, RootKept, TokenKept
<1>3. PlaceType'
  BY <1>1 DEF PlaceType
<1>4. Tells'
  BY <1>1 DEF Tells, histVars, End1
<1> QED
  BY <1>2, <1>3, <1>4

LEMMA NextInv == Inv /\ [Next]_vars => Inv'
  BY BeginInv, PrepareInv, SendInv, NotSentInv, RedirectedInv, AnsweredInv, NothingNewInv,
     NotFoundInv, BundleInv, NoContentInv, FailedInv, ExpiredInv, WakeInv, RecordedInv,
     TokenExpiresInv, StutterInv
  DEF Next, SyncStep, Handle

\* The types and what has been told hold throughout (webcfg.c, webcfg_multipart.c).
THEOREM AlwaysInv == Spec => []Inv
  BY InitInv, NextInv, PTL DEF Spec

\* Each variable has its type in every state, for all bounds.
THEOREM TypeCorrect == Spec => []TypeOK
<1>1. Inv => TypeOK
  BY DEF Inv
<1> QED
  BY <1>1, AlwaysInv, PTL

\* The cloud hears the end of each sync by its code once, and that root has failed once
\* for each attempt and once more for the last (ToldOnce), whatever it answers and in
\* whatever attempt the sync ends.
THEOREM ToldOnceCorrect == Spec => []ToldOnce
<1>1. Inv => ToldOnce
  BY DEF Inv, Tells, ToldOnce, End1
<1> QED
  BY <1>1, AlwaysInv, PTL

------------------------------------------------------------------------------
(* The token.                                                               *)

\* A token that has been created since the last one expired is the one that the script
\* reads, and what a request has read is not an expired one.
TokenInv ==
  /\ renewed => stored = "good"
  /\ pc \in {"prepared", "sent"} /\ renewed => token # "expired"

LEMMA InitToken == Init => TokenInv
  BY DEF Init, TokenInv

LEMMA NextToken == TypeOK /\ TokenInv /\ [Next]_vars => TokenInv'
<1> SUFFICES ASSUME TypeOK, TokenInv, [Next]_vars PROVE TokenInv'
  OBVIOUS
<1>1. CASE Prepare
  BY <1>1 DEF Prepare, GetToken, TokenInv
<1>2. CASE Expired
  BY <1>2 DEF Expired, CreateToken, TokenInv
<1>3. CASE TokenExpires
  BY <1>3 DEF TokenExpires, TokenInv
<1>4. CASE Send \/ NotSent \/ Answered \/ Wake \/ Redirected \/ Recorded
  BY <1>4 DEF Send, NotSent, Answered, Wake, Redirected, Recorded, tokenVars, TokenInv
<1>5. CASE NothingNew \/ NotFound \/ Bundle \/ NoContent \/ Failed
  BY <1>5 DEF NothingNew, NotFound, Bundle, NoContent, Failed, End, TokenInv
<1>6. CASE UNCHANGED vars \/ \E k \in Kinds : Begin(k)
  BY <1>6 DEF vars, Begin, tokenVars, TokenInv
<1> QED
  BY <1>1, <1>2, <1>3, <1>4, <1>5, <1>6 DEF Next, SyncStep, Handle

\* No request goes out with an expired token once one has been created (FreshToken).
THEOREM FreshTokenCorrect == Spec => []FreshToken
<1>1. TokenInv => FreshToken
  BY DEF TokenInv, FreshToken
<1> QED
  BY <1>1, TypeCorrect, InitToken, NextToken, PTL DEF Spec

------------------------------------------------------------------------------
(* The root version.                                                        *)

LEMMA NextNone ==
  TypeOK /\ [Next]_vars => (hasFile /\ db.str \notin Nones => db'.str \notin Nones)
<1> SUFFICES ASSUME TypeOK, [Next]_vars, hasFile, db.str \notin Nones
             PROVE  db'.str \notin Nones
  OBVIOUS
<1>0. RootType
  BY Parts
<1>1. CASE Prepare
  BY <1>0, <1>1, RefreshType DEF Prepare, rootVars
<1>2. CASE NotFound \/ NoContent
  BY <1>0, <1>2, RefreshType DEF NotFound, NoContent
<1>3. CASE Recorded
  <2>1. Put(db, "root", out, NoStr).str = NoStr
    BY DEF Put
  <2> QED
    BY <1>3, <2>1 DEF Recorded, Nones, NoStr
<1>4. CASE Send \/ NotSent \/ Answered \/ Wake \/ Redirected \/ TokenExpires
  BY <1>4 DEF Send, NotSent, Answered, Wake, Redirected, TokenExpires, rootVars
<1>5. CASE NothingNew \/ Bundle \/ Failed \/ Expired
  BY <1>5 DEF NothingNew, Bundle, Failed, Expired, rootVars
<1>6. CASE UNCHANGED vars \/ \E k \in Kinds : Begin(k)
  BY <1>6 DEF vars, Begin, rootVars
<1> QED
  BY <1>1, <1>2, <1>3, <1>4, <1>5, <1>6 DEF Next, SyncStep, Handle

\* A device that has had a root never reports NONE again (NeverNoneAgain).
THEOREM NeverNoneAgainCorrect == Spec => NeverNoneAgain
<1>1. TypeOK /\ [Next]_vars =>
        [hasFile /\ db.str \notin Nones => db'.str \notin Nones]_vars
  BY NextNone
<1> QED
  BY <1>1, TypeCorrect, PTL DEF Spec, NeverNoneAgain
=============================================================================
