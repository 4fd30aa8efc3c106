-------------------------- MODULE SubdocApplyProofs --------------------------
(***************************************************************************)
(* Proofs about SubdocApply, for any documents, bundles, codes and bounds: *)
(* types, what the database and its file say, and the limit of retries.    *)
(***************************************************************************)
EXTENDS SubdocApply, FiniteSetTheorems, TLAPS

NodeList(t) == t \in [DOMAIN t -> NodeType]

\* List t after some of its nodes have been written to.
Rewritten(u, t) == NodeList(u) /\ DOMAIN u = DOMAIN t

-----------------------------------------------------------------------------
(* The operators on nodes and lists keep their types and their addresses.  *)

\* The values that the actions write into a node.
LEMMA ListedValues ==
  /\ {"pending", "success", "failed"} \subseteq Statuses
  /\ {"none", "doc_unsupported", "failed_retrying", "doc_rejected", "NACK",
      "decode_failed", "retry_failed", "max_retry_reached"} \subseteq Details
  /\ {0, OwnCode} \subseteq Codes /\ FailCodes \subseteq Codes
  /\ NoTrans \in Trans /\ TransIds \subseteq Trans
BY DEF Statuses, Details, Codes, Trans

\* updateTmpList writes a node of the same name.
LEMMA UpdatedType ==
  ASSUME NEW n \in NodeType, NEW v \in Nat, NEW s \in Statuses,
         NEW e \in Details, NEW c \in Codes, NEW x \in Trans, NEW r \in BOOLEAN
  PROVE  /\ Updated(n, v, s, e, c, x, r) \in NodeType
         /\ Updated(n, v, s, e, c, x, r).name = n.name
         /\ Updated(n, v, s, e, c, x, r).version = v
         /\ Updated(n, v, s, e, c, x, r).status = s
BY DEF Updated, NodeType

\* Put changes at most one node, and no address.
LEMMA PutType ==
  ASSUME NEW t, NodeList(t), NEW a, NEW d, NEW n,
         Here(t, a, d) => n \in NodeType
  PROVE  Rewritten(Put(t, a, d, n), t)
BY DEF Rewritten, Put, Here, NodeList

\* SetRoot changes the node of root only.
LEMMA SetRootType ==
  ASSUME NEW t, NodeList(t), NEW v \in Nat, NEW s \in Statuses
  PROVE  Rewritten(SetRoot(t, v, s), t)
<1>1. \A a \in DOMAIN t : Updated(t[a], v, s, "none", 0, NoTrans, FALSE) \in NodeType
  <2>1. SUFFICES ASSUME NEW a \in DOMAIN t
                 PROVE  Updated(t[a], v, s, "none", 0, NoTrans, FALSE) \in NodeType
    OBVIOUS
  <2>2. t[a] \in NodeType
    BY DEF NodeList
  <2>3. "none" \in Details /\ 0 \in Codes /\ NoTrans \in Trans
    BY DEF Details, Codes, Trans
  <2> QED BY <2>2, <2>3, UpdatedType
<1> QED BY <1>1 DEF Rewritten, SetRoot, NodeList

\* DeleteEach keeps a part of the list.
LEMMA DeleteEachType ==
  ASSUME NEW t, NodeList(t), NEW S
  PROVE  /\ NodeList(DeleteEach(t, S)) /\ DOMAIN DeleteEach(t, S) \subseteq DOMAIN t
         /\ \A a \in DOMAIN DeleteEach(t, S) : DeleteEach(t, S)[a] = t[a]
BY DEF DeleteEach, Only, NodeList

PartList(t) == t \in [DOMAIN t -> PartType]

\* A list is appended to another.
LEMMA JoinParts ==
  ASSUME NEW t, NEW u, PartList(t), PartList(u)
  PROVE  PartList(Join(t, u)) /\ DOMAIN Join(t, u) = DOMAIN t \cup DOMAIN u
BY DEF Join, PartList

LEMMA JoinNodes ==
  ASSUME NEW t, NEW u, NodeList(t), NodeList(u)
  PROVE  NodeList(Join(t, u)) /\ DOMAIN Join(t, u) = DOMAIN t \cup DOMAIN u
BY DEF Join, NodeList

LEMMA EmptyType == NodeList(Empty) /\ DOMAIN Empty = {}
BY DEF Empty, NodeList

\* getTmpNode returns the address of a node with the name asked for, or NULL.
LEMMA PointerType ==
  ASSUME NEW t, NEW d, NEW n \in Pointer(t, d)
  PROVE  n = Null \/ (n \in DOMAIN t /\ t[n].name = d)
BY DEF Pointer, Named, IsLeast

-----------------------------------------------------------------------------
(* Types.                                                                  *)

Versions == [Docs \cup {Root} -> Nat \cup {Absent}]

\* checkDBList and updateRootVersionToDB keep the database's type.
LEMMA DBType ==
  ASSUME TypeOK, NEW b \in Versions, NEW d \in Docs \cup {Root}, NEW v \in Nat
  PROVE  CheckDBList(b, d, v) \in Versions /\ RootToDB(b) \in Versions
BY DEF CheckDBList, RootToDB, Versions, TypeOK

LEMMA InitType == Init => TypeOK
<1> SUFFICES ASSUME Init PROVE TypeOK
  OBVIOUS
<1>1. NodeList(Empty) /\ DOMAIN Empty = {} /\ Empty \in [DOMAIN Empty -> PartType]
  BY DEF NodeList, Empty
<1>2. NoCall \in CallType
  BY DEF NoCall, CallType, Null, Trans, States
<1>3. tmp \in [DOMAIN tmp -> NodeType] /\ DOMAIN tmp \subseteq 0..top
      /\ mp \in [DOMAIN mp -> PartType] /\ DOMAIN mp \subseteq 1..top
  BY <1>1 DEF Init, NodeList
<1>4. db \in Versions /\ disk \in Versions
  BY DEF Init, Versions
<1>5. call \in [Threads -> CallType]
  BY <1>2 DEF Init
<1>6. timer \in [Docs -> Trans] /\ requests \in [Docs -> Seq(RequestType)]
      /\ running \in [Docs -> Nat] /\ applied \in [Docs -> SUBSET Nat]
  BY DEF Init, Trans
<1>7. cloud \in Seq(Bundles) /\ events \in Seq(EventType)
  BY DEF Init
<1> QED BY <1>3, <1>4, <1>5, <1>6, <1>7 DEF Init, TypeOK, Versions


-----------------------------------------------------------------------------
(* Each action keeps the types.                                            *)

USE DEF lists, stored, syncing, loop, outside

\* What a thread does next keeps the type of the calls.
LEMMA GoesType ==
  ASSUME TypeOK, NEW p \in Threads, NEW s \in States, Goes(p, s)
  PROVE  call' \in [Threads -> CallType]
<1>1. NoCall \in CallType
  BY DEF NoCall, CallType, Trans, States
<1>2. call[p] \in CallType /\ call \in [Threads -> CallType]
  BY DEF TypeOK
<1>3. [call[p] EXCEPT !.state = s] \in CallType
  BY <1>2 DEF CallType
<1> QED BY <1>1, <1>2, <1>3 DEF Goes

LEMMA RefreshType == ASSUME TypeOK, Refresh PROVE TypeOK'
<1>1. PICK v \in {0, IF db[Root] = Absent THEN 0 ELSE db[Root]} :
        call' = [call EXCEPT !["sync"] = [NoCall EXCEPT !.version = v, !.state = "derived"]]
  BY DEF Refresh
<1>2. v \in Nat
  <2>1. db[Root] \in Nat \cup {Absent}
    BY DEF TypeOK
  <2> QED BY <2>1
<1>3. [NoCall EXCEPT !.version = v, !.state = "derived"] \in CallType
  BY <1>2 DEF NoCall, CallType, Trans, States
<1>4. call' \in [Threads -> CallType]
  BY <1>1, <1>3 DEF TypeOK
<1> QED BY <1>4 DEF Refresh, TypeOK

LEMMA StoreRootType == ASSUME TypeOK, StoreRoot PROVE TypeOK'
<1>1. call' \in [Threads -> CallType]
  BY GoesType DEF StoreRoot, Threads, States
<1>2. call["sync"].version \in Nat
  BY DEF TypeOK, CallType, Threads
<1>3. db' \in Versions
  BY <1>2, DBType DEF StoreRoot, TypeOK, Versions
<1> QED BY <1>1, <1>3 DEF StoreRoot, TypeOK, Versions

LEMMA NoBundleType == ASSUME TypeOK, NoBundle PROVE TypeOK'
BY DEF NoBundle, TypeOK

LEMMA FetchType == ASSUME TypeOK, NEW b \in Bundles, Fetch(b) PROVE TypeOK'
<1>1. cloud' \in Seq(Bundles) /\ etag' \in Nat /\ supp' \in BOOLEAN
  BY DEF TypeOK, Fetch
<1>2. cloud' # <<>>
  <2>1. cloud \in Seq(Bundles) /\ cloud' = Append(cloud, b)
    BY DEF TypeOK, Fetch
  <2> QED BY <2>1
<1> QED BY <1>1, <1>2 DEF TypeOK, Fetch

LEMMA ParseFailsType == ASSUME TypeOK, ParseFails PROVE TypeOK'
<1>1. faults' \in Nat /\ pc' = "idle"
  BY DEF TypeOK, ParseFails
<1>2. /\ UNCHANGED <<tmp, mp, db, disk, etag, top, cloud, supp, docFail, call, events>>
      /\ UNCHANGED <<cursor, current, success, timer, expiring, requests, running, applied>>
  BY DEF ParseFails
<1> QED BY <1>1, <1>2 DEF TypeOK

LEMMA ParseType == ASSUME TypeOK, Parse PROVE TypeOK'
<1> DEFINE bundle == cloud[Len(cloud)]
           kept == {a \in DOMAIN mp : ~OfThisSync(mp[a].name)}
           old == Only(mp, kept)
           new == [a \in (top + 1)..(top + Len(bundle)) |-> bundle[a - top]]
<1>1. bundle \in Seq([name : Docs, version : Nat \ {0}, ok : BOOLEAN])
  <2>1. cloud \in Seq(Bundles) /\ cloud # <<>>
    BY DEF TypeOK, Parse
  <2>2. bundle \in Bundles
    BY <2>1
  <2> QED BY <2>2, BundlesAssumption
<1> HIDE DEF bundle
<1>2. top \in Nat /\ Len(bundle) \in Nat
  BY <1>1 DEF TypeOK
<1>3. old \in [DOMAIN old -> PartType] /\ DOMAIN old \subseteq 1..top
  BY DEF Only, TypeOK
<1>4. new \in [DOMAIN new -> PartType] /\ DOMAIN new = (top + 1)..(top + Len(bundle))
  <2>1. \A a \in (top + 1)..(top + Len(bundle)) : a - top \in 1..Len(bundle)
    BY <1>2
  <2>2. bundle \in Seq(PartType)
    BY <1>1 DEF PartType
  <2>3. \A i \in 1..Len(bundle) : bundle[i] \in PartType
    BY <2>2
  <2> QED BY <2>1, <2>3
<1>5. mp' = Join(old, new) /\ top' = top + Len(bundle) /\ pc' \in {"idle", "parsed"}
      /\ UNCHANGED <<tmp, stored, etag, cloud, supp, cursor, current, success,
                     docFail, call, events, timer, expiring, outside, faults>>
  BY DEF Parse, bundle
<1> HIDE DEF kept, old, new
<1>6. mp' \in [DOMAIN mp' -> PartType] /\ DOMAIN mp' = DOMAIN old \cup DOMAIN new
  BY <1>3, <1>4, <1>5, JoinParts DEF PartList
<1>7. DOMAIN mp' \subseteq 1..top' /\ top' \in Nat /\ 0..top \subseteq 0..top'
  BY <1>2, <1>3, <1>4, <1>5, <1>6
<1> QED BY <1>5, <1>6, <1>7 DEF TypeOK

LEMMA AddToTmpListType == ASSUME TypeOK, AddToTmpList PROVE TypeOK'
<1> DEFINE t == IF supp THEN tmp ELSE SetRoot(tmp, RootVersion, "pending")
           S == {a \in Subdocs(t) : OfThisSync(t[a].name)}
           u == DeleteEach(t, S)
           root == [a \in IF u = Empty /\ mp # Empty THEN {0} ELSE {}
                      |-> Node(Root, RootVersion, "pending")]
           new == [a \in {x \in DOMAIN mp : OfThisSync(mp[x].name)} |->
                      Node(mp[a].name, mp[a].version, "pending_apply")]
<1>1. tmp' = Join(u, Join(root, new))
  BY DEF AddToTmpList
<1>2. NodeList(tmp) /\ RootVersion \in Nat
  BY DEF TypeOK, NodeList, RootVersion
<1>3. NodeList(t) /\ DOMAIN t = DOMAIN tmp
  BY <1>2, SetRootType, ListedValues DEF Rewritten
<1>4. NodeList(u) /\ DOMAIN u \subseteq DOMAIN t
  BY <1>3, DeleteEachType
<1>5. \A d \in Docs \cup {Root}, v \in Nat, st \in Statuses : Node(d, v, st) \in NodeType
  BY DEF Node, NodeType, Details, Codes, Trans
<1>6. NodeList(root) /\ DOMAIN root \subseteq {0}
  BY <1>2, <1>5 DEF NodeList, Statuses
<1>7. NodeList(new) /\ DOMAIN new \subseteq DOMAIN mp
  <2>1. \A a \in DOMAIN mp : mp[a].name \in Docs /\ mp[a].version \in Nat
    BY DEF TypeOK, PartType
  <2> QED BY <2>1, <1>5 DEF NodeList, Statuses
<1> HIDE DEF t, S, u, root, new
<1>8. NodeList(Join(root, new)) /\ DOMAIN Join(root, new) = DOMAIN root \cup DOMAIN new
  BY <1>6, <1>7, JoinNodes
<1>9. NodeList(tmp') /\ DOMAIN tmp' = DOMAIN u \cup DOMAIN root \cup DOMAIN new
  <2> DEFINE w == Join(root, new)
  <2>1. NodeList(u) /\ NodeList(w)
    BY <1>4, <1>8
  <2> HIDE DEF w
  <2>2. NodeList(Join(u, w)) /\ DOMAIN Join(u, w) = DOMAIN u \cup DOMAIN w
    BY <2>1, JoinNodes
  <2> QED BY <2>2, <1>1, <1>8 DEF w
<1>10. DOMAIN tmp' \subseteq 0..top
  BY <1>3, <1>4, <1>6, <1>7, <1>9 DEF TypeOK
<1> QED BY <1>9, <1>10 DEF AddToTmpList, TypeOK, NodeList

\* updateTmpList through a pointer that may be dangling.
LEMMA PutUpdatedType ==
  ASSUME NEW t, NodeList(t), NEW a, NEW d, NEW v \in Nat, NEW s \in Statuses,
         NEW e \in Details, NEW c \in Codes, NEW x \in Trans, NEW r \in BOOLEAN
  PROVE  Rewritten(Put(t, a, d, Updated(t[a], v, s, e, c, x, r)), t)
<1>1. Here(t, a, d) => Updated(t[a], v, s, e, c, x, r) \in NodeType
  <2>1. SUFFICES ASSUME Here(t, a, d)
                 PROVE  Updated(t[a], v, s, e, c, x, r) \in NodeType
    OBVIOUS
  <2>2. t[a] \in NodeType
    BY <2>1 DEF Here, NodeList
  <2> QED BY <2>2, UpdatedType
<1> QED BY <1>1, PutType

\* What getTmpNode returns may be kept in a call.
LEMMA PointerInList ==
  ASSUME TypeOK, NEW d, NEW n \in Pointer(tmp, d)
  PROVE  n \in Nat \cup {Null}
BY PointerType DEF TypeOK

\* A node that processMsgpackSubdoc works on is in the list.
LEMMA ApplicableNode ==
  ASSUME NEW a \in Applicable, NEW n \in Pointer(tmp, mp[a].name)
  PROVE  a \in DOMAIN mp /\ n \in DOMAIN tmp /\ tmp[n].name = mp[a].name
BY DEF Applicable, Pointer, Named

\* The call of setValues keeps the types.
LEMMA SetValuesType ==
  ASSUME TypeOK, NEW p \in Threads, NEW d \in Docs \cup {Root},
         NEW n \in Nat \cup {Null}, NEW m, Here(tmp, n, d) => m \in NodeType,
         NEW v \in Nat \ {0}, NEW known \in Nat, SetValues(p, d, n, m, v, known)
  PROVE  /\ Rewritten(tmp', tmp)
         /\ call' \in [Threads -> CallType]
         /\ requests' \in [Docs -> Seq(RequestType)] /\ faults' \in Nat
<1>1. NodeList(tmp)
  BY DEF TypeOK, NodeList
<1>2. Rewritten(tmp', tmp)
  <2>1. CASE d \in ScalarDocs
    BY <2>1, <1>1, PutType DEF SetValues
  <2>2. CASE d \notin ScalarDocs
    <3>1. PICK x \in TransIds : tmp' = Put(tmp, n, d, [m EXCEPT !.trans_id = x])
      BY <2>2 DEF SetValues
    <3>2. Here(tmp, n, d) => [m EXCEPT !.trans_id = x] \in NodeType
      BY DEF NodeType, Trans
    <3> QED BY <3>1, <3>2, <1>1, PutType
  <2> QED BY <2>1, <2>2
<1>3. requests' \in [Docs -> Seq(RequestType)]
  <2>1. CASE UNCHANGED requests
    BY <2>1 DEF TypeOK
  <2>2. CASE \E x \in TransIds : requests' =
               [requests EXCEPT ![d] = Append(@, [version |-> v, trans_id |-> x])]
    <3>1. PICK x \in TransIds : requests' =
               [requests EXCEPT ![d] = Append(@, [version |-> v, trans_id |-> x])]
      BY <2>2
    <3>2. [version |-> v, trans_id |-> x] \in RequestType
      BY DEF RequestType
    <3>3. requests \in [Docs -> Seq(RequestType)]
      BY DEF TypeOK
    <3>4. Append(requests[d], [version |-> v, trans_id |-> x]) \in Seq(RequestType)
          \/ d \notin Docs
      BY <3>2, <3>3
    <3> QED BY <3>1, <3>3, <3>4
  <2> QED BY <2>1, <2>2 DEF SetValues
<1>4. call' \in [Threads -> CallType]
  BY DEF SetValues, TypeOK, CallType, Trans, States
<1>5. faults' \in Nat
  BY DEF SetValues, TypeOK
<1> QED BY <1>2, <1>3, <1>4, <1>5

LEMMA SendDocType == ASSUME TypeOK, SendDoc PROVE TypeOK'
<1> DEFINE m(a, n) == Updated(tmp[n], mp[a].version, "pending", "none", 0, NoTrans, FALSE)
           Sends(a, n) ==
             /\ SetValues("sync", mp[a].name, n, [m(a, n) EXCEPT !.retry_count = 1],
                          mp[a].version, 0)
             /\ cursor' = a + 1 /\ current' = Counted(mp[a].name)
<1>1. PICK a \in Applicable : \E n \in Pointer(tmp, mp[a].name) : Sends(a, n)
  BY DEF SendDoc
<1>2. PICK n \in Pointer(tmp, mp[a].name) : Sends(a, n)
  BY <1>1
<1>3. a \in DOMAIN mp /\ n \in DOMAIN tmp
  BY ApplicableNode
<1>4. /\ a \in Nat /\ mp[a].name \in Docs /\ mp[a].version \in Nat \ {0}
      /\ n \in Nat /\ tmp[n] \in NodeType
  BY <1>3 DEF TypeOK, PartType
<1>5. m(a, n) \in NodeType
  BY <1>4, ListedValues, UpdatedType
<1> HIDE DEF m
<1>6. cursor' \in Nat /\ current' \in Nat
  <2>1. cursor' = a + 1 /\ current' = Counted(mp[a].name)
    BY <1>2
  <2>2. current \in Nat
    BY DEF TypeOK
  <2>3. Counted(mp[a].name) \in Nat
    BY <2>2 DEF Counted
  <2> QED BY <1>4, <2>1, <2>3
<1>7. SetValues("sync", mp[a].name, n, [m(a, n) EXCEPT !.retry_count = 1],
                mp[a].version, 0)
  BY <1>2
<1> HIDE DEF m, Sends
<1>8. [m(a, n) EXCEPT !.retry_count = 1] \in NodeType
  BY <1>5 DEF NodeType
<1>9. /\ Rewritten(tmp', tmp)
      /\ call' \in [Threads -> CallType]
      /\ requests' \in [Docs -> Seq(RequestType)] /\ faults' \in Nat
  BY <1>4, <1>7, <1>8, SetValuesType DEF Threads
<1> QED BY <1>6, <1>9 DEF SendDoc, TypeOK, NodeList, Rewritten

LEMMA DecodeFailsType == ASSUME TypeOK, DecodeFails PROVE TypeOK'
<1> DEFINE Fails(a, n) ==
             /\ tmp' = Put(tmp, n, mp[a].name,
                           Updated(tmp[n], mp[a].version, "failed", "decode_failed",
                                   OwnCode, NoTrans, FALSE))
             /\ cursor' = a + 1 /\ current' = Counted(mp[a].name)
<1>1. PICK a \in Applicable : \E n \in Pointer(tmp, mp[a].name) : Fails(a, n)
  BY DEF DecodeFails
<1>2. PICK n \in Pointer(tmp, mp[a].name) : Fails(a, n)
  BY <1>1
<1>3. a \in DOMAIN mp
  BY ApplicableNode
<1>4. a \in Nat /\ mp[a].version \in Nat /\ NodeList(tmp)
  BY <1>3 DEF TypeOK, PartType, NodeList
<1>5. Rewritten(tmp', tmp)
  BY <1>2, <1>4, ListedValues, PutUpdatedType
<1>6. cursor' \in Nat /\ current' \in Nat
  <2>1. cursor' = a + 1 /\ current' = Counted(mp[a].name)
    BY <1>2
  <2> QED BY <1>4, <2>1 DEF TypeOK, Counted
<1> QED BY <1>5, <1>6 DEF DecodeFails, TypeOK, NodeList, Rewritten

LEMMA CallKnown ==
  ASSUME TypeOK, NEW p \in Threads
  PROVE  /\ call[p].doc \in Docs \cup {Root} /\ call[p].node \in Nat \cup {Null}
         /\ call[p].version \in Nat /\ call[p].known \in Nat
         /\ call[p].trans \in Trans
         /\ [call EXCEPT ![p] = NoCall] \in [Threads -> CallType]
BY DEF TypeOK, CallType, NoCall, Trans, States

\* The loop's counting of an applied document keeps the types.
LEMMA PassedType ==
  ASSUME TypeOK, NEW b \in Versions, NEW n \in Nat, Passed(b, n)
  PROVE  db' \in Versions /\ success' \in Nat /\ call' \in [Threads -> CallType]
<1>1. RootToDB(b) \in Versions
  BY DEF RootToDB, CheckDBList, Versions, TypeOK
<1>2. db' \in Versions /\ success' \in Nat
  BY <1>1 DEF Passed
<1>3. call' \in [Threads -> CallType]
  BY GoesType DEF Passed, Threads, States
<1> QED BY <1>2, <1>3

\* A scalar document is marked and remembered as applied.
LEMMA AppliedType ==
  ASSUME TypeOK, NEW p \in Threads, Applied(p)
  PROVE  /\ Rewritten(tmp', tmp) /\ applied' \in [Docs -> SUBSET Nat]
         /\ call' \in [Threads -> CallType]
<1>1. NodeList(tmp) /\ call[p].version \in Nat
  BY CallKnown DEF TypeOK, NodeList
<1>2. Rewritten(tmp', tmp)
  BY <1>1, ListedValues, PutUpdatedType DEF Applied
<1>3. applied' \in [Docs -> SUBSET Nat]
  BY <1>1 DEF Applied, TypeOK
<1>4. call' \in [Threads -> CallType]
  BY GoesType DEF Applied, States
<1> QED BY <1>2, <1>3, <1>4

LEMMA SetSucceedsType == ASSUME TypeOK, SetSucceeds PROVE TypeOK'
<1>1. CASE call["sync"].doc \in ScalarDocs
  <2>1. /\ Rewritten(tmp', tmp) /\ applied' \in [Docs -> SUBSET Nat]
        /\ call' \in [Threads -> CallType]
    BY <1>1, AppliedType DEF SetSucceeds, Threads
  <2> QED BY <1>1, <2>1 DEF SetSucceeds, TypeOK, NodeList, Rewritten
<1>2. CASE call["sync"].doc \notin ScalarDocs
  <2>1. db \in Versions /\ success \in Nat
    BY DEF TypeOK, Versions
  <2>2. db' \in Versions /\ success' \in Nat /\ call' \in [Threads -> CallType]
    BY <1>2, <2>1, PassedType DEF SetSucceeds
  <2> QED BY <1>2, <2>2 DEF SetSucceeds, TypeOK, Versions
<1> QED BY <1>1, <1>2

LEMMA LoopRecordsType == ASSUME TypeOK, LoopRecords PROVE TypeOK'
<1> DEFINE b == CheckDBList(db, call["sync"].doc, call["sync"].version)
<1>1. db \in Versions /\ success \in Nat /\ success + 1 \in Nat
  BY DEF TypeOK, Versions
<1>2. b \in Versions
  BY <1>1, CallKnown, DBType DEF Threads
<1>3. Passed(b, success + 1) \/ Passed(db, success)
  BY DEF LoopRecords
<1> HIDE DEF b
<1>4. db' \in Versions /\ success' \in Nat /\ call' \in [Threads -> CallType]
  BY <1>1, <1>2, <1>3, PassedType
<1> QED BY <1>4 DEF LoopRecords, TypeOK, Versions

LEMMA MarkType == ASSUME TypeOK, NEW p \in Threads, Mark(p) PROVE TypeOK'
<1> DEFINE c == call[p]
           marked == Put(tmp, c.node, c.doc, Updated(tmp[c.node], c.version,
                           "success", "none", 0, c.trans, FALSE))
           refused == Put(tmp, c.node, c.doc, Updated(tmp[c.node], c.version,
                            "failed", "NACK", OwnCode, c.trans, FALSE))
<1>1. /\ tmp' = marked \/ tmp' = refused
      /\ Goes(p, "marked") \/ Goes(p, "none")
      /\ UNCHANGED <<mp, stored, syncing, loop, docFail, events, timer, expiring,
                     outside, faults>>
  BY DEF Mark
<1>2. NodeList(tmp) /\ c.version \in Nat /\ c.trans \in Trans
  BY CallKnown DEF TypeOK, NodeList
<1> HIDE DEF c
<1>3. Rewritten(marked, tmp) /\ Rewritten(refused, tmp)
  BY <1>2, ListedValues, PutUpdatedType
<1> HIDE DEF marked, refused
<1>4. call' \in [Threads -> CallType]
  BY <1>1, GoesType DEF States
<1> QED BY <1>1, <1>3, <1>4 DEF TypeOK, NodeList, Rewritten

LEMMA RecordType == ASSUME TypeOK, NEW p \in Threads, Record(p) PROVE TypeOK'
<1>1. db \in Versions
  BY DEF TypeOK, Versions
<1>2. CheckDBList(db, call[p].doc, call[p].version) \in Versions
  BY <1>1, CallKnown, DBType
<1>3. db' \in Versions
  BY <1>1, <1>2 DEF Record
<1>4. call' \in [Threads -> CallType]
  <2>1. Goes(p, "rooted") \/ Goes(p, "save") \/ Goes(p, "saved")
    BY DEF Record
  <2> QED BY <2>1, GoesType DEF States
<1> QED BY <1>3, <1>4 DEF Record, TypeOK, Versions

LEMMA RecordRootType == ASSUME TypeOK, NEW p \in Threads, RecordRoot(p) PROVE TypeOK'
<1>1. db' \in Versions
  BY DEF RecordRoot, RootToDB, CheckDBList, TypeOK, Versions
<1>2. [call[p] EXCEPT !.version = etag, !.state = "rootdb"] \in CallType
  <2>1. call[p] \in CallType /\ etag \in Nat
    BY DEF TypeOK
  <2> QED BY <2>1 DEF CallType, States
<1>3. call' \in [Threads -> CallType]
  BY <1>2 DEF RecordRoot, TypeOK
<1> QED BY <1>1, <1>3 DEF RecordRoot, TypeOK, Versions

LEMMA MarkRootType == ASSUME TypeOK, NEW p \in Threads, MarkRoot(p) PROVE TypeOK'
<1>1. NodeList(tmp) /\ call[p].version \in Nat
  BY CallKnown DEF TypeOK, NodeList
<1>2. Rewritten(SetRoot(tmp, call[p].version, "success"), tmp) /\ Rewritten(tmp, tmp)
  BY <1>1, ListedValues, SetRootType DEF Rewritten
<1>3. Rewritten(tmp', tmp)
  BY <1>2 DEF MarkRoot
<1>4. call' \in [Threads -> CallType]
  BY GoesType DEF MarkRoot, States
<1> QED BY <1>3, <1>4 DEF MarkRoot, TypeOK, NodeList, Rewritten

LEMMA SaveType == ASSUME TypeOK, NEW p \in Threads, Save(p) PROVE TypeOK'
<1>1. call' \in [Threads -> CallType]
  <2>1. Goes(p, "none") \/ Goes(p, "saved")
    BY DEF Save
  <2> QED BY <2>1, GoesType DEF States
<1>2. /\ disk' = db
      /\ pc' \in {pc, "idle"} /\ cursor' \in Nat /\ current' \in Nat /\ success' \in Nat
      /\ UNCHANGED <<lists, db, syncing, docFail, events, timer, expiring, outside, faults>>
  BY DEF Save, TypeOK
<1> QED BY <1>1, <1>2 DEF TypeOK

LEMMA CheckDeleteType == ASSUME TypeOK, NEW p \in Threads, CheckDelete(p) PROVE TypeOK'
<1>1. call' \in [Threads -> CallType]
  <2>1. Goes(p, "drop") \/ Goes(p, "save") \/ Goes(p, "none")
    BY DEF CheckDelete, AfterDelete
  <2> QED BY <2>1, GoesType DEF States
<1> QED BY <1>1 DEF CheckDelete, TypeOK

LEMMA DeleteTmpListType == ASSUME TypeOK, NEW p \in Threads, DeleteTmpList(p) PROVE TypeOK'
<1>1. call' \in [Threads -> CallType]
  <2>1. Goes(p, "free") \/ Goes(p, "none")
    BY DEF DeleteTmpList
  <2> QED BY <2>1, GoesType DEF States
<1>2. NodeList(tmp') /\ DOMAIN tmp' \subseteq 0..top
  BY EmptyType DEF DeleteTmpList
<1> QED BY <1>1, <1>2 DEF DeleteTmpList, TypeOK, NodeList

LEMMA DeleteMultipartType ==
  ASSUME TypeOK, NEW p \in Threads, DeleteMultipart(p) PROVE TypeOK'
<1>1. call' \in [Threads -> CallType]
  <2>1. Goes(p, "save") \/ Goes(p, "none")
    BY DEF DeleteMultipart, AfterDelete
  <2> QED BY <2>1, GoesType DEF States
<1>2. mp' \in [DOMAIN mp' -> PartType] /\ DOMAIN mp' \subseteq 1..top
  BY DEF DeleteMultipart, Empty
<1> QED BY <1>1, <1>2 DEF DeleteMultipart, TypeOK

LEMMA RecordStepType == ASSUME TypeOK, NEW p \in Threads, RecordStep(p) PROVE TypeOK'
BY MarkType, RecordType, RecordRootType, MarkRootType, SaveType, CheckDeleteType,
   DeleteTmpListType, DeleteMultipartType DEF RecordStep

LEMMA SetFailsType == ASSUME TypeOK, NEW code \in FailCodes, SetFails(code) PROVE TypeOK'
<1> DEFINE c == call["sync"]
           later == code \in {Crash, NotThere}
           unsupported == Unsupported(c.doc, code)
           details == IF unsupported THEN "doc_unsupported"
                      ELSE IF later THEN "failed_retrying" ELSE "doc_rejected"
           t == Put(tmp, c.node, c.doc, Updated(tmp[c.node], c.version, "failed",
                                                details, code, NoTrans, later))
<1>1. /\ tmp' = t
      /\ docFail' = (IF later /\ ~unsupported THEN 1 ELSE docFail)
      /\ pc' \in {"leave", "apply"}
      /\ Goes("sync", "rooted") \/ Goes("sync", "none")
      /\ UNCHANGED <<mp, stored, syncing, cursor, current, success, events, timer,
                     expiring, outside>>
  BY DEF SetFails
<1>2. faults' \in Nat /\ docFail' \in {0, 1}
  BY <1>1 DEF SetFails, MayFail, TypeOK
<1>3. call' \in [Threads -> CallType]
  BY <1>1, GoesType DEF Threads, States
<1>4. Rewritten(t, tmp)
  <2>1. NodeList(tmp) /\ c.version \in Nat
    BY CallKnown DEF TypeOK, NodeList, Threads
  <2>2. details \in Details /\ code \in Codes /\ later \in BOOLEAN
    BY ListedValues
  <2> HIDE DEF details, later, c
  <2> QED BY <2>1, <2>2, ListedValues, PutUpdatedType
<1> HIDE DEF c, later, unsupported, details, t
<1> QED BY <1>1, <1>2, <1>3, <1>4 DEF TypeOK, NodeList, Rewritten

LEMMA EndLoopType == ASSUME TypeOK, EndLoop PROVE TypeOK'
BY DEF TypeOK, EndLoop

\* What the event thread writes after a failed retry.
LEMMA GiveUpType ==
  ASSUME NEW t, NodeList(t), NEW p, NEW n, NEW d, NEW known \in Nat
  PROVE  Rewritten(GiveUp(p, t, n, d, known), t)
<1>1. CASE Here(t, n, d)
  <2>1. t[n].trans_id \in Trans
    BY <1>1 DEF Here, NodeList, NodeType
  <2>2. Rewritten(Put(t, n, d, Updated(t[n], known, "failed", "retry_failed",
                                       OwnCode, t[n].trans_id, TRUE)), t)
    BY <2>1, ListedValues, PutUpdatedType
  <2> QED BY <2>2 DEF GiveUp, Rewritten
<1>2. CASE ~Here(t, n, d)
  BY <1>2 DEF GiveUp, Rewritten
<1> QED BY <1>1, <1>2

LEMMA GiveUpAfter ==
  ASSUME NEW t, NEW u, Rewritten(u, t), NEW p, NEW n, NEW d, NEW known \in Nat
  PROVE  Rewritten(GiveUp(p, u, n, d, known), t)
<1>1. NodeList(u)
  BY DEF Rewritten
<1>2. Rewritten(GiveUp(p, u, n, d, known), u)
  BY <1>1, GiveUpType
<1> QED BY <1>2 DEF Rewritten

LEMMA ExhaustedType ==
  ASSUME NEW n \in NodeType
  PROVE  Exhausted(n) \in NodeType
<1>1. n.version \in Nat /\ n.code \in Codes
  BY DEF NodeType
<1> QED BY <1>1, ListedValues, UpdatedType DEF Exhausted

\* The first half of retryMultipartSubdoc keeps the types.
LEMMA RetryType ==
  ASSUME TypeOK, NEW p \in Threads, NEW n \in Nat \cup {Null},
         NEW d \in Docs \cup {Root}, NEW known \in Nat, Retry(p, n, d, known)
  PROVE  /\ Rewritten(tmp', tmp) /\ call' \in [Threads -> CallType]
         /\ UNCHANGED <<requests, faults>>
<1> DEFINE m == Put(tmp, n, d, Exhausted(tmp[n]))
           begun == [NoCall EXCEPT !.doc = d, !.node = n, !.known = known, !.state = "check"]
<1>1. \/ tmp' = GiveUp(p, tmp, n, d, known) /\ UNCHANGED call
      \/ tmp' = GiveUp(p, m, n, d, known) /\ UNCHANGED call
      \/ UNCHANGED tmp /\ call' = [call EXCEPT ![p] = begun]
  BY DEF Retry
<1>2. NodeList(tmp) /\ Rewritten(tmp, tmp)
  BY DEF TypeOK, NodeList, Rewritten
<1>3. Here(tmp, n, d) => Exhausted(tmp[n]) \in NodeType
  BY <1>2, ExhaustedType DEF Here, NodeList
<1>4. Rewritten(m, tmp)
  BY <1>2, <1>3, PutType
<1>5. begun \in CallType
  BY DEF NoCall, CallType, Trans, States
<1>6. UNCHANGED <<requests, faults>>
  BY DEF Retry
<1> HIDE DEF m, begun
<1>7. Rewritten(tmp', tmp)
  BY <1>1, <1>2, <1>4, GiveUpAfter
<1>8. call' \in [Threads -> CallType]
  BY <1>1, <1>5 DEF TypeOK
<1> QED BY <1>6, <1>7, <1>8

\* The second half of retryMultipartSubdoc.
LEMMA RetrySendType == ASSUME TypeOK, NEW p \in Threads, RetrySend(p) PROVE TypeOK'
<1> DEFINE c == call[p]
           m == [tmp[c.node] EXCEPT !.retry_count = @ + 1]
           Garbled(a) == Updated(m, mp[a].version, "failed", "decode_failed",
                                 OwnCode, NoTrans, FALSE)
           Resent(a) == IF c.doc \in ScalarDocs THEN m
                          ELSE Updated(m, mp[a].version, "pending",
                                       "failed_retrying", 0, NoTrans, TRUE)
           Fails(u) == /\ tmp' = GiveUp(p, u, c.node, c.doc, c.known)
                       /\ call' = [call EXCEPT ![p] = NoCall]
                       /\ UNCHANGED <<requests, faults>>
<1>1. \/ Fails(Put(tmp, c.node, c.doc, m))
      \/ \E a \in Named(mp, c.doc) :
           \/ Fails(Put(tmp, c.node, c.doc, Garbled(a)))
           \/ SetValues(p, c.doc, c.node, Resent(a), mp[a].version, c.known)
  BY DEF RetrySend
<1>2. /\ c.doc \in Docs \cup {Root} /\ c.node \in Nat \cup {Null} /\ c.known \in Nat
      /\ [call EXCEPT ![p] = NoCall] \in [Threads -> CallType]
  BY CallKnown
<1>3. NodeList(tmp)
  BY DEF TypeOK, NodeList
<1>4. \A a \in Named(mp, c.doc) : mp[a].version \in Nat \ {0}
  BY DEF Named, TypeOK, PartType
<1>5. Here(tmp, c.node, c.doc) => m \in NodeType
  <2> HIDE DEF c
  <2> QED BY <1>3 DEF Here, NodeList, NodeType
<1>6. \A a \in Named(mp, c.doc) :
        Here(tmp, c.node, c.doc) => Garbled(a) \in NodeType /\ Resent(a) \in NodeType
  <2> SUFFICES ASSUME NEW a \in Named(mp, c.doc), Here(tmp, c.node, c.doc)
               PROVE  Garbled(a) \in NodeType /\ Resent(a) \in NodeType
    OBVIOUS
  <2>1. m \in NodeType /\ mp[a].version \in Nat
    BY <1>4, <1>5
  <2> HIDE DEF m
  <2> QED BY <2>1, ListedValues, UpdatedType
<1> HIDE DEF m, Garbled, Resent
<1>7. ASSUME NEW u, Rewritten(u, tmp), Fails(u)
      PROVE  /\ Rewritten(tmp', tmp) /\ call' \in [Threads -> CallType]
             /\ requests' \in [Docs -> Seq(RequestType)] /\ faults' \in Nat
  <2>1. Rewritten(tmp', tmp)
    BY <1>2, <1>7, GiveUpAfter
  <2> QED BY <1>2, <1>7, <2>1 DEF TypeOK
<1> HIDE DEF Fails, c
<1>8. /\ Rewritten(tmp', tmp) /\ call' \in [Threads -> CallType]
      /\ requests' \in [Docs -> Seq(RequestType)] /\ faults' \in Nat
  <2>1. CASE Fails(Put(tmp, c.node, c.doc, m))
    BY <2>1, <1>3, <1>5, <1>7, PutType
  <2>2. ASSUME NEW a \in Named(mp, c.doc), Fails(Put(tmp, c.node, c.doc, Garbled(a)))
        PROVE  <1>8
    BY <2>2, <1>3, <1>6, <1>7, PutType
  <2>3. ASSUME NEW a \in Named(mp, c.doc),
               SetValues(p, c.doc, c.node, Resent(a), mp[a].version, c.known)
        PROVE  <1>8
    <3>1. Here(tmp, c.node, c.doc) => Resent(a) \in NodeType
      BY <1>6
    <3>2. mp[a].version \in Nat \ {0}
      BY <1>4
    <3> QED BY <2>3, <3>1, <3>2, <1>2, SetValuesType
  <2> QED BY <1>1, <2>1, <2>2, <2>3
<1> QED BY <1>8 DEF RetrySend, TypeOK, NodeList, Rewritten

LEMMA RetrySucceedsType ==
  ASSUME TypeOK, NEW p \in Threads, RetrySucceeds(p) PROVE TypeOK'
<1>1. CASE call[p].doc \in ScalarDocs
  <2>1. /\ Rewritten(tmp', tmp) /\ applied' \in [Docs -> SUBSET Nat]
        /\ call' \in [Threads -> CallType]
    BY <1>1, AppliedType DEF RetrySucceeds
  <2> QED BY <1>1, <2>1 DEF RetrySucceeds, TypeOK, NodeList, Rewritten
<1>2. CASE call[p].doc \notin ScalarDocs
  <2>1. call' \in [Threads -> CallType]
    BY <1>2, GoesType DEF RetrySucceeds, States
  <2> QED BY <1>2, <2>1 DEF RetrySucceeds, TypeOK
<1> QED BY <1>1, <1>2

LEMMA RetryFailsType ==
  ASSUME TypeOK, NEW p \in Threads, NEW code \in FailCodes, RetryFails(p, code)
  PROVE  TypeOK'
<1> DEFINE c == call[p]
           later == code \in {Crash, NotThere}
           again == Put(tmp, c.node, c.doc, Updated(tmp[c.node], c.version,
                          "pending", "failed_retrying", code, NoTrans, TRUE))
           rejected == Put(tmp, c.node, c.doc, Updated(tmp[c.node], c.version,
                             "failed", "doc_rejected", code, NoTrans, FALSE))
<1>1. /\ tmp' = GiveUp(p, IF later THEN again ELSE rejected, c.node, c.doc, c.known)
      /\ docFail' = (IF later THEN 1 ELSE docFail)
      /\ call' = [call EXCEPT ![p] = NoCall]
      /\ UNCHANGED <<mp, stored, syncing, loop, events, timer, expiring, outside>>
  BY DEF RetryFails
<1>2. c.version \in Nat /\ c.known \in Nat /\ call' \in [Threads -> CallType]
  BY <1>1, CallKnown
<1>3. NodeList(tmp) /\ code \in Codes
  BY ListedValues DEF TypeOK, NodeList
<1>4. docFail' \in {0, 1} /\ faults' \in Nat
  BY <1>1 DEF RetryFails, MayFail, TypeOK
<1> HIDE DEF c, later
<1>5. Rewritten(again, tmp) /\ Rewritten(rejected, tmp)
  BY <1>2, <1>3, ListedValues, PutUpdatedType
<1> HIDE DEF again, rejected
<1>6. Rewritten(tmp', tmp)
  BY <1>1, <1>2, <1>5, GiveUpAfter
<1> QED BY <1>1, <1>2, <1>4, <1>6 DEF TypeOK, NodeList, Rewritten

LEMMA StartFailedDocsRetryType ==
  ASSUME TypeOK, StartFailedDocsRetry PROVE TypeOK'
BY DEF TypeOK, StartFailedDocsRetry

LEMMA RetryNextType == ASSUME TypeOK, RetryNext PROVE TypeOK'
<1>1. PICK a \in Retryable : cursor' = a + 1 /\ Retry("sync", a, tmp[a].name, 0)
  BY DEF RetryNext
<1>2. a \in Nat /\ tmp[a].name \in Docs \cup {Root}
  BY DEF Retryable, TypeOK, NodeType
<1>3. /\ Rewritten(tmp', tmp) /\ call' \in [Threads -> CallType]
      /\ UNCHANGED <<requests, faults>>
  BY <1>1, <1>2, RetryType DEF Threads
<1>4. cursor' \in Nat
  BY <1>1, <1>2
<1> QED BY <1>3, <1>4 DEF RetryNext, TypeOK, NodeList, Rewritten

LEMMA NotYetDueType == ASSUME TypeOK, NotYetDue PROVE TypeOK'
<1>1. PICK a \in Retryable : cursor' = a + 1
  BY DEF NotYetDue
<1>2. cursor' \in Nat
  BY <1>1 DEF Retryable, TypeOK
<1> QED BY <1>2 DEF NotYetDue, TypeOK

LEMMA EndFailedDocsRetryType == ASSUME TypeOK, EndFailedDocsRetry PROVE TypeOK'
BY DEF TypeOK, EndFailedDocsRetry

LEMMA ReleaseSuccessDocsType == ASSUME TypeOK, ReleaseSuccessDocs PROVE TypeOK'
<1>1. PICK S : tmp' = DeleteEach(tmp, S)
  BY DEF ReleaseSuccessDocs
<1>2. NodeList(tmp') /\ DOMAIN tmp' \subseteq 0..top
  BY <1>1, DeleteEachType DEF TypeOK, NodeList
<1> QED BY <1>2 DEF ReleaseSuccessDocs, TypeOK, NodeList

LEMMA StopTimerType ==
  ASSUME TypeOK, NEW e \in EventType, StopTimer(e)
  PROVE  timer' \in [Docs -> Trans]
BY DEF StopTimer, TypeOK, Trans

\* The event thread goes on to settle a document.
LEMMA SettlesType ==
  ASSUME TypeOK, NEW e \in EventType, NEW n \in Nat \cup {Null}, NEW s \in States,
         Settles(e, n, s)
  PROVE  call' \in [Threads -> CallType]
<1>1. [doc |-> e.doc, node |-> n, version |-> e.version, known |-> 0,
       trans |-> e.trans_id, state |-> s] \in CallType
  BY DEF EventType, CallType
<1> QED BY <1>1 DEF Settles, TypeOK

LEMMA HandleAckType ==
  ASSUME TypeOK, NEW e \in EventType, NEW n \in Nat \cup {Null}, HandleAck(e, n),
         events' \in Seq(EventType)
  PROVE  TypeOK'
<1>1. CASE Valid(e, n)
  <2>1. timer' \in [Docs -> Trans] /\ call' \in [Threads -> CallType]
    BY <1>1, StopTimerType, SettlesType DEF HandleAck, States
  <2> QED BY <1>1, <2>1 DEF HandleAck, TypeOK
<1>2. CASE ~Valid(e, n)
  BY <1>2 DEF HandleAck, TypeOK
<1> QED BY <1>1, <1>2

LEMMA HandleNackType ==
  ASSUME TypeOK, NEW e \in EventType, NEW n \in Nat \cup {Null}, HandleNack(e, n),
         events' \in Seq(EventType)
  PROVE  TypeOK'
<1>1. CASE Valid(e, n)
  <2>1. timer' \in [Docs -> Trans] /\ call' \in [Threads -> CallType]
    BY <1>1, StopTimerType, SettlesType DEF HandleNack, States
  <2> QED BY <1>1, <2>1 DEF HandleNack, TypeOK
<1>2. CASE ~Valid(e, n)
  BY <1>2 DEF HandleNack, TypeOK
<1> QED BY <1>1, <1>2

LEMMA HandleTimeoutType ==
  ASSUME TypeOK, NEW e \in EventType, NEW n \in Nat \cup {Null},
         HandleTimeout(e, n), events' \in Seq(EventType)
  PROVE  TypeOK'
<1>1. timer' \in [Docs -> Trans]
  BY DEF HandleTimeout, TypeOK, EventType
<1> QED BY <1>1 DEF HandleTimeout, TypeOK

LEMMA TmpVersionType == ASSUME TypeOK, NEW n PROVE TmpVersion(n) \in Nat
BY DEF TmpVersion, TypeOK, NodeType

LEMMA HandleExpireType ==
  ASSUME TypeOK, NEW e \in EventType, NEW n \in Nat \cup {Null},
         HandleExpire(e, n), events' \in Seq(EventType)
  PROVE  TypeOK'
<1>1. CASE Nacked(n)
  BY <1>1 DEF HandleExpire, TypeOK
<1>2. CASE ~Nacked(n)
  <2>1. Retry("event", n, e.doc, TmpVersion(n))
    BY <1>2 DEF HandleExpire
  <2>2. /\ Rewritten(tmp', tmp) /\ call' \in [Threads -> CallType]
        /\ UNCHANGED <<requests, faults>>
    BY <2>1, TmpVersionType, RetryType DEF Threads, EventType
  <2> QED BY <2>2 DEF HandleExpire, TypeOK, NodeList, Rewritten
<1> QED BY <1>1, <1>2

LEMMA HandleInitType ==
  ASSUME TypeOK, NEW e \in EventType, NEW n \in Nat \cup {Null},
         HandleInit(e, n), events' \in Seq(EventType)
  PROVE  TypeOK'
<1>1. CASE Settles(e, n, "valid") /\ UNCHANGED <<tmp, requests, faults>>
  <2>1. call' \in [Threads -> CallType]
    BY <1>1, SettlesType DEF States
  <2> QED BY <1>1, <2>1 DEF HandleInit, TypeOK
<1>2. CASE Retry("event", n, e.doc, TmpVersion(n))
  <2>1. /\ Rewritten(tmp', tmp) /\ call' \in [Threads -> CallType]
        /\ UNCHANGED <<requests, faults>>
    BY <1>2, TmpVersionType, RetryType DEF Threads, EventType
  <2> QED BY <1>2, <2>1 DEF HandleInit, TypeOK, NodeList, Rewritten
<1>3. CASE UNCHANGED <<tmp, call, requests, faults>>
  BY <1>3 DEF HandleInit, TypeOK
<1> QED BY <1>1, <1>2, <1>3 DEF HandleInit

LEMMA HandleEventType == ASSUME TypeOK, HandleEvent PROVE TypeOK'
<1> DEFINE e == Head(events)
<1>1. e \in EventType /\ events' \in Seq(EventType)
  <2>1. events \in Seq(EventType) /\ events # <<>> /\ events' = Tail(events)
    BY DEF TypeOK, HandleEvent
  <2> QED BY <2>1
<1>2. PICK n \in Pointer(tmp, e.doc) :
        \/ HandleAck(e, n) \/ HandleNack(e, n) \/ HandleTimeout(e, n)
        \/ HandleExpire(e, n) \/ HandleInit(e, n)
  BY DEF HandleEvent
<1> HIDE DEF e
<1>3. n \in Nat \cup {Null}
  BY PointerInList
<1> QED BY <1>1, <1>2, <1>3, HandleAckType, HandleNackType, HandleTimeoutType,
           HandleExpireType, HandleInitType

LEMMA TimerCheckType == ASSUME TypeOK, NEW d \in Docs, TimerCheck(d) PROVE TypeOK'
BY DEF TypeOK, TimerCheck

LEMMA NewEventType ==
  ASSUME TypeOK, NEW kind \in Kinds, NEW d \in Docs, NEW x \in Trans,
         NEW v \in Nat, NEW code \in Codes, Event(kind, d, x, v, code)
  PROVE  events' \in Seq(EventType)
<1>1. [kind |-> kind, doc |-> d, trans_id |-> x, version |-> v, code |-> code]
        \in EventType
  BY DEF EventType
<1>2. events \in Seq(EventType)
  BY DEF TypeOK
<1> QED BY <1>1, <1>2 DEF Event

LEMMA TimerExpiresType == ASSUME TypeOK, TimerExpires PROVE TypeOK'
<1>1. expiring \in Docs
  BY DEF TypeOK, TimerExpires
<1>2. events' \in Seq(EventType)
  <2>1. Event("EXPIRE", expiring, NoTrans, 0, 0)
    BY DEF TimerExpires, Event
  <2> QED BY <1>1, <2>1, ListedValues, NewEventType DEF Kinds
<1>3. timer' \in [Docs -> Trans]
  BY DEF TimerExpires, TypeOK, Trans
<1> QED BY <1>2, <1>3 DEF TimerExpires, TypeOK

LEMMA ComponentAcceptsType ==
  ASSUME TypeOK, NEW d \in Docs, ComponentAccepts(d) PROVE TypeOK'
<1> DEFINE r == Head(requests[d])
<1>1. requests[d] \in Seq(RequestType) /\ requests[d] # <<>>
  BY DEF TypeOK, ComponentAccepts
<1>2. r \in RequestType /\ Tail(requests[d]) \in Seq(RequestType)
  BY <1>1
<1>3. r.version \in Nat /\ r.trans_id \in Trans
  BY <1>2 DEF RequestType, Trans
<1>4. events' \in Seq(EventType)
  BY <1>3, ListedValues, NewEventType DEF ComponentAccepts, Kinds
<1>5. requests' \in [Docs -> Seq(RequestType)]
  BY <1>2 DEF ComponentAccepts, TypeOK
<1>6. running' \in [Docs -> Nat] /\ applied' \in [Docs -> SUBSET Nat]
  BY <1>3 DEF ComponentAccepts, TypeOK
<1> QED BY <1>4, <1>5, <1>6 DEF ComponentAccepts, TypeOK

LEMMA ComponentRefusesType ==
  ASSUME TypeOK, NEW d \in Docs, ComponentRefuses(d) PROVE TypeOK'
<1> DEFINE r == Head(requests[d])
<1>1. requests[d] \in Seq(RequestType) /\ requests[d] # <<>>
  BY DEF TypeOK, ComponentRefuses
<1>2. r \in RequestType /\ Tail(requests[d]) \in Seq(RequestType)
  BY <1>1
<1>3. r.version \in Nat /\ r.trans_id \in Trans
  BY <1>2 DEF RequestType, Trans
<1>4. events' \in Seq(EventType)
  BY <1>3, ListedValues, NewEventType DEF ComponentRefuses, Kinds
<1>5. requests' \in [Docs -> Seq(RequestType)]
  BY <1>2 DEF ComponentRefuses, TypeOK
<1>6. faults' \in Nat
  BY DEF ComponentRefuses, TypeOK
<1>7. UNCHANGED <<lists, stored, syncing, loop, docFail, call, timer, expiring,
                  running, applied>>
  BY DEF ComponentRefuses
<1> QED BY <1>4, <1>5, <1>6, <1>7 DEF TypeOK

LEMMA ComponentNeedsTimeType ==
  ASSUME TypeOK, NEW d \in Docs, ComponentNeedsTime(d) PROVE TypeOK'
<1> DEFINE r == Head(requests[d])
<1>1. requests[d] \in Seq(RequestType) /\ requests[d] # <<>>
  BY DEF TypeOK, ComponentNeedsTime
<1>2. r \in RequestType
  BY <1>1
<1>3. r.version \in Nat /\ r.trans_id \in Trans
  BY <1>2 DEF RequestType, Trans
<1>4. events' \in Seq(EventType)
  BY <1>3, ListedValues, NewEventType DEF ComponentNeedsTime, Kinds
<1>5. faults' \in Nat
  BY DEF ComponentNeedsTime, TypeOK
<1>6. UNCHANGED <<lists, stored, syncing, loop, docFail, call, timer, expiring, outside>>
  BY DEF ComponentNeedsTime
<1> QED BY <1>4, <1>5, <1>6 DEF TypeOK

LEMMA ComponentRestartsType ==
  ASSUME TypeOK, NEW d \in Docs, ComponentRestarts(d) PROVE TypeOK'
<1>1. running[d] \in Nat
  BY DEF TypeOK
<1>2. events' \in Seq(EventType)
  BY <1>1, ListedValues, NewEventType DEF ComponentRestarts, Kinds
<1>3. requests' \in [Docs -> Seq(RequestType)]
  BY DEF ComponentRestarts, TypeOK
<1>4. faults' \in Nat
  BY DEF ComponentRestarts, TypeOK
<1>5. UNCHANGED <<lists, stored, syncing, loop, docFail, call, timer, expiring,
                  running, applied>>
  BY DEF ComponentRestarts
<1> QED BY <1>2, <1>3, <1>4, <1>5 DEF TypeOK

LEMMA StutterType == ASSUME TypeOK, UNCHANGED vars PROVE TypeOK'
BY DEF TypeOK, vars

\* Each step of each thread keeps the types.
LEMMA NextType == ASSUME TypeOK, [Next]_vars PROVE TypeOK'
<1>1. CASE Refresh \/ \E b \in Bundles : Fetch(b)
  BY <1>1, RefreshType, FetchType
<1>2. CASE StartFailedDocsRetry
  BY <1>2, StartFailedDocsRetryType
<1>3. CASE ReleaseSuccessDocs
  BY <1>3, ReleaseSuccessDocsType
<1>4. CASE SyncStep
  <2>1. CASE ParseFails \/ Parse \/ AddToTmpList \/ SendDoc \/ DecodeFails \/ EndLoop
    BY <2>1, ParseFailsType, ParseType, AddToTmpListType, SendDocType,
       DecodeFailsType, EndLoopType
  <2>2. CASE SetSucceeds \/ \E code \in FailCodes : SetFails(code)
    BY <2>2, SetSucceedsType, SetFailsType
  <2>3. CASE \/ RetrySucceeds("sync") \/ RetrySend("sync")
             \/ \E code \in FailCodes : RetryFails("sync", code)
    BY <2>3, RetrySucceedsType, RetrySendType, RetryFailsType DEF Threads
  <2>4. CASE RetryNext \/ NotYetDue \/ EndFailedDocsRetry
    BY <2>4, RetryNextType, NotYetDueType, EndFailedDocsRetryType
  <2>5. CASE StoreRoot \/ NoBundle \/ LoopRecords \/ RecordStep("sync")
    BY <2>5, StoreRootType, NoBundleType, LoopRecordsType, RecordStepType DEF Threads
  <2> QED BY <1>4, <2>1, <2>2, <2>3, <2>4, <2>5 DEF SyncStep
<1>5. CASE EventStep
  BY <1>5, HandleEventType, RecordStepType, RetrySucceedsType, RetrySendType,
     RetryFailsType DEF EventStep, Threads
<1>6. CASE TimerStep
  BY <1>6, TimerExpiresType, TimerCheckType DEF TimerStep
<1>7. CASE ComponentStep
  BY <1>7, ComponentAcceptsType, ComponentRefusesType, ComponentNeedsTimeType,
     ComponentRestartsType DEF ComponentStep
<1>8. CASE UNCHANGED vars
  BY <1>8, StutterType
<1> QED BY <1>1, <1>2, <1>3, <1>4, <1>5, <1>6, <1>7, <1>8 DEF Next

\* TypeOK holds in every state of the system: whichever thread writes, nodes,
\* calls and events keep to the values the source knows, and no list has an
\* address that was not given out.
THEOREM TypeCorrect == Spec => []TypeOK
<1>1. Init => TypeOK
  BY InitType
<1>2. TypeOK /\ [Next]_vars => TypeOK'
  BY NextType
<1> QED BY <1>1, <1>2, PTL DEF Spec

-----------------------------------------------------------------------------
(* Versions in use are positive. A component that has applied nothing yet    *)
(* answers with version 0 after a restart: it can never match a document of  *)
(* the list, so 0 is not recorded for it.                                    *)

Positive(t) == \A a \in DOMAIN t : t[a].name # Root => t[a].version > 0
PositiveList(t) == NodeList(t) /\ DOMAIN t \subseteq Nat /\ Positive(t)
Versioned == {"sent", "unsent", "valid", "refused", "marked"}
Retries   == {"check", "sent", "unsent"}
PositiveCalls ==
  /\ \A p \in Threads : call[p].state \in Versioned => call[p].version > 0
  /\ call["event"].state \in Retries => call["event"].known > 0
VersionsPositive == PositiveList(tmp) /\ PositiveCalls

LEMMA TypeList == ASSUME TypeOK PROVE NodeList(tmp) /\ DOMAIN tmp \subseteq Nat
BY DEF TypeOK, NodeList

\* Writing a node through a pointer.
LEMMA PutPositive ==
  ASSUME NEW t, PositiveList(t), NEW a, NEW d, NEW n,
         Here(t, a, d) => n \in NodeType /\ (n.name # Root => n.version > 0)
  PROVE  PositiveList(Put(t, a, d, n))
<1>1. NodeList(t)
  BY DEF PositiveList
<1>2. NodeList(Put(t, a, d, n)) /\ DOMAIN Put(t, a, d, n) = DOMAIN t
  BY <1>1, PutType DEF Rewritten
<1>3. Positive(Put(t, a, d, n))
  BY <1>1 DEF PositiveList, Positive, Put, Here, NodeList
<1> QED BY <1>2, <1>3 DEF PositiveList

LEMMA PutUpdatedPositive ==
  ASSUME NEW t, PositiveList(t), NEW a, NEW d, NEW v \in Nat \ {0},
         NEW s \in Statuses, NEW e \in Details, NEW c \in Codes,
         NEW x \in Trans, NEW r \in BOOLEAN
  PROVE  PositiveList(Put(t, a, d, Updated(t[a], v, s, e, c, x, r)))
<1> DEFINE n == Updated(t[a], v, s, e, c, x, r)
<1>1. Here(t, a, d) => n \in NodeType /\ n.version = v
  <2>1. SUFFICES ASSUME Here(t, a, d) PROVE n \in NodeType /\ n.version = v
    OBVIOUS
  <2>2. t[a] \in NodeType
    BY <2>1 DEF Here, PositiveList, NodeList
  <2> QED BY <2>2, UpdatedType
<1> HIDE DEF n
<1>2. Here(t, a, d) => n \in NodeType /\ (n.name # Root => n.version > 0)
  BY <1>1
<1> QED BY <1>2, PutPositive DEF n

LEMMA SetRootPositive ==
  ASSUME NEW t, PositiveList(t), NEW v \in Nat, NEW s \in Statuses
  PROVE  PositiveList(SetRoot(t, v, s))
<1>1. NodeList(t) /\ DOMAIN t \subseteq Nat /\ Positive(t)
  BY DEF PositiveList
<1>2. NodeList(SetRoot(t, v, s)) /\ DOMAIN SetRoot(t, v, s) = DOMAIN t
  BY <1>1, SetRootType DEF Rewritten
<1>3. ASSUME NEW a \in DOMAIN t, SetRoot(t, v, s)[a].name # Root
      PROVE  SetRoot(t, v, s)[a].version > 0
  <2>1. CASE a \in Pointer(t, Root)
    <3>1. t[a].name = Root /\ t[a] \in NodeType
      BY <1>1, <2>1, PointerType DEF Null, NodeList
    <3>2. SetRoot(t, v, s)[a] = Updated(t[a], v, s, "none", 0, NoTrans, FALSE)
      BY <2>1 DEF SetRoot
    <3>3. SetRoot(t, v, s)[a].name = t[a].name
      BY <3>1, <3>2 DEF Updated, NodeType
    <3> QED BY <1>3, <3>1, <3>3
  <2>2. CASE a \notin Pointer(t, Root)
    <3>1. SetRoot(t, v, s)[a] = t[a]
      BY <2>2 DEF SetRoot
    <3> QED BY <1>1, <1>3, <3>1 DEF Positive
  <2> QED BY <2>1, <2>2
<1>4. Positive(SetRoot(t, v, s))
  BY <1>2, <1>3 DEF Positive
<1> QED BY <1>1, <1>2, <1>4 DEF PositiveList

LEMMA EmptyPositive == PositiveList(Empty)
BY EmptyType DEF PositiveList, Positive

\* A thread's next step. No retry is begun this way.
LEMMA CallPositive ==
  ASSUME TypeOK, VersionsPositive, NEW p \in Threads, NEW r,
         call' = [call EXCEPT ![p] = r],
         r.state \in Versioned => r.version > 0,
         p = "event" /\ r.state \in Retries => r.known > 0
  PROVE  PositiveCalls'
BY DEF PositiveCalls, VersionsPositive, TypeOK, Threads

LEMMA GoesPositive ==
  ASSUME TypeOK, VersionsPositive, NEW p \in Threads, NEW s, Goes(p, s),
         s \notin Retries,
         s \in {"valid", "refused", "marked"} => call[p].version > 0
  PROVE  PositiveCalls'
<1> DEFINE r == IF s = "none" THEN NoCall ELSE [call[p] EXCEPT !.state = s]
<1>1. call' = [call EXCEPT ![p] = r]
  BY DEF Goes
<1>2. call[p] \in CallType
  BY DEF TypeOK
<1>3. r.state = s /\ (s = "none" \/ r.version = call[p].version)
  BY <1>2 DEF CallType, NoCall
<1> HIDE DEF r
<1>4. r.state \in Versioned => r.version > 0
  BY <1>3 DEF Versioned, Retries
<1>5. r.state \notin Retries
  BY <1>3
<1> QED BY <1>1, <1>4, <1>5, CallPositive

\* A call that ends.
LEMMA CallEndsPositive ==
  ASSUME TypeOK, VersionsPositive, NEW p \in Threads,
         call' = [call EXCEPT ![p] = NoCall]
  PROVE  PositiveCalls'
BY CallPositive DEF NoCall, Versioned, Retries

LEMMA GiveUpPositive ==
  ASSUME NEW t, PositiveList(t), NEW p, NEW n, NEW d, NEW known \in Nat,
         p = "event" /\ Here(t, n, d) => known > 0
  PROVE  PositiveList(GiveUp(p, t, n, d, known))
<1>1. CASE p = "event" /\ Here(t, n, d)
  <2>1. t[n].trans_id \in Trans
    BY <1>1 DEF Here, PositiveList, NodeList, NodeType
  <2>2. known \in Nat \ {0}
    BY <1>1
  <2>3. PositiveList(Put(t, n, d, Updated(t[n], known, "failed", "retry_failed",
                                          OwnCode, t[n].trans_id, TRUE)))
    BY <2>1, <2>2, ListedValues, PutUpdatedPositive
  <2> QED BY <2>3 DEF GiveUp
<1>2. CASE ~(p = "event" /\ Here(t, n, d))
  BY <1>2 DEF GiveUp
<1> QED BY <1>1, <1>2

LEMMA SetValuesPositive ==
  ASSUME TypeOK, VersionsPositive, NEW p \in Threads, NEW d, NEW n, NEW m,
         Here(tmp, n, d) => m \in NodeType /\ (m.name # Root => m.version > 0),
         NEW v \in Nat \ {0}, NEW known \in Nat, p = "event" => known > 0,
         SetValues(p, d, n, m, v, known)
  PROVE  VersionsPositive'
<1>1. PositiveList(tmp)
  BY DEF VersionsPositive
<1>2. PositiveList(tmp')
  <2>1. CASE d \in ScalarDocs
    BY <2>1, <1>1, PutPositive DEF SetValues
  <2>2. CASE d \notin ScalarDocs
    <3>1. PICK x \in TransIds : tmp' = Put(tmp, n, d, [m EXCEPT !.trans_id = x])
      BY <2>2 DEF SetValues
    <3> DEFINE k == [m EXCEPT !.trans_id = x]
    <3>2. Here(tmp, n, d) => k \in NodeType /\ (k.name # Root => k.version > 0)
      BY DEF NodeType, Trans
    <3> HIDE DEF k
    <3>3. tmp' = Put(tmp, n, d, k)
      BY <3>1 DEF k
    <3> QED BY <3>2, <3>3, <1>1, PutPositive
  <2> QED BY <2>1, <2>2
<1>3. PositiveCalls'
  <2>1. PICK state \in {"sent", "unsent"} :
          call' = [call EXCEPT ![p] = [doc |-> d, node |-> n, version |-> v,
                     known |-> known, trans |-> NoTrans, state |-> state]]
    BY DEF SetValues
  <2>2. v > 0
    OBVIOUS
  <2> QED BY <2>1, <2>2, CallPositive
<1> QED BY <1>2, <1>3 DEF VersionsPositive

\* The first half of a retry. The event thread knows the version of the node
\* when there is one.
LEMMA RetryPositive ==
  ASSUME TypeOK, VersionsPositive, NEW p \in Threads, NEW n \in Nat \cup {Null},
         NEW d \in Docs \cup {Root}, NEW known \in Nat, Retry(p, n, d, known),
         p = "event" /\ n \in DOMAIN tmp => known > 0
  PROVE  VersionsPositive'
<1> DEFINE m == Put(tmp, n, d, Exhausted(tmp[n]))
           begun == [NoCall EXCEPT !.doc = d, !.node = n, !.known = known, !.state = "check"]
<1>1. \/ tmp' = GiveUp(p, tmp, n, d, known) /\ UNCHANGED call
      \/ tmp' = GiveUp(p, m, n, d, known) /\ UNCHANGED call
      \/ UNCHANGED tmp /\ n \in DOMAIN tmp /\ call' = [call EXCEPT ![p] = begun]
  BY DEF Retry
<1>2. PositiveList(tmp)
  BY DEF VersionsPositive
<1>3. ASSUME Here(tmp, n, d)
      PROVE  /\ Exhausted(tmp[n]) \in NodeType
             /\ Exhausted(tmp[n]).name # Root => Exhausted(tmp[n]).version > 0
  <2>1. tmp[n] \in NodeType /\ (tmp[n].name # Root => tmp[n].version > 0)
    BY <1>2, <1>3 DEF Here, PositiveList, Positive, NodeList
  <2>2. Exhausted(tmp[n]).name = tmp[n].name /\ Exhausted(tmp[n]).version = tmp[n].version
    BY <2>1 DEF Exhausted, Updated, NodeType
  <2> QED BY <2>1, <2>2, ExhaustedType
<1>4. PositiveList(m) /\ DOMAIN m = DOMAIN tmp
  BY <1>2, <1>3, PutPositive DEF Put
<1>5. p = "event" /\ Here(tmp, n, d) => known > 0
  BY DEF Here
<1>6. p = "event" /\ Here(m, n, d) => known > 0
  BY <1>4 DEF Here
<1>7. begun.state = "check" /\ begun.known = known
  BY DEF NoCall
<1> HIDE DEF m, begun
<1>8. PositiveList(tmp')
  BY <1>1, <1>2, <1>4, <1>5, <1>6, GiveUpPositive
<1>9. PositiveCalls'
  <2>1. CASE UNCHANGED call
    BY <2>1 DEF PositiveCalls, VersionsPositive
  <2>2. CASE n \in DOMAIN tmp /\ call' = [call EXCEPT ![p] = begun]
    BY <1>7, <2>2, CallPositive DEF Versioned
  <2> QED BY <1>1, <2>1, <2>2
<1> QED BY <1>8, <1>9 DEF VersionsPositive

LEMMA RetrySendPositive ==
  ASSUME TypeOK, VersionsPositive, NEW p \in Threads, RetrySend(p)
  PROVE  VersionsPositive'
<1> DEFINE c == call[p]
           m == [tmp[c.node] EXCEPT !.retry_count = @ + 1]
           Garbled(a) == Updated(m, mp[a].version, "failed", "decode_failed",
                                 OwnCode, NoTrans, FALSE)
           Resent(a) == IF c.doc \in ScalarDocs THEN m
                          ELSE Updated(m, mp[a].version, "pending",
                                       "failed_retrying", 0, NoTrans, TRUE)
           Fails(u) == /\ tmp' = GiveUp(p, u, c.node, c.doc, c.known)
                       /\ call' = [call EXCEPT ![p] = NoCall]
           Good(n) == n \in NodeType /\ (n.name # Root => n.version > 0)
<1>1. \/ Fails(Put(tmp, c.node, c.doc, m))
      \/ \E a \in Named(mp, c.doc) :
           \/ Fails(Put(tmp, c.node, c.doc, Garbled(a)))
           \/ SetValues(p, c.doc, c.node, Resent(a), mp[a].version, c.known)
  BY DEF RetrySend
<1>2. /\ c.known \in Nat /\ c.state = "check"
      /\ p = "event" => c.known > 0
  BY CallKnown DEF RetrySend, VersionsPositive, PositiveCalls, Retries
<1>3. PositiveList(tmp)
  BY DEF VersionsPositive
<1>4. \A a \in Named(mp, c.doc) : mp[a].version \in Nat \ {0}
  BY DEF Named, TypeOK, PartType
<1>5. Here(tmp, c.node, c.doc) => Good(m)
  <2> HIDE DEF c
  <2> QED BY <1>3 DEF Here, PositiveList, Positive, NodeList, NodeType
<1>6. \A a \in Named(mp, c.doc) :
        Here(tmp, c.node, c.doc) => Good(Garbled(a)) /\ Good(Resent(a))
  <2> SUFFICES ASSUME NEW a \in Named(mp, c.doc), Here(tmp, c.node, c.doc)
               PROVE  Good(Garbled(a)) /\ Good(Resent(a))
    OBVIOUS
  <2> DEFINE w == Updated(m, mp[a].version, "pending", "failed_retrying", 0, NoTrans, TRUE)
  <2>1. Good(m) /\ m \in NodeType /\ mp[a].version \in Nat \ {0}
    BY <1>4, <1>5
  <2> HIDE DEF m
  <2>2. Garbled(a) \in NodeType /\ Garbled(a).version = mp[a].version
    <3>1. Garbled(a).version = mp[a].version
      BY <2>1 DEF Updated, NodeType
    <3> QED BY <2>1, <3>1, ListedValues, UpdatedType
  <2>3. w \in NodeType /\ w.version = mp[a].version
    <3>1. w.version = mp[a].version
      BY <2>1 DEF Updated, NodeType
    <3> QED BY <2>1, <3>1, ListedValues, UpdatedType
  <2> HIDE DEF w, Garbled
  <2>4. Good(Garbled(a)) /\ Good(w)
    BY <2>1, <2>2, <2>3
  <2>5. Resent(a) = m \/ Resent(a) = w
    BY DEF w
  <2> QED BY <2>1, <2>4, <2>5
<1> HIDE DEF m, Garbled, Resent
<1>7. ASSUME NEW u, PositiveList(u), Fails(u)
      PROVE  PositiveList(tmp') /\ PositiveCalls'
  <2>1. PositiveList(tmp')
    BY <1>2, <1>7, GiveUpPositive
  <2>2. PositiveCalls'
    BY <1>7, CallEndsPositive
  <2> QED BY <2>1, <2>2
<1>8. CASE Fails(Put(tmp, c.node, c.doc, m))
  <2>1. PositiveList(Put(tmp, c.node, c.doc, m))
    BY <1>3, <1>5, PutPositive
  <2> QED BY <1>7, <1>8, <2>1 DEF VersionsPositive
<1>9. ASSUME NEW a \in Named(mp, c.doc), Fails(Put(tmp, c.node, c.doc, Garbled(a)))
      PROVE  VersionsPositive'
  <2>1. PositiveList(Put(tmp, c.node, c.doc, Garbled(a)))
    BY <1>3, <1>6, PutPositive
  <2> QED BY <1>7, <1>9, <2>1 DEF VersionsPositive
<1>10. ASSUME NEW a \in Named(mp, c.doc),
              SetValues(p, c.doc, c.node, Resent(a), mp[a].version, c.known)
       PROVE  VersionsPositive'
  <2>1. Here(tmp, c.node, c.doc) => Good(Resent(a))
    BY <1>6
  <2>2. mp[a].version \in Nat \ {0}
    BY <1>4
  <2> HIDE DEF c
  <2> QED BY <1>2, <1>3, <1>10, <2>1, <2>2, SetValuesPositive
<1> QED BY <1>1, <1>8, <1>9, <1>10

LEMMA AddToTmpListPositive ==
  ASSUME TypeOK, VersionsPositive, AddToTmpList PROVE VersionsPositive'
<1> DEFINE t == IF supp THEN tmp ELSE SetRoot(tmp, RootVersion, "pending")
           S == {a \in Subdocs(t) : OfThisSync(t[a].name)}
           u == DeleteEach(t, S)
           root == [a \in IF u = Empty /\ mp # Empty THEN {0} ELSE {}
                      |-> Node(Root, RootVersion, "pending")]
           new == [a \in {x \in DOMAIN mp : OfThisSync(mp[x].name)} |->
                      Node(mp[a].name, mp[a].version, "pending_apply")]
<1>1. tmp' = Join(u, Join(root, new)) /\ UNCHANGED call
  BY DEF AddToTmpList
<1>2. TypeOK'
  BY AddToTmpListType
<1>3. NodeList(tmp') /\ DOMAIN tmp' \subseteq Nat
  <2>1. tmp' \in [DOMAIN tmp' -> NodeType]
    BY <1>2 DEF TypeOK
  <2>2. DOMAIN tmp' \subseteq 0..top' /\ top' \in Nat
    BY <1>2 DEF TypeOK
  <2> QED BY <2>1, <2>2 DEF NodeList
<1>4. PositiveList(t)
  <2>1. RootVersion \in Nat /\ "pending" \in Statuses
    BY ListedValues DEF RootVersion, TypeOK
  <2> QED BY <2>1, SetRootPositive DEF VersionsPositive
<1>5. Positive(u)
  <2>1. \A a \in DOMAIN u : a \in DOMAIN t /\ u[a] = t[a]
    BY <1>4, DeleteEachType DEF PositiveList
  <2> HIDE DEF u
  <2> QED BY <1>4, <2>1 DEF PositiveList, Positive
<1>6. Positive(root)
  BY DEF Positive, Node
<1>7. Positive(new)
  <2>1. \A a \in DOMAIN mp : mp[a].version \in Nat \ {0}
    BY DEF TypeOK, PartType
  <2> QED BY <2>1 DEF Positive, Node
<1> HIDE DEF t, S, u, root, new
<1>8. Positive(tmp')
  BY <1>1, <1>5, <1>6, <1>7 DEF Positive, Join
<1> QED BY <1>1, <1>3, <1>8 DEF VersionsPositive, PositiveList, PositiveCalls

LEMMA SendDocPositive ==
  ASSUME TypeOK, VersionsPositive, SendDoc PROVE VersionsPositive'
<1> DEFINE m(a, n) == Updated(tmp[n], mp[a].version, "pending", "none", 0, NoTrans, FALSE)
           k(a, n) == [m(a, n) EXCEPT !.retry_count = 1]
<1>1. PICK a \in Applicable : \E n \in Pointer(tmp, mp[a].name) :
        SetValues("sync", mp[a].name, n, k(a, n), mp[a].version, 0)
  BY DEF SendDoc
<1>2. PICK n \in Pointer(tmp, mp[a].name) :
        SetValues("sync", mp[a].name, n, k(a, n), mp[a].version, 0)
  BY <1>1
<1>3. a \in DOMAIN mp /\ n \in DOMAIN tmp
  BY ApplicableNode
<1>4. mp[a].version \in Nat \ {0} /\ tmp[n] \in NodeType
  BY <1>3 DEF TypeOK, PartType
<1>5. m(a, n) \in NodeType /\ m(a, n).version > 0
  <2>1. m(a, n).version = mp[a].version
    BY <1>4 DEF Updated, NodeType
  <2>2. m(a, n) \in NodeType
    BY <1>4, ListedValues, UpdatedType
  <2>3. mp[a].version > 0
    BY <1>4
  <2> HIDE DEF m
  <2> QED BY <2>1, <2>2, <2>3
<1> HIDE DEF m
<1>6. k(a, n) \in NodeType /\ k(a, n).version > 0
  BY <1>5 DEF NodeType
<1> HIDE DEF k
<1> QED BY <1>2, <1>4, <1>6, SetValuesPositive DEF Threads

LEMMA DecodeFailsPositive ==
  ASSUME TypeOK, VersionsPositive, DecodeFails PROVE VersionsPositive'
<1> DEFINE t(a, n) == Put(tmp, n, mp[a].name,
                          Updated(tmp[n], mp[a].version, "failed", "decode_failed",
                                  OwnCode, NoTrans, FALSE))
<1>1. PICK a \in Applicable : \E n \in Pointer(tmp, mp[a].name) : tmp' = t(a, n)
  BY DEF DecodeFails
<1>2. PICK n \in Pointer(tmp, mp[a].name) : tmp' = t(a, n)
  BY <1>1
<1>3. a \in DOMAIN mp
  BY ApplicableNode
<1>4. mp[a].version \in Nat \ {0} /\ PositiveList(tmp)
  BY <1>3 DEF TypeOK, PartType, VersionsPositive
<1>5. PositiveList(tmp')
  BY <1>2, <1>4, ListedValues, PutUpdatedPositive
<1> QED BY <1>5 DEF DecodeFails, VersionsPositive, PositiveCalls

LEMMA RefreshPositive ==
  ASSUME TypeOK, VersionsPositive, Refresh PROVE VersionsPositive'
<1>1. PICK v : call' = [call EXCEPT !["sync"] = [NoCall EXCEPT !.version = v, !.state = "derived"]]
  BY DEF Refresh
<1>2. [NoCall EXCEPT !.version = v, !.state = "derived"].state = "derived"
  BY DEF NoCall
<1>3. PositiveCalls'
  BY <1>1, <1>2, CallPositive DEF Versioned, Retries, Threads
<1> QED BY <1>3 DEF Refresh, VersionsPositive

\* A scalar document that setValues has applied, and the loop's counting.
LEMMA AppliedPositive ==
  ASSUME TypeOK, VersionsPositive, NEW p \in Threads, call[p].state = "sent",
         Applied(p)
  PROVE  VersionsPositive'
<1> DEFINE c == call[p]
<1>1. c.version \in Nat \ {0} /\ PositiveList(tmp)
  BY CallKnown DEF VersionsPositive, PositiveCalls, Versioned
<1>2. PositiveList(tmp')
  BY <1>1, ListedValues, PutUpdatedPositive DEF Applied
<1>3. PositiveCalls'
  BY <1>1, GoesPositive DEF Applied, Retries
<1> QED BY <1>2, <1>3 DEF VersionsPositive

LEMMA PassedPositive ==
  ASSUME TypeOK, VersionsPositive, NEW b, NEW n, Passed(b, n), UNCHANGED tmp
  PROVE  VersionsPositive'
<1>1. Goes("sync", "drop") \/ Goes("sync", "none")
  BY DEF Passed
<1>2. PositiveCalls'
  BY <1>1, GoesPositive DEF Retries, Threads
<1> QED BY <1>2 DEF VersionsPositive

LEMMA MarkPositive ==
  ASSUME TypeOK, VersionsPositive, NEW p \in Threads, Mark(p)
  PROVE  VersionsPositive'
<1> DEFINE c == call[p]
           marked == Put(tmp, c.node, c.doc, Updated(tmp[c.node], c.version,
                           "success", "none", 0, c.trans, FALSE))
           refused == Put(tmp, c.node, c.doc, Updated(tmp[c.node], c.version,
                            "failed", "NACK", OwnCode, c.trans, FALSE))
<1>1. /\ tmp' = marked \/ tmp' = refused
      /\ c.state \in {"valid", "refused"}
      /\ Goes(p, "marked") \/ Goes(p, "none")
  BY DEF Mark
<1>2. c.version \in Nat \ {0} /\ PositiveList(tmp) /\ c.trans \in Trans
  BY <1>1, CallKnown DEF VersionsPositive, PositiveCalls, Versioned
<1>3. PositiveCalls'
  BY <1>1, <1>2, GoesPositive DEF Retries
<1> HIDE DEF c
<1>4. PositiveList(marked) /\ PositiveList(refused)
  BY <1>2, ListedValues, PutUpdatedPositive
<1> QED BY <1>1, <1>3, <1>4 DEF VersionsPositive

\* The other steps of a recording thread.
LEMMA RecordStepPositive ==
  ASSUME TypeOK, VersionsPositive, NEW p \in Threads, RecordStep(p)
  PROVE  VersionsPositive'
<1>1. PositiveList(tmp)
  BY DEF VersionsPositive
<1>2. ASSUME UNCHANGED tmp, NEW s \in States, Goes(p, s),
             s \notin Retries, s \notin {"valid", "refused", "marked"}
      PROVE  VersionsPositive'
  BY <1>2, GoesPositive DEF VersionsPositive
<1>3. CASE Record(p)
  <2>1. UNCHANGED tmp /\ (Goes(p, "rooted") \/ Goes(p, "save") \/ Goes(p, "saved"))
    BY <1>3 DEF Record
  <2> QED BY <1>2, <2>1 DEF States, Retries
<1>4. CASE RecordRoot(p)
  <2> DEFINE r == [call[p] EXCEPT !.version = etag, !.state = "rootdb"]
  <2>1. UNCHANGED tmp /\ call' = [call EXCEPT ![p] = r]
    BY <1>4 DEF RecordRoot
  <2>2. call[p] \in CallType
    BY DEF TypeOK
  <2>3. r.state = "rootdb"
    BY <2>2 DEF CallType
  <2> HIDE DEF r
  <2>4. PositiveCalls'
    BY <2>1, <2>3, CallPositive DEF Versioned, Retries
  <2> QED BY <2>1, <2>4 DEF VersionsPositive
<1>5. CASE MarkRoot(p)
  <2>1. call[p].version \in Nat
    BY CallKnown
  <2>2. PositiveList(SetRoot(tmp, call[p].version, "success"))
    BY <1>1, <2>1, ListedValues, SetRootPositive
  <2>3. PositiveList(tmp')
    BY <1>1, <1>5, <2>2 DEF MarkRoot
  <2>4. Goes(p, "saved") \/ Goes(p, "save")
    BY <1>5 DEF MarkRoot
  <2>5. PositiveCalls'
    BY <2>4, GoesPositive DEF Retries
  <2> QED BY <2>3, <2>5 DEF VersionsPositive
<1>6. CASE Save(p)
  <2>1. UNCHANGED tmp /\ (Goes(p, "none") \/ Goes(p, "saved"))
    BY <1>6 DEF Save
  <2> QED BY <1>2, <2>1 DEF States, Retries
<1>7. CASE CheckDelete(p) \/ DeleteMultipart(p)
  <2>1. UNCHANGED tmp /\ (Goes(p, "none") \/ Goes(p, "drop") \/ Goes(p, "save"))
    BY <1>7 DEF CheckDelete, DeleteMultipart, AfterDelete
  <2> QED BY <1>2, <2>1 DEF States, Retries
<1>8. CASE DeleteTmpList(p)
  <2>1. tmp' = Empty /\ (Goes(p, "none") \/ Goes(p, "free"))
    BY <1>8 DEF DeleteTmpList
  <2>2. PositiveCalls'
    BY <2>1, GoesPositive DEF Retries
  <2> QED BY <2>1, <2>2, EmptyPositive DEF VersionsPositive
<1> QED BY <1>3, <1>4, <1>5, <1>6, <1>7, <1>8, MarkPositive DEF RecordStep

LEMMA StoreRootPositive ==
  ASSUME TypeOK, VersionsPositive, StoreRoot PROVE VersionsPositive'
<1>1. UNCHANGED tmp /\ (Goes("sync", "save") \/ Goes("sync", "none"))
  BY DEF StoreRoot
<1>2. PositiveCalls'
  BY <1>1, GoesPositive DEF Retries, Threads
<1> QED BY <1>1, <1>2 DEF VersionsPositive

LEMMA LoopRecordsPositive ==
  ASSUME TypeOK, VersionsPositive, LoopRecords PROVE VersionsPositive'
BY PassedPositive DEF LoopRecords

LEMMA SetSucceedsPositive ==
  ASSUME TypeOK, VersionsPositive, SetSucceeds PROVE VersionsPositive'
BY AppliedPositive, PassedPositive DEF SetSucceeds, Threads

LEMMA SetFailsPositive ==
  ASSUME TypeOK, VersionsPositive, NEW code \in FailCodes, SetFails(code)
  PROVE  VersionsPositive'
<1> DEFINE c == call["sync"]
           later == code \in {Crash, NotThere}
           details == IF Unsupported(c.doc, code) THEN "doc_unsupported"
                      ELSE IF later THEN "failed_retrying" ELSE "doc_rejected"
           t == Put(tmp, c.node, c.doc, Updated(tmp[c.node], c.version, "failed",
                                                details, code, NoTrans, later))
<1>1. tmp' = t /\ (Goes("sync", "rooted") \/ Goes("sync", "none"))
  BY DEF SetFails
<1>2. c.version \in Nat \ {0} /\ PositiveList(tmp)
  BY CallKnown DEF SetFails, MayFail, VersionsPositive, PositiveCalls, Versioned, Threads
<1>3. details \in Details /\ code \in Codes /\ later \in BOOLEAN
  BY ListedValues
<1> HIDE DEF c, details, later
<1>4. PositiveList(t)
  BY <1>2, <1>3, ListedValues, PutUpdatedPositive
<1> HIDE DEF t
<1>5. PositiveList(tmp')
  BY <1>1, <1>4
<1>6. PositiveCalls'
  BY <1>1, GoesPositive DEF Retries, Threads
<1> QED BY <1>5, <1>6 DEF VersionsPositive

LEMMA RetrySucceedsPositive ==
  ASSUME TypeOK, VersionsPositive, NEW p \in Threads, RetrySucceeds(p)
  PROVE  VersionsPositive'
<1>1. CASE Applied(p)
  BY <1>1, AppliedPositive DEF RetrySucceeds
<1>2. CASE Goes(p, "none") /\ UNCHANGED tmp
  <2>1. PositiveCalls'
    BY <1>2, GoesPositive DEF Retries
  <2> QED BY <1>2, <2>1 DEF VersionsPositive
<1> QED BY <1>1, <1>2 DEF RetrySucceeds

LEMMA RetryFailsPositive ==
  ASSUME TypeOK, VersionsPositive, NEW p \in Threads, NEW code \in FailCodes,
         RetryFails(p, code)
  PROVE  VersionsPositive'
<1> DEFINE c == call[p]
           later == code \in {Crash, NotThere}
           again == Put(tmp, c.node, c.doc, Updated(tmp[c.node], c.version,
                          "pending", "failed_retrying", code, NoTrans, TRUE))
           rejected == Put(tmp, c.node, c.doc, Updated(tmp[c.node], c.version,
                             "failed", "doc_rejected", code, NoTrans, FALSE))
<1>1. /\ tmp' = GiveUp(p, IF later THEN again ELSE rejected, c.node, c.doc, c.known)
      /\ call' = [call EXCEPT ![p] = NoCall]
  BY DEF RetryFails
<1>2. c.version \in Nat \ {0} /\ PositiveList(tmp) /\ code \in Codes
  BY CallKnown, ListedValues DEF RetryFails, MayFail, VersionsPositive, PositiveCalls, Versioned, Retries
<1>3. c.known \in Nat /\ (p = "event" => c.known > 0)
  BY CallKnown DEF RetryFails, MayFail, VersionsPositive, PositiveCalls, Versioned, Retries
<1> HIDE DEF c, later
<1>4. PositiveList(again) /\ PositiveList(rejected)
  BY <1>2, ListedValues, PutUpdatedPositive
<1> HIDE DEF again, rejected
<1>5. PositiveList(tmp')
  BY <1>1, <1>3, <1>4, GiveUpPositive
<1>6. PositiveCalls'
  BY <1>1, CallEndsPositive
<1> QED BY <1>5, <1>6 DEF VersionsPositive

LEMMA RetryNextPositive ==
  ASSUME TypeOK, VersionsPositive, RetryNext PROVE VersionsPositive'
<1>1. PICK a \in Retryable : Retry("sync", a, tmp[a].name, 0)
  BY DEF RetryNext
<1>2. a \in Nat /\ tmp[a].name \in Docs \cup {Root}
  BY DEF Retryable, TypeOK, NodeType
<1> QED BY <1>1, <1>2, RetryPositive DEF Threads

LEMMA ReleaseSuccessDocsPositive ==
  ASSUME TypeOK, VersionsPositive, ReleaseSuccessDocs PROVE VersionsPositive'
<1>1. PICK S : tmp' = DeleteEach(tmp, S)
  BY DEF ReleaseSuccessDocs
<1>2. NodeList(tmp') /\ DOMAIN tmp' \subseteq DOMAIN tmp
      /\ \A a \in DOMAIN tmp' : tmp'[a] = tmp[a]
  BY <1>1, DeleteEachType, TypeList
<1>3. PositiveList(tmp')
  BY <1>2 DEF VersionsPositive, PositiveList, Positive
<1> QED BY <1>3 DEF ReleaseSuccessDocs, VersionsPositive, PositiveCalls

\* The node that getTmpNode finds for an event.
LEMMA EventNode ==
  ASSUME TypeOK, VersionsPositive, NEW e \in EventType,
         NEW n \in Pointer(tmp, e.doc), n \in DOMAIN tmp
  PROVE  tmp[n].name = e.doc /\ tmp[n].version \in Nat \ {0}
<1>1. n # Null
  BY TypeList DEF Null
<1>2. tmp[n].name = e.doc /\ e.doc # Root
  BY <1>1, PointerType, DocsAssumption DEF EventType
<1>3. tmp[n].version \in Nat /\ tmp[n].version > 0
  BY <1>2 DEF TypeOK, NodeType, VersionsPositive, PositiveList, Positive
<1> QED BY <1>2, <1>3

\* An answer that fits its node, on the way to Mark.
LEMMA SettlesPositive ==
  ASSUME TypeOK, VersionsPositive, NEW e, NEW n, NEW s, Settles(e, n, s),
         s \in {"valid", "refused"}, e.version > 0, UNCHANGED tmp
  PROVE  VersionsPositive'
<1>1. PositiveCalls'
  BY CallPositive DEF Settles, Retries, Threads
<1> QED BY <1>1 DEF VersionsPositive

LEMMA HandleEventPositive ==
  ASSUME TypeOK, VersionsPositive, HandleEvent PROVE VersionsPositive'
<1> DEFINE e == Head(events)
<1>1. e \in EventType
  <2>1. events \in Seq(EventType) /\ events # <<>>
    BY DEF TypeOK, HandleEvent
  <2> QED BY <2>1
<1>2. PICK n \in Pointer(tmp, e.doc) :
        \/ HandleAck(e, n) \/ HandleNack(e, n) \/ HandleTimeout(e, n)
        \/ HandleExpire(e, n) \/ HandleInit(e, n)
  BY DEF HandleEvent
<1> HIDE DEF e
<1>3. n \in Nat \cup {Null}
  BY PointerInList
<1>4. n \in DOMAIN tmp => tmp[n].name = e.doc /\ tmp[n].version \in Nat \ {0}
  BY <1>1, EventNode
<1>5. TmpVersion(n) \in Nat /\ (n \in DOMAIN tmp => TmpVersion(n) > 0)
  BY <1>4 DEF TmpVersion
<1>6. e.doc \in Docs \cup {Root} /\ "event" \in Threads
  BY <1>1 DEF EventType, Threads
<1>7. ASSUME UNCHANGED <<tmp, call>> PROVE VersionsPositive'
  BY <1>7 DEF VersionsPositive, PositiveCalls
<1>8. ASSUME Retry("event", n, e.doc, TmpVersion(n)) PROVE VersionsPositive'
  BY <1>3, <1>5, <1>6, <1>8, RetryPositive
<1>9. ASSUME n \in DOMAIN tmp, tmp[n].version = e.version, UNCHANGED tmp,
             Settles(e, n, "valid") \/ Settles(e, n, "refused")
      PROVE  VersionsPositive'
  BY <1>4, <1>9, SettlesPositive
<1>10. CASE HandleAck(e, n)
  BY <1>7, <1>9, <1>10 DEF HandleAck, Valid
<1>11. CASE HandleNack(e, n)
  BY <1>7, <1>9, <1>11 DEF HandleNack, Valid
<1>12. CASE HandleTimeout(e, n)
  BY <1>7, <1>12 DEF HandleTimeout
<1>13. CASE HandleExpire(e, n)
  BY <1>7, <1>8, <1>13 DEF HandleExpire
<1>14. CASE HandleInit(e, n)
  <2>1. \/ /\ n \in DOMAIN tmp /\ TmpVersion(n) = e.version
           /\ Settles(e, n, "valid") /\ UNCHANGED tmp
        \/ Retry("event", n, e.doc, TmpVersion(n))
        \/ UNCHANGED <<tmp, call>>
    BY <1>14 DEF HandleInit
  <2> QED BY <1>7, <1>8, <1>9, <2>1 DEF TmpVersion
<1> QED BY <1>2, <1>10, <1>11, <1>12, <1>13, <1>14

LEMMA NextPositive ==
  ASSUME TypeOK, VersionsPositive, [Next]_vars PROVE VersionsPositive'
<1>1. ASSUME UNCHANGED <<tmp, call>> PROVE VersionsPositive'
  BY <1>1 DEF VersionsPositive, PositiveCalls
<1>2. CASE \/ Refresh \/ (\E b \in Bundles : Fetch(b)) \/ StartFailedDocsRetry
           \/ UNCHANGED vars
  BY <1>1, <1>2, RefreshPositive DEF Fetch, StartFailedDocsRetry, vars
<1>3. CASE ReleaseSuccessDocs
  BY <1>3, ReleaseSuccessDocsPositive
<1>4. CASE SyncStep
  <2>1. CASE AddToTmpList \/ SendDoc \/ DecodeFails
    BY <2>1, AddToTmpListPositive, SendDocPositive, DecodeFailsPositive
  <2>2. CASE SetSucceeds \/ \E code \in FailCodes : SetFails(code)
    BY <2>2, SetSucceedsPositive, SetFailsPositive
  <2>3. CASE \/ RetrySucceeds("sync") \/ RetrySend("sync") \/ RetryNext
             \/ \E code \in FailCodes : RetryFails("sync", code)
    BY <2>3, RetrySucceedsPositive, RetrySendPositive, RetryFailsPositive,
       RetryNextPositive DEF Threads
  <2>4. CASE ParseFails \/ Parse \/ EndLoop \/ NotYetDue \/ EndFailedDocsRetry
    BY <1>1, <2>4 DEF ParseFails, Parse, EndLoop, NotYetDue, EndFailedDocsRetry
  <2>5. CASE NoBundle
    BY <1>1, <2>5 DEF NoBundle
  <2>6. CASE StoreRoot \/ LoopRecords \/ RecordStep("sync")
    BY <2>6, StoreRootPositive, LoopRecordsPositive, RecordStepPositive DEF Threads
  <2> QED BY <1>4, <2>1, <2>2, <2>3, <2>4, <2>5, <2>6 DEF SyncStep
<1>5. CASE EventStep
  BY <1>5, HandleEventPositive, RecordStepPositive, RetrySucceedsPositive, RetrySendPositive,
     RetryFailsPositive DEF EventStep, Threads
<1>6. CASE TimerStep
  BY <1>1, <1>6 DEF TimerStep, TimerExpires, TimerCheck
<1>7. CASE ComponentStep
  BY <1>1, <1>7 DEF ComponentStep, ComponentAccepts, ComponentRefuses,
     ComponentNeedsTime, ComponentRestarts
<1> QED BY <1>2, <1>3, <1>4, <1>5, <1>6, <1>7 DEF Next

LEMMA InitPositive == Init => VersionsPositive
BY EmptyPositive DEF Init, VersionsPositive, PositiveCalls, NoCall, Versioned, Retries, Threads

-----------------------------------------------------------------------------
(* The database records only what components have accepted.                  *)

\* What an answer says of the version it carries, of those accepted so far.
Truthful(e, accepted) ==
  /\ e.kind = "ACK" => e.version \in accepted[e.doc]
  /\ e.kind = "INIT" => e.version = 0 \/ e.version \in accepted[e.doc]
AnswersTrue == \A i \in 1..Len(events) : Truthful(events[i], applied)
RunningTrue == \A d \in Docs : running[d] = 0 \/ running[d] \in applied[d]
AppliedGrows == \A d \in Docs : applied[d] \subseteq applied'[d]
\* A thread records what a component has accepted.
Recording == {"valid", "marked"}
CallTrue(c, accepted) ==
  c.state \in Recording => c.doc \in Docs /\ c.version \in accepted[c.doc]
CallsTrue == \A p \in Threads : CallTrue(call[p], applied)
Truth == DBTruth /\ AnswersTrue /\ RunningTrue /\ CallsTrue

LEMMA TruthfulGrows ==
  ASSUME AppliedGrows, NEW e \in EventType, Truthful(e, applied)
  PROVE  Truthful(e, applied')
BY DEF Truthful, EventType, AppliedGrows

LEMMA AnswersKept ==
  ASSUME TypeOK, AnswersTrue, AppliedGrows,
         events' = events \/ (events # <<>> /\ events' = Tail(events))
  PROVE  AnswersTrue'
<1>1. \A i \in 1..Len(events) : events[i] \in EventType
  BY DEF TypeOK
<1>2. \A i \in 1..Len(events) : Truthful(events[i], applied')
  BY <1>1, TruthfulGrows DEF AnswersTrue
<1>3. CASE events' = events
  BY <1>2, <1>3 DEF AnswersTrue
<1>4. CASE events # <<>> /\ events' = Tail(events)
  <2>1. events \in Seq(EventType)
    BY DEF TypeOK
  <2>2. /\ Len(events') = Len(events) - 1 /\ Len(events) \in Nat
        /\ \A i \in 1..Len(events') : events'[i] = events[i + 1]
    BY <1>4, <2>1
  <2>3. \A i \in 1..Len(events') : i + 1 \in 1..Len(events)
    BY <2>2
  <2> QED BY <1>2, <2>2, <2>3 DEF AnswersTrue
<1> QED BY <1>3, <1>4

LEMMA AnswersAdded ==
  ASSUME TypeOK, AnswersTrue, AppliedGrows, NEW kind \in Kinds, NEW d \in Docs,
         NEW x, NEW v, NEW code, Event(kind, d, x, v, code),
         kind = "ACK" => v \in applied'[d],
         kind = "INIT" => v = 0 \/ v \in applied'[d]
  PROVE  AnswersTrue'
<1> DEFINE new == [kind |-> kind, doc |-> d, trans_id |-> x, version |-> v, code |-> code]
<1>1. events \in Seq(EventType) /\ events' = Append(events, new)
  BY DEF TypeOK, Event
<1>2. Truthful(new, applied')
  BY DEF Truthful
<1> HIDE DEF new
<1>3. ASSUME NEW i \in 1..Len(events') PROVE Truthful(events'[i], applied')
  <2>1. CASE i \in 1..Len(events)
    <3>1. events'[i] = events[i] /\ events[i] \in EventType
      BY <1>1, <2>1
    <3> QED BY <2>1, <3>1, TruthfulGrows DEF AnswersTrue
  <2>2. CASE i = Len(events) + 1
    <3>1. events'[i] = new
      BY <1>1, <2>2
    <3> QED BY <1>2, <3>1
  <2>3. Len(events') = Len(events) + 1 /\ Len(events) \in Nat
    BY <1>1
  <2> QED BY <2>1, <2>2, <2>3
<1> QED BY <1>3 DEF AnswersTrue

\* The call of one thread changes.
LEMMA CallsKept ==
  ASSUME TypeOK, CallsTrue, AppliedGrows, NEW p \in Threads, NEW r,
         call' = [call EXCEPT ![p] = r], CallTrue(r, applied')
  PROVE  CallsTrue'
<1>1. ASSUME NEW q \in Threads PROVE CallTrue(call'[q], applied')
  <2>1. CASE q = p
    <3>1. call'[q] = r
      BY <2>1 DEF TypeOK
    <3> QED BY <3>1
  <2>2. CASE q # p
    <3>1. call'[q] = call[q]
      BY <2>2 DEF TypeOK
    <3> QED BY <3>1 DEF CallsTrue, CallTrue, AppliedGrows
  <2> QED BY <2>1, <2>2
<1> QED BY <1>1 DEF CallsTrue

LEMMA CallsUnchanged ==
  ASSUME CallsTrue, AppliedGrows, UNCHANGED call PROVE CallsTrue'
BY DEF CallsTrue, CallTrue, AppliedGrows

\* A thread goes on with what it records, or with something else.
LEMMA GoesTrue ==
  ASSUME TypeOK, CallsTrue, AppliedGrows, NEW p \in Threads, NEW s, Goes(p, s),
         s \in Recording => call[p].doc \in Docs /\ call[p].version \in applied'[call[p].doc]
  PROVE  CallsTrue'
<1> DEFINE r == IF s = "none" THEN NoCall ELSE [call[p] EXCEPT !.state = s]
<1>1. call' = [call EXCEPT ![p] = r]
  BY DEF Goes
<1>2. call[p] \in CallType
  BY DEF TypeOK
<1>3. r.state = s /\ (s = "none" \/ (r.version = call[p].version /\ r.doc = call[p].doc))
  BY <1>2 DEF CallType, NoCall
<1> HIDE DEF r
<1>4. CallTrue(r, applied')
  BY <1>3 DEF CallTrue, Recording
<1> QED BY <1>1, <1>4, CallsKept

\* checkDBList with a version that the component has accepted.
LEMMA RecordTrue ==
  ASSUME TypeOK, DBTruth, AppliedGrows, NEW d \in Docs, NEW v, d \notin SuppDocs,
         v \in applied'[d],
         db' = CheckDBList(db, d, v) \/ db' = RootToDB(CheckDBList(db, d, v))
  PROVE  DBTruth'
<1>1. db \in Versions
  BY DEF TypeOK, Versions
<1>2. \A x \in Docs : db'[x] = db[x] \/ (x = d /\ db'[x] = v)
  BY <1>1, DocsAssumption DEF RootToDB, CheckDBList, Versions
<1> QED BY <1>2 DEF DBTruth, AppliedGrows

\* The version of root is nobody's answer.
LEMMA RootTrue ==
  ASSUME TypeOK, DBTruth, AppliedGrows, NEW v,
         db' = db \/ db' = CheckDBList(db, Root, v) \/ db' = RootToDB(db)
  PROVE  DBTruth'
<1>1. db \in Versions
  BY DEF TypeOK, Versions
<1>2. \A x \in Docs : db'[x] = db[x]
  BY <1>1, DocsAssumption DEF RootToDB, CheckDBList, Versions
<1> QED BY <1>2 DEF DBTruth, AppliedGrows

LEMMA TruthKept ==
  ASSUME TypeOK, Truth, AppliedGrows, UNCHANGED running, DBTruth', CallsTrue',
         events' = events \/ (events # <<>> /\ events' = Tail(events))
  PROVE  Truth'
BY AnswersKept DEF Truth, RunningTrue, AppliedGrows

LEMMA RefreshTrue == ASSUME TypeOK, Truth, Refresh PROVE Truth'
<1>1. PICK v : call' = [call EXCEPT !["sync"] = [NoCall EXCEPT !.version = v, !.state = "derived"]]
  BY DEF Refresh
<1>2. CallTrue([NoCall EXCEPT !.version = v, !.state = "derived"], applied')
  BY DEF CallTrue, NoCall, Recording
<1>3. UNCHANGED <<db, applied, running, events>> /\ AppliedGrows
  BY DEF Refresh, AppliedGrows
<1>4. CallsTrue'
  BY <1>1, <1>2, <1>3, CallsKept DEF Truth, Threads
<1> QED BY <1>3, <1>4, TruthKept DEF DBTruth, Truth

LEMMA StoreRootTrue == ASSUME TypeOK, Truth, StoreRoot PROVE Truth'
<1>1. UNCHANGED <<applied, running, events>> /\ AppliedGrows
  BY DEF StoreRoot, AppliedGrows
<1>2. DBTruth'
  BY <1>1, RootTrue DEF StoreRoot, Truth
<1>3. CallsTrue'
  BY <1>1, GoesTrue DEF StoreRoot, Truth, Recording, Threads
<1> QED BY <1>1, <1>2, <1>3, TruthKept

\* A scalar document is accepted when setValues returns.
LEMMA AppliedTrue ==
  ASSUME TypeOK, Truth, NEW p \in Threads, Applied(p), call[p].doc \in ScalarDocs,
         UNCHANGED <<db, running, events>>
  PROVE  Truth'
<1>1. call[p].doc \in Docs /\ applied \in [Docs -> SUBSET Nat]
  BY DocsAssumption DEF TypeOK
<1>2. AppliedGrows /\ call[p].version \in applied'[call[p].doc]
  BY <1>1 DEF Applied, AppliedGrows
<1>3. DBTruth'
  BY <1>2 DEF DBTruth, AppliedGrows, Truth
<1>4. CallsTrue'
  BY <1>1, <1>2, GoesTrue DEF Applied, Truth
<1> QED BY <1>2, <1>3, <1>4, TruthKept

LEMMA PassedTrue ==
  ASSUME TypeOK, Truth, NEW d \in Docs, NEW v, NEW n,
         Passed(db, n) \/ (Passed(CheckDBList(db, d, v), n) /\ d \notin SuppDocs
                             /\ v \in applied[d]),
         UNCHANGED <<applied, running, events>>
  PROVE  Truth'
<1>1. AppliedGrows
  BY DEF AppliedGrows
<1>2. DBTruth'
  BY <1>1, RecordTrue, RootTrue DEF Passed, Truth
<1>3. CallsTrue'
  <2>1. Goes("sync", "drop") \/ Goes("sync", "none")
    BY DEF Passed
  <2> QED BY <1>1, <2>1, GoesTrue DEF Truth, Recording, Threads
<1> QED BY <1>1, <1>2, <1>3, TruthKept

LEMMA SetSucceedsTrue == ASSUME TypeOK, Truth, SetSucceeds PROVE Truth'
<1>1. CASE call["sync"].doc \in ScalarDocs
  BY <1>1, AppliedTrue DEF SetSucceeds, Threads
<1>2. CASE call["sync"].doc \notin ScalarDocs
  <2>1. UNCHANGED <<applied, running, events>> /\ AppliedGrows
    BY <1>2 DEF SetSucceeds, AppliedGrows
  <2>2. Passed(db, success)
    BY <1>2 DEF SetSucceeds
  <2>3. DBTruth'
    BY <2>1, <2>2, RootTrue DEF Passed, Truth
  <2>4. CallsTrue'
    <3>1. Goes("sync", "drop") \/ Goes("sync", "none")
      BY <2>2 DEF Passed
    <3> QED BY <2>1, <3>1, GoesTrue DEF Truth, Recording, Threads
  <2> QED BY <2>1, <2>3, <2>4, TruthKept
<1> QED BY <1>1, <1>2

LEMMA LoopRecordsTrue == ASSUME TypeOK, Truth, LoopRecords PROVE Truth'
<1> DEFINE c == call["sync"]
<1>1. c.doc \in Docs /\ c.version \in applied[c.doc]
  BY DEF LoopRecords, Truth, CallsTrue, CallTrue, Recording, Threads
<1>2. /\ \/ Passed(CheckDBList(db, c.doc, c.version), success + 1) /\ c.doc \notin SuppDocs
         \/ Passed(db, success)
      /\ UNCHANGED <<applied, running, events>>
  BY DEF LoopRecords, IsPrimary
<1> HIDE DEF c
<1> QED BY <1>1, <1>2, PassedTrue

\* What a recording thread does.
LEMMA RecordStepTrue ==
  ASSUME TypeOK, Truth, NEW p \in Threads, RecordStep(p) PROVE Truth'
<1> DEFINE c == call[p]
<1>1. UNCHANGED <<applied, running, events>> /\ AppliedGrows
  BY DEF RecordStep, Mark, Record, RecordRoot, MarkRoot, Save, CheckDelete,
     DeleteTmpList, DeleteMultipart, AppliedGrows
<1>2. c.state \in Recording => c.doc \in Docs /\ c.version \in applied'[c.doc]
  BY <1>1 DEF Truth, CallsTrue, CallTrue
<1>3. ASSUME NEW s, Goes(p, s), s \in Recording => c.state \in Recording, DBTruth'
      PROVE  Truth'
  <2>1. CallsTrue'
    BY <1>1, <1>2, <1>3, GoesTrue DEF Truth
  <2> QED BY <1>1, <1>3, <2>1, TruthKept
<1>4. ASSUME UNCHANGED db PROVE DBTruth'
  BY <1>1, <1>4 DEF DBTruth, Truth
<1>5. CASE Mark(p)
  BY <1>3, <1>4, <1>5 DEF Mark, Recording
<1>6. CASE Record(p)
  <2>1. c.doc \in Docs /\ c.version \in applied'[c.doc]
    BY <1>2, <1>6 DEF Record, Recording
  <2>2. \/ db' = CheckDBList(db, c.doc, c.version) /\ c.doc \notin SuppDocs
        \/ UNCHANGED db
    BY <1>6 DEF Record, IsPrimary
  <2>3. DBTruth'
    <3> HIDE DEF c
    <3> QED BY <1>1, <1>4, <2>1, <2>2, RecordTrue DEF Truth
  <2>4. Goes(p, "rooted") \/ Goes(p, "save") \/ Goes(p, "saved")
    BY <1>6 DEF Record
  <2> QED BY <1>3, <2>3, <2>4 DEF Recording
<1>7. CASE RecordRoot(p)
  <2> DEFINE r == [call[p] EXCEPT !.version = etag, !.state = "rootdb"]
  <2>1. call' = [call EXCEPT ![p] = r] /\ db' = RootToDB(db)
    BY <1>7 DEF RecordRoot
  <2>2. call[p] \in CallType
    BY DEF TypeOK
  <2>3. r.state = "rootdb"
    BY <2>2 DEF CallType
  <2> HIDE DEF r
  <2>4. CallsTrue'
    BY <1>1, <2>1, <2>3, CallsKept DEF Truth, CallTrue, Recording
  <2>5. DBTruth'
    BY <1>1, <2>1, RootTrue DEF Truth
  <2> QED BY <1>1, <2>4, <2>5, TruthKept
<1>8. CASE MarkRoot(p) \/ Save(p) \/ CheckDelete(p) \/ DeleteTmpList(p) \/ DeleteMultipart(p)
  <2>1. PICK s : Goes(p, s) /\ s \notin Recording
    BY <1>8 DEF MarkRoot, Save, CheckDelete, DeleteTmpList, DeleteMultipart,
       AfterDelete, Recording
  <2>2. UNCHANGED db
    BY <1>8 DEF MarkRoot, Save, CheckDelete, DeleteTmpList, DeleteMultipart
  <2> QED BY <1>3, <1>4, <2>1, <2>2
<1> QED BY <1>5, <1>6, <1>7, <1>8 DEF RecordStep

LEMMA SetFailsTrue ==
  ASSUME TypeOK, Truth, NEW code \in FailCodes, SetFails(code) PROVE Truth'
<1>1. UNCHANGED <<db, events, running, applied>> /\ AppliedGrows
  BY DEF SetFails, AppliedGrows
<1>2. DBTruth'
  BY <1>1 DEF DBTruth, Truth
<1>3. Goes("sync", "rooted") \/ Goes("sync", "none")
  BY DEF SetFails
<1>4. CallsTrue'
  BY <1>1, <1>3, GoesTrue DEF Truth, Recording, Threads
<1> QED BY <1>1, <1>2, <1>4, TruthKept

LEMMA RetrySucceedsTrue ==
  ASSUME TypeOK, Truth, NEW p \in Threads, RetrySucceeds(p) PROVE Truth'
<1>1. CASE call[p].doc \in ScalarDocs
  BY <1>1, AppliedTrue DEF RetrySucceeds
<1>2. CASE call[p].doc \notin ScalarDocs
  <2>1. UNCHANGED <<db, events, running, applied>> /\ Goes(p, "none") /\ AppliedGrows
    BY <1>2 DEF RetrySucceeds, AppliedGrows
  <2>2. CallsTrue'
    BY <2>1, GoesTrue DEF Truth, Recording
  <2> QED BY <2>1, <2>2, TruthKept DEF DBTruth, Truth
<1> QED BY <1>1, <1>2

\* A retry that is begun or ends: nothing is recorded by it.
LEMMA RetryTrue ==
  ASSUME TypeOK, Truth, NEW p \in Threads, AppliedGrows,
         \/ \E n, d, known : Retry(p, n, d, known)
         \/ RetrySend(p) \/ (SendDoc /\ p = "sync")
         \/ \E code \in FailCodes : RetryFails(p, code)
  PROVE  CallsTrue'
<1>1. CASE UNCHANGED call
  BY <1>1, CallsUnchanged DEF Truth
<1>2. CASE \E r : call' = [call EXCEPT ![p] = r] /\ r.state \notin Recording
  BY <1>2, CallsKept DEF Truth, CallTrue
<1>3. NoCall.state \notin Recording
  BY DEF NoCall, Recording
<1>4. ASSUME NEW d, NEW n, NEW m, NEW v, NEW known, SetValues(p, d, n, m, v, known)
      PROVE  \E r : call' = [call EXCEPT ![p] = r] /\ r.state \notin Recording
  <2>1. PICK state \in {"sent", "unsent"} :
          call' = [call EXCEPT ![p] = [doc |-> d, node |-> n, version |-> v,
                     known |-> known, trans |-> NoTrans, state |-> state]]
    BY <1>4 DEF SetValues
  <2> DEFINE r == [doc |-> d, node |-> n, version |-> v, known |-> known,
                   trans |-> NoTrans, state |-> state]
  <2>2. call' = [call EXCEPT ![p] = r] /\ r.state \notin Recording
    BY <2>1 DEF Recording
  <2> HIDE DEF r
  <2> QED BY <2>2
<1>5. CASE \E n, d, known : Retry(p, n, d, known)
  <2>1. PICK n, d, known : Retry(p, n, d, known)
    BY <1>5
  <2> DEFINE r == [NoCall EXCEPT !.doc = d, !.node = n, !.known = known, !.state = "check"]
  <2>2. UNCHANGED call \/ call' = [call EXCEPT ![p] = r]
    BY <2>1 DEF Retry
  <2>3. r.state \notin Recording
    BY DEF NoCall, Recording
  <2> QED BY <1>1, <1>2, <2>2, <2>3
<1>6. CASE RetrySend(p)
  <2>1. \/ call' = [call EXCEPT ![p] = NoCall]
        \/ \E d, n, m, v, known : SetValues(p, d, n, m, v, known)
    BY <1>6 DEF RetrySend
  <2> QED BY <1>2, <1>3, <1>4, <2>1
<1>7. CASE SendDoc /\ p = "sync"
  <2>1. \E d, n, m, v, known : SetValues(p, d, n, m, v, known)
    BY <1>7 DEF SendDoc
  <2> QED BY <1>2, <1>4, <2>1
<1>8. CASE \E code \in FailCodes : RetryFails(p, code)
  BY <1>2, <1>3, <1>8 DEF RetryFails
<1> QED BY <1>5, <1>6, <1>7, <1>8

\* An answer that fits its node, on the way to Mark.
LEMMA SettlesTrue ==
  ASSUME TypeOK, Truth, AppliedGrows, NEW e \in EventType, NEW n, NEW s,
         Settles(e, n, s), s \in Recording => e.version \in applied'[e.doc]
  PROVE  CallsTrue'
<1> DEFINE r == [doc |-> e.doc, node |-> n, version |-> e.version, known |-> 0,
                 trans |-> e.trans_id, state |-> s]
<1>1. call' = [call EXCEPT !["event"] = r]
  BY DEF Settles
<1>2. CallTrue(r, applied')
  BY DEF CallTrue, EventType
<1> HIDE DEF r
<1> QED BY <1>1, <1>2, CallsKept DEF Truth, Threads

LEMMA HandleEventTrue ==
  ASSUME TypeOK, VersionsPositive, Truth, HandleEvent PROVE Truth'
<1> DEFINE e == Head(events)
<1>1. e \in EventType /\ Truthful(e, applied) /\ events # <<>> /\ events' = Tail(events)
  <2>1. events \in Seq(EventType) /\ events # <<>> /\ events' = Tail(events)
    BY DEF TypeOK, HandleEvent
  <2>2. e = events[1] /\ 1 \in 1..Len(events)
    BY <2>1
  <2> QED BY <2>1, <2>2 DEF Truth, AnswersTrue
<1>2. PICK n \in Pointer(tmp, e.doc) :
        \/ HandleAck(e, n) \/ HandleNack(e, n) \/ HandleTimeout(e, n)
        \/ HandleExpire(e, n) \/ HandleInit(e, n)
  BY DEF HandleEvent
<1> HIDE DEF e
<1>3. n \in DOMAIN tmp => tmp[n].name = e.doc /\ tmp[n].version \in Nat \ {0}
  BY <1>1, EventNode
<1>4. UNCHANGED <<db, running, applied>>
  BY <1>2 DEF HandleAck, HandleNack, HandleTimeout, HandleExpire, HandleInit
<1>5. AppliedGrows /\ DBTruth'
  BY <1>4 DEF AppliedGrows, DBTruth, Truth
<1>6. CallsTrue'
  <2>1. CASE UNCHANGED call
    BY <1>5, <2>1, CallsUnchanged DEF Truth
  <2>2. CASE Retry("event", n, e.doc, TmpVersion(n))
    BY <1>5, <2>2, RetryTrue DEF Threads
  <2>3. ASSUME NEW s, Settles(e, n, s), s \in Recording => e.version \in applied[e.doc]
        PROVE  CallsTrue'
    BY <1>1, <1>4, <1>5, <2>3, SettlesTrue
  <2>4. CASE HandleAck(e, n)
    BY <1>1, <2>1, <2>3, <2>4 DEF HandleAck, Truthful
  <2>5. CASE HandleNack(e, n)
    BY <2>1, <2>3, <2>5 DEF HandleNack, Recording
  <2>6. CASE HandleTimeout(e, n) \/ HandleExpire(e, n)
    BY <2>1, <2>2, <2>6 DEF HandleTimeout, HandleExpire
  <2>7. CASE HandleInit(e, n)
    <3>1. \/ /\ e.kind = "INIT" /\ n \in DOMAIN tmp /\ tmp[n].version = e.version
             /\ Settles(e, n, "valid")
          \/ Retry("event", n, e.doc, TmpVersion(n))
          \/ UNCHANGED call
      BY <2>7 DEF HandleInit, TmpVersion
    <3>2. CASE /\ e.kind = "INIT" /\ n \in DOMAIN tmp /\ tmp[n].version = e.version
               /\ Settles(e, n, "valid")
      <4>1. e.version \in applied[e.doc]
        BY <1>1, <1>3, <3>2 DEF Truthful
      <4> QED BY <2>3, <3>2, <4>1
    <3> QED BY <2>1, <2>2, <3>1, <3>2
  <2> QED BY <1>2, <2>4, <2>5, <2>6, <2>7
<1> QED BY <1>1, <1>4, <1>5, <1>6, TruthKept

LEMMA ComponentStepTrue == ASSUME TypeOK, Truth, ComponentStep PROVE Truth'
<1>1. PICK d \in Docs : \/ ComponentAccepts(d) \/ ComponentRefuses(d)
                        \/ ComponentNeedsTime(d) \/ ComponentRestarts(d)
  BY DEF ComponentStep
<1>0. UNCHANGED call
  BY <1>1 DEF ComponentAccepts, ComponentRefuses, ComponentNeedsTime, ComponentRestarts
<1>2. \/ /\ \E x, v, code : \/ Event("NACK", d, x, v, code)
                            \/ Event("TIMEOUT", d, x, v, code)
                            \/ Event("INIT", d, x, running[d], code)
         /\ UNCHANGED <<db, applied, running>>
      \/ ComponentAccepts(d)
  BY <1>1 DEF ComponentRefuses, ComponentNeedsTime, ComponentRestarts
<1>3. CASE /\ \E x, v, code : \/ Event("NACK", d, x, v, code)
                              \/ Event("TIMEOUT", d, x, v, code)
                              \/ Event("INIT", d, x, running[d], code)
           /\ UNCHANGED <<db, applied, running>>
  <2>1. AppliedGrows /\ DBTruth' /\ RunningTrue'
    BY <1>3 DEF AppliedGrows, DBTruth, RunningTrue, Truth
  <2>2. running[d] = 0 \/ running[d] \in applied'[d]
    BY <1>3 DEF RunningTrue, Truth
  <2>3. AnswersTrue'
    BY <1>3, <2>1, <2>2, AnswersAdded DEF Kinds, Truth
  <2>4. CallsTrue'
    BY <1>0, <2>1, CallsUnchanged DEF Truth
  <2> QED BY <2>1, <2>3, <2>4 DEF Truth
<1>4. CASE ComponentAccepts(d)
  <2> DEFINE r == Head(requests[d])
  <2>1. /\ running' = [running EXCEPT ![d] = r.version]
        /\ applied' = [applied EXCEPT ![d] = @ \cup {r.version}]
        /\ Event("ACK", d, r.trans_id, r.version, 0)
        /\ UNCHANGED db
    BY <1>4 DEF ComponentAccepts
  <2> HIDE DEF r
  <2>2. /\ running \in [Docs -> Nat] /\ applied \in [Docs -> SUBSET Nat]
    BY DEF TypeOK
  <2>3. AppliedGrows /\ r.version \in applied'[d]
    BY <2>1, <2>2 DEF AppliedGrows
  <2>4. RunningTrue'
    BY <2>1, <2>2, <2>3 DEF RunningTrue, AppliedGrows, Truth
  <2>5. DBTruth'
    BY <2>1, <2>3 DEF DBTruth, AppliedGrows, Truth
  <2>6. AnswersTrue'
    BY <2>1, <2>3, AnswersAdded DEF Kinds, Truth
  <2>7. CallsTrue'
    BY <1>0, <2>3, CallsUnchanged DEF Truth
  <2> QED BY <2>4, <2>5, <2>6, <2>7 DEF Truth
<1> QED BY <1>2, <1>3, <1>4

LEMMA TimerExpiresTrue == ASSUME TypeOK, Truth, TimerExpires PROVE Truth'
<1>1. expiring \in Docs /\ Event("EXPIRE", expiring, NoTrans, 0, 0)
  BY DEF TypeOK, TimerExpires, Event
<1>2. UNCHANGED <<db, applied, running>>
  BY DEF TimerExpires
<1>3. AppliedGrows /\ DBTruth' /\ RunningTrue'
  BY <1>2 DEF AppliedGrows, DBTruth, RunningTrue, Truth
<1>4. AnswersTrue'
  BY <1>1, <1>3, AnswersAdded DEF Kinds, Truth
<1>5. CallsTrue'
  BY <1>3, CallsUnchanged DEF TimerExpires, Truth
<1> QED BY <1>3, <1>4, <1>5 DEF Truth

LEMMA NextTrue ==
  ASSUME TypeOK, VersionsPositive, Truth, [Next]_vars PROVE Truth'
<1>1. ASSUME UNCHANGED <<db, applied, running, events>>, AppliedGrows => CallsTrue'
      PROVE  Truth'
  <2>1. AppliedGrows /\ DBTruth'
    BY <1>1 DEF AppliedGrows, DBTruth, Truth
  <2> QED BY <1>1, <2>1, TruthKept
<1>2. ASSUME UNCHANGED <<db, applied, running, events, call>> PROVE Truth'
  BY <1>1, <1>2, CallsUnchanged DEF Truth
<1>3. CASE Refresh
  BY <1>3, RefreshTrue
<1>4. CASE \/ (\E b \in Bundles : Fetch(b)) \/ StartFailedDocsRetry \/ ReleaseSuccessDocs
           \/ UNCHANGED vars
  BY <1>2, <1>4 DEF Fetch, StartFailedDocsRetry, ReleaseSuccessDocs, vars
<1>5. ASSUME NEW p \in Threads, RetrySend(p) \/ \E code \in FailCodes : RetryFails(p, code)
      PROVE  Truth'
  <2>1. UNCHANGED <<db, applied, running, events>>
    BY <1>5 DEF RetrySend, RetryFails
  <2>2. CASE RetrySend(p)
    <3>1. ASSUME AppliedGrows PROVE CallsTrue'
      BY <2>2, <3>1, RetryTrue
    <3> QED BY <1>1, <2>1, <3>1
  <2>3. CASE \E code \in FailCodes : RetryFails(p, code)
    <3>1. ASSUME AppliedGrows PROVE CallsTrue'
      BY <2>3, <3>1, RetryTrue
    <3> QED BY <1>1, <2>1, <3>1
  <2> QED BY <1>5, <2>2, <2>3
<1>6. CASE SyncStep
  <2>1. CASE \/ NoBundle \/ ParseFails \/ Parse \/ AddToTmpList \/ DecodeFails \/ EndLoop
             \/ NotYetDue \/ EndFailedDocsRetry
    BY <1>2, <2>1 DEF NoBundle, ParseFails, Parse, AddToTmpList, DecodeFails, EndLoop,
       NotYetDue, EndFailedDocsRetry
  <2>2. CASE RetryNext \/ SendDoc
    <3>1. UNCHANGED <<db, applied, running, events>>
      BY <2>2 DEF RetryNext, SendDoc
    <3>2. SendDoc \/ \E n, d, known : Retry("sync", n, d, known)
      BY <2>2 DEF RetryNext
    <3> QED BY <1>1, <3>1, <3>2, RetryTrue DEF Threads
  <2>3. CASE RetrySend("sync") \/ \E code \in FailCodes : RetryFails("sync", code)
    BY <1>5, <2>3 DEF Threads
  <2>4. CASE SetSucceeds \/ \E code \in FailCodes : SetFails(code)
    BY <2>4, SetSucceedsTrue, SetFailsTrue
  <2>5. CASE RetrySucceeds("sync") \/ StoreRoot \/ LoopRecords \/ RecordStep("sync")
    BY <2>5, RetrySucceedsTrue, StoreRootTrue, LoopRecordsTrue, RecordStepTrue DEF Threads
  <2> QED BY <1>6, <2>1, <2>2, <2>3, <2>4, <2>5 DEF SyncStep
<1>7. CASE EventStep
  BY <1>5, <1>7, HandleEventTrue, RecordStepTrue, RetrySucceedsTrue DEF EventStep, Threads
<1>8. CASE TimerStep
  BY <1>2, <1>8, TimerExpiresTrue DEF TimerStep, TimerCheck
<1>9. CASE ComponentStep
  BY <1>9, ComponentStepTrue
<1> QED BY <1>3, <1>4, <1>6, <1>7, <1>8, <1>9 DEF Next

LEMMA InitTrue == Init => Truth
BY DocsAssumption
   DEF Init, Truth, DBTruth, AnswersTrue, RunningTrue, CallsTrue, CallTrue,
       Recording, NoCall, Absent

\* The database names, for primary documents only, versions that their
\* component has accepted, in every state, for any number of documents,
\* bundles, faults and retries: no late, refused or repeated answer and no
\* restart of a component makes checkDBList record another version.
THEOREM DBTruthCorrect == Spec => []DBTruth
<1> DEFINE IInv == TypeOK /\ VersionsPositive /\ Truth
<1>1. Init => IInv
  BY InitType, InitPositive, InitTrue
<1>2. IInv /\ [Next]_vars => IInv'
  BY NextType, NextPositive, NextTrue
<1>3. IInv => DBTruth
  BY DEF Truth
<1> QED BY <1>1, <1>2, <1>3, PTL DEF Spec

-----------------------------------------------------------------------------
(* The database file follows the database.                                 *)

\* A thread that has still to save.
Unsaved(c) == c.state \in {"rooted", "rootdb", "save"}

\* The loop of processMsgpackSubdoc counts whatever it records.
LEMMA PassedSaves ==
  ASSUME TypeOK, SavedWhenDone, NEW b, NEW n \in Nat, Passed(b, n),
         n > success \/ (n = success /\ b = db), ~Unsaved(call["sync"]),
         pc = "apply", UNCHANGED <<disk, pc>>
  PROVE  SavedWhenDone'
<1>1. success \in Nat
  BY DEF TypeOK
<1>2. success' \in Nat /\ success' >= n
  BY DEF Passed
<1>3. db' # db => success' > 0
  BY <1>1, <1>2 DEF Passed, RootToDB
<1>4. success > 0 => success' > 0
  BY <1>1, <1>2
<1>5. call'["event"] = call["event"]
  BY DEF Passed, Goes, TypeOK, Threads
<1>6. (\E p \in Threads : Unsaved(call[p])) => \E p \in Threads : Unsaved(call'[p])
  BY <1>5 DEF Threads
<1> QED BY <1>3, <1>4, <1>6 DEF SavedWhenDone, Unsaved

\* A thread that has nothing to save goes on without changing the database.
LEMMA OthersSave ==
  ASSUME TypeOK, SavedWhenDone, NEW p \in Threads, NEW r,
         call' = [call EXCEPT ![p] = r] \/ UNCHANGED call,
         ~Unsaved(call[p]), UNCHANGED stored, UNCHANGED success,
         pc' = pc \/ pc' = "leave" \/ pc \notin {"apply", "leave"}
  PROVE  SavedWhenDone'
<1>1. \A q \in Threads : q # p => call'[q] = call[q]
  BY DEF TypeOK
<1>2. (\E q \in Threads : Unsaved(call[q])) => \E q \in Threads : Unsaved(call'[q])
  BY <1>1
<1> QED BY <1>2 DEF SavedWhenDone, Unsaved, stored

LEMMA GoesWhere == ASSUME NEW p, NEW s, Goes(p, s)
  PROVE \E r : call' = [call EXCEPT ![p] = r]
BY DEF Goes

LEMMA GoesTo ==
  ASSUME TypeOK, NEW p \in Threads, NEW s, Goes(p, s) PROVE call'[p].state = s
<1>1. call[p] \in CallType
  BY DEF TypeOK
<1> QED BY <1>1 DEF Goes, CallType, NoCall, TypeOK

\* A recording thread has saved before it forgets what it recorded.
LEMMA RecordStepSaves ==
  ASSUME TypeOK, SavedWhenDone, NEW p \in Threads, RecordStep(p)
  PROVE  SavedWhenDone'
<1>1. CASE Mark(p) \/ CheckDelete(p) \/ DeleteTmpList(p) \/ DeleteMultipart(p)
  <2>1. PICK s : Goes(p, s)
    BY <1>1 DEF Mark, CheckDelete, DeleteTmpList, DeleteMultipart
  <2>2. ~Unsaved(call[p]) /\ UNCHANGED stored /\ UNCHANGED <<pc, success>>
    BY <1>1 DEF Mark, CheckDelete, DeleteTmpList, DeleteMultipart, Unsaved
  <2> QED BY <2>1, <2>2, GoesWhere, OthersSave
<1>2. CASE Record(p)
  <2>1. CASE Goes(p, "rooted") \/ Goes(p, "save")
    <3>1. Unsaved(call'[p])
      BY <2>1, GoesTo DEF Unsaved
    <3> QED BY <3>1 DEF SavedWhenDone, Unsaved
  <2>2. CASE Goes(p, "saved") /\ UNCHANGED db
    <3>1. ~Unsaved(call[p]) /\ UNCHANGED stored /\ UNCHANGED <<pc, success>>
      BY <1>2, <2>2 DEF Record, Unsaved
    <3> QED BY <2>2, <3>1, GoesWhere, OthersSave
  <2> QED BY <1>2, <2>1, <2>2 DEF Record
<1>3. CASE RecordRoot(p)
  <2>1. call[p] \in CallType
    BY DEF TypeOK
  <2>2. call'[p].state = "rootdb"
    BY <1>3, <2>1 DEF RecordRoot, CallType, TypeOK
  <2> QED BY <2>2 DEF SavedWhenDone
<1>4. CASE MarkRoot(p)
  <2>1. CASE pc = "leave"
    BY <1>4, <2>1 DEF MarkRoot, SavedWhenDone
  <2>2. CASE pc # "leave"
    <3>1. call'[p].state = "save"
      BY <1>4, <2>2, GoesTo DEF MarkRoot, Leaving
    <3> QED BY <3>1 DEF SavedWhenDone
  <2> QED BY <2>1, <2>2
<1>5. CASE Save(p)
  BY <1>5 DEF Save, SavedWhenDone
<1> QED BY <1>1, <1>2, <1>3, <1>4, <1>5 DEF RecordStep

LEMMA SyncSaves ==
  ASSUME TypeOK, SavedWhenDone,
         StoreRoot \/ SetSucceeds \/ LoopRecords \/ (\E code \in FailCodes : SetFails(code))
  PROVE  SavedWhenDone'
<1>1. CASE StoreRoot
  <2>1. CASE Goes("sync", "save")
    <3>1. call'["sync"].state = "save"
      BY <2>1, GoesTo DEF Threads
    <3> QED BY <3>1 DEF SavedWhenDone, Threads
  <2>2. CASE db' = db /\ Goes("sync", "none")
    <3>1. ~Unsaved(call["sync"]) /\ UNCHANGED stored /\ UNCHANGED <<pc, success>>
      BY <1>1, <2>2 DEF StoreRoot, Unsaved
    <3> QED BY <2>2, <3>1, GoesWhere, OthersSave DEF Threads
  <2> QED BY <1>1, <2>1, <2>2 DEF StoreRoot
<1>2. CASE SetSucceeds
  <2>1. ~Unsaved(call["sync"]) /\ pc = "apply" /\ UNCHANGED <<disk, pc>> /\ success \in Nat
    BY <1>2 DEF SetSucceeds, Unsaved, TypeOK
  <2>2. CASE Applied("sync") /\ UNCHANGED <<db, success>>
    <3>1. Goes("sync", "marked")
      BY <2>2 DEF Applied
    <3> QED BY <2>1, <2>2, <3>1, GoesWhere, OthersSave DEF Threads
  <2>3. CASE Passed(db, success)
    BY <2>1, <2>3, PassedSaves
  <2> QED BY <1>2, <2>2, <2>3 DEF SetSucceeds
<1>3. CASE LoopRecords
  <2> DEFINE b == CheckDBList(db, call["sync"].doc, call["sync"].version)
  <2>1. /\ ~Unsaved(call["sync"]) /\ pc = "apply" /\ UNCHANGED <<disk, pc>> /\ success \in Nat
        /\ Passed(b, success + 1) \/ Passed(db, success)
    BY <1>3 DEF LoopRecords, Unsaved, TypeOK
  <2>2. success + 1 > success /\ success + 1 \in Nat
    BY <2>1
  <2> HIDE DEF b
  <2> QED BY <2>1, <2>2, PassedSaves
<1>4. CASE \E code \in FailCodes : SetFails(code)
  <2>1. /\ Goes("sync", "rooted") \/ Goes("sync", "none")
        /\ ~Unsaved(call["sync"]) /\ UNCHANGED stored /\ UNCHANGED success
        /\ pc = "apply" /\ pc' \in {"apply", "leave"}
    BY <1>4 DEF SetFails, MayFail, Unsaved
  <2> QED BY <2>1, GoesWhere, OthersSave DEF Threads
<1> QED BY <1>1, <1>2, <1>3, <1>4

\* Retries record nothing themselves.
LEMMA RetryCall ==
  ASSUME NEW p,
         \/ \E n, d, known : Retry(p, n, d, known)
         \/ RetrySend(p) \/ (SendDoc /\ p = "sync")
         \/ \E code \in FailCodes : RetryFails(p, code)
  PROVE  UNCHANGED call \/ \E r : call' = [call EXCEPT ![p] = r]
<1>1. ASSUME NEW d, NEW n, NEW m, NEW v, NEW known, SetValues(p, d, n, m, v, known)
      PROVE  \E r : call' = [call EXCEPT ![p] = r]
  BY <1>1 DEF SetValues
<1>2. CASE \E n, d, known : Retry(p, n, d, known)
  BY <1>2 DEF Retry
<1>3. CASE RetrySend(p)
  <2>1. \/ call' = [call EXCEPT ![p] = NoCall]
        \/ \E d, n, m, v, known : SetValues(p, d, n, m, v, known)
    BY <1>3 DEF RetrySend
  <2> QED BY <1>1, <2>1
<1>4. CASE SendDoc /\ p = "sync"
  <2>1. \E d, n, m, v, known : SetValues(p, d, n, m, v, known)
    BY <1>4 DEF SendDoc
  <2> QED BY <1>1, <2>1
<1>5. CASE \E code \in FailCodes : RetryFails(p, code)
  BY <1>5 DEF RetryFails
<1> QED BY <1>2, <1>3, <1>4, <1>5

LEMMA HandleEventSaves ==
  ASSUME TypeOK, SavedWhenDone, HandleEvent PROVE SavedWhenDone'
<1> DEFINE e == Head(events)
<1>1. PICK n \in Pointer(tmp, e.doc) :
        \/ HandleAck(e, n) \/ HandleNack(e, n) \/ HandleTimeout(e, n)
        \/ HandleExpire(e, n) \/ HandleInit(e, n)
  BY DEF HandleEvent
<1> HIDE DEF e
<1>2. ~Unsaved(call["event"])
  BY DEF HandleEvent, NoCall, Unsaved
<1>3. UNCHANGED stored /\ UNCHANGED <<pc, success>>
  BY <1>1 DEF HandleAck, HandleNack, HandleTimeout, HandleExpire, HandleInit
<1>4. UNCHANGED call \/ \E r : call' = [call EXCEPT !["event"] = r]
  <2>1. ASSUME NEW s, Settles(e, n, s) PROVE \E r : call' = [call EXCEPT !["event"] = r]
    BY <2>1 DEF Settles
  <2>2. \/ UNCHANGED call \/ (\E s : Settles(e, n, s))
        \/ \E known : Retry("event", n, e.doc, known)
    BY <1>1 DEF HandleAck, HandleNack, HandleTimeout, HandleExpire, HandleInit
  <2> QED BY <2>1, <2>2, RetryCall
<1> QED BY <1>2, <1>3, <1>4, OthersSave DEF Threads

LEMMA NextSaves ==
  ASSUME TypeOK, SavedWhenDone, [Next]_vars PROVE SavedWhenDone'
<1>1. ASSUME UNCHANGED stored, UNCHANGED <<pc, success, call>> PROVE SavedWhenDone'
  BY <1>1 DEF SavedWhenDone, stored
<1>2. ASSUME UNCHANGED stored, UNCHANGED call, pc \notin {"apply", "leave"}
      PROVE  SavedWhenDone'
  BY <1>2 DEF SavedWhenDone, stored
<1>3. CASE Refresh
  <2>1. pc = "idle" /\ UNCHANGED stored /\ UNCHANGED success /\ call["sync"] = NoCall
    BY <1>3 DEF Refresh
  <2>2. ~Unsaved(call["sync"])
    BY <2>1 DEF NoCall, Unsaved
  <2>3. \E r : call' = [call EXCEPT !["sync"] = r]
    BY <1>3 DEF Refresh
  <2> QED BY <2>1, <2>2, <2>3, OthersSave DEF Threads
<1>4. CASE (\E b \in Bundles : Fetch(b)) \/ StartFailedDocsRetry \/ UNCHANGED vars
  BY <1>1, <1>2, <1>4 DEF Fetch, StartFailedDocsRetry, vars, loop
<1>5. CASE ReleaseSuccessDocs
  BY <1>1, <1>5 DEF ReleaseSuccessDocs, loop
<1>6. ASSUME NEW p \in Threads, p = "sync" => pc # "leave",
             \/ RetrySend(p) \/ RetrySucceeds(p)
             \/ \E code \in FailCodes : RetryFails(p, code)
      PROVE  SavedWhenDone'
  <2>1. ~Unsaved(call[p]) /\ UNCHANGED stored /\ UNCHANGED <<pc, success>>
    BY <1>6 DEF RetrySend, RetrySucceeds, RetryFails, MayFail, Unsaved
  <2>2. CASE RetrySucceeds(p)
    <3>1. \E s : Goes(p, s)
      BY <2>2 DEF RetrySucceeds, Applied
    <3> QED BY <2>1, <3>1, GoesWhere, OthersSave
  <2>3. CASE RetrySend(p) \/ \E code \in FailCodes : RetryFails(p, code)
    <3>1. UNCHANGED call \/ \E r : call' = [call EXCEPT ![p] = r]
      <4>1. CASE RetrySend(p)
        BY <4>1, RetryCall
      <4>2. CASE \E code \in FailCodes : RetryFails(p, code)
        BY <4>2, RetryCall
      <4> QED BY <2>3, <4>1, <4>2
    <3> QED BY <2>1, <3>1, OthersSave
  <2> QED BY <1>6, <2>2, <2>3
<1>7. CASE SyncStep
  <2>1. CASE NoBundle \/ ParseFails \/ Parse \/ AddToTmpList
    BY <1>2, <2>1 DEF NoBundle, ParseFails, Parse, AddToTmpList
  <2>2. CASE DecodeFails \/ NotYetDue
    BY <1>1, <2>2 DEF DecodeFails, NotYetDue
  <2>3. CASE StoreRoot \/ SetSucceeds \/ LoopRecords \/ \E code \in FailCodes : SetFails(code)
    BY <2>3, SyncSaves
  <2>4. CASE EndLoop
    <3>1. CASE success > 0
      BY <2>4, <3>1 DEF EndLoop, SavedWhenDone
    <3>2. CASE ~(success > 0)
      BY <2>4, <3>2 DEF EndLoop, SavedWhenDone
    <3> QED BY <3>1, <3>2
  <2>5. CASE SendDoc \/ RetryNext
    <3>0. UNCHANGED stored /\ UNCHANGED <<pc, success>> /\ call["sync"] = NoCall
      BY <2>5 DEF SendDoc, RetryNext
    <3>1. ~Unsaved(call["sync"]) /\ UNCHANGED stored /\ UNCHANGED <<pc, success>>
      BY <3>0 DEF NoCall, Unsaved
    <3>2. SendDoc \/ \E n, d, known : Retry("sync", n, d, known)
      BY <2>5 DEF RetryNext
    <3>3. UNCHANGED call \/ \E r : call' = [call EXCEPT !["sync"] = r]
      BY <3>2, RetryCall
    <3> QED BY <3>1, <3>3, OthersSave DEF Threads
  <2>6. CASE EndFailedDocsRetry
    BY <1>2, <2>6 DEF EndFailedDocsRetry
  <2>7. CASE \/ RetrySend("sync") \/ RetrySucceeds("sync")
             \/ \E code \in FailCodes : RetryFails("sync", code)
    <3>1. CASE RetrySend("sync")
      <4>1. ~Unsaved(call["sync"]) /\ UNCHANGED stored /\ UNCHANGED <<pc, success>>
        BY <3>1 DEF RetrySend, Unsaved
      <4>2. UNCHANGED call \/ \E r : call' = [call EXCEPT !["sync"] = r]
        BY <3>1, RetryCall
      <4> QED BY <4>1, <4>2, OthersSave DEF Threads
    <3>2. CASE RetrySucceeds("sync") \/ \E code \in FailCodes : RetryFails("sync", code)
      <4>1. pc = "retry"
        BY <3>2 DEF RetrySucceeds, RetryFails
      <4> QED BY <1>6, <3>2, <4>1 DEF Threads
    <3> QED BY <2>7, <3>1, <3>2
  <2>8. CASE RecordStep("sync")
    BY <2>8, RecordStepSaves DEF Threads
  <2> QED BY <1>7, <2>1, <2>2, <2>3, <2>4, <2>5, <2>6, <2>7, <2>8 DEF SyncStep
<1>8. CASE EventStep
  BY <1>6, <1>8, HandleEventSaves, RecordStepSaves DEF EventStep, Threads
<1>9. CASE TimerStep
  BY <1>1, <1>9 DEF TimerStep, TimerExpires, TimerCheck, loop
<1>10. CASE ComponentStep
  BY <1>1, <1>10 DEF ComponentStep, ComponentAccepts, ComponentRefuses,
     ComponentNeedsTime, ComponentRestarts, loop
<1> QED BY <1>3, <1>4, <1>5, <1>7, <1>8, <1>9, <1>10 DEF Next

\* Whatever is recorded is saved, at once or at the end of the loop of
\* processMsgpackSubdoc: no thread and no path forgets addNewDocEntry.
THEOREM SavedWhenDoneCorrect == Spec => []SavedWhenDone
<1>1. Init => SavedWhenDone
  BY DEF Init, SavedWhenDone
<1>2. TypeOK /\ SavedWhenDone /\ [Next]_vars => SavedWhenDone'
  BY NextSaves
<1> QED BY <1>1, <1>2, TypeCorrect, PTL DEF Spec

-----------------------------------------------------------------------------
(* The retry count. A thread that has compared the count of a node and not   *)
(* yet incremented it holds a ticket for the node. A node is good for its    *)
(* count and its tickets together.                                           *)

Ticket(c, a) == IF c.state = "check" /\ c.node = a THEN 1 ELSE 0
Tickets(a) == Ticket(call["sync"], a) + Ticket(call["event"], a)
WithinLimit ==
  \A a \in DOMAIN tmp : tmp[a].retry_count + Tickets(a) <= MaxRetry + 1

LEMMA TwoThreads ==
  ASSUME NEW S, S \subseteq Threads
  PROVE  Cardinality(S) = (IF "sync" \in S THEN 1 ELSE 0) + (IF "event" \in S THEN 1 ELSE 0)
<1>1. S = {} \/ S = {"sync"} \/ S = {"event"} \/ S = {"sync"} \cup {"event"}
  BY DEF Threads
<1>2. Cardinality({}) = 0 /\ Cardinality({"sync"}) = 1 /\ Cardinality({"event"}) = 1
  BY FS_EmptySet, FS_Singleton
<1>3. Cardinality({"sync"} \cup {"event"}) = 2
  <2>1. IsFiniteSet({"sync"}) /\ "event" \notin {"sync"}
    BY FS_Singleton
  <2>2. Cardinality({"sync"} \cup {"event"}) = Cardinality({"sync"}) + 1
    BY <2>1, FS_AddElement, Zenon
  <2> QED BY <1>2, <2>2
<1> QED BY <1>1, <1>2, <1>3

LEMMA WithinLimitBounds == RetryBounded <=> WithinLimit
<1> DEFINE S(a) == {p \in Threads : call[p].state = "check" /\ call[p].node = a}
<1>1. ASSUME NEW a
      PROVE  Cardinality(S(a)) = Tickets(a)
  <2>1. S(a) \subseteq Threads
    OBVIOUS
  <2>2. /\ "sync" \in S(a) <=> call["sync"].state = "check" /\ call["sync"].node = a
        /\ "event" \in S(a) <=> call["event"].state = "check" /\ call["event"].node = a
    BY DEF Threads
  <2> HIDE DEF S
  <2> QED BY <2>1, <2>2, TwoThreads DEF Ticket, Tickets
<1>2. RetryBounded <=> \A a \in DOMAIN tmp : tmp[a].retry_count + Cardinality(S(a)) <= MaxRetry + 1
  BY DEF RetryBounded
<1> HIDE DEF S
<1> QED
  BY <1>1, <1>2 DEF WithinLimit
\* A list in which each node has the count it had at that address in t, or
\* starts again from 0.
Tamed(u, t) ==
  \A a \in DOMAIN u :
    u[a].retry_count = 0 \/ (a \in DOMAIN t /\ u[a].retry_count = t[a].retry_count)

LEMMA TamedTrans ==
  ASSUME NEW t, NEW u, NEW v, Tamed(u, t), Tamed(v, u) PROVE Tamed(v, t)
BY DEF Tamed

LEMMA TamedSelf == ASSUME NEW t PROVE Tamed(t, t) /\ Tamed(Empty, t)
BY EmptyType DEF Tamed

LEMMA UpdatedCount ==
  ASSUME NEW n \in NodeType, NEW v, NEW s, NEW e, NEW c, NEW x, NEW r \in BOOLEAN
  PROVE  LET m == Updated(n, v, s, e, c, x, r)
         IN m.retry_count = 0 \/ m.retry_count = n.retry_count
BY DEF Updated, NodeType

LEMMA PutTamed ==
  ASSUME NEW t, NodeList(t), NEW a, NEW d, NEW n,
         Here(t, a, d) => n.retry_count = 0 \/ n.retry_count = t[a].retry_count
  PROVE  Tamed(Put(t, a, d, n), t)
BY DEF Tamed, Put, Here, NodeList

LEMMA PutUpdatedTamed ==
  ASSUME NEW t, NodeList(t), NEW a, NEW d, NEW v, NEW s, NEW e, NEW c, NEW x,
         NEW r \in BOOLEAN
  PROVE  Tamed(Put(t, a, d, Updated(t[a], v, s, e, c, x, r)), t)
<1> DEFINE n == Updated(t[a], v, s, e, c, x, r)
<1>1. Here(t, a, d) => n.retry_count = 0 \/ n.retry_count = t[a].retry_count
  <2>1. SUFFICES ASSUME Here(t, a, d)
                 PROVE  n.retry_count = 0 \/ n.retry_count = t[a].retry_count
    OBVIOUS
  <2>2. t[a] \in NodeType
    BY <2>1 DEF Here, NodeList
  <2> QED BY <2>2, UpdatedCount
<1> HIDE DEF n
<1> QED BY <1>1, PutTamed DEF n

LEMMA SetRootTamed ==
  ASSUME NEW t, NodeList(t), NEW v, NEW s PROVE Tamed(SetRoot(t, v, s), t)
<1> DEFINE m(a) == Updated(t[a], v, s, "none", 0, NoTrans, FALSE)
<1>1. ASSUME NEW a \in DOMAIN t
      PROVE  m(a).retry_count = 0 \/ m(a).retry_count = t[a].retry_count
  <2>1. t[a] \in NodeType
    BY DEF NodeList
  <2> QED BY <2>1 DEF Updated, NodeType
<1>2. SetRoot(t, v, s) = [a \in DOMAIN t |-> IF a \in Pointer(t, Root) THEN m(a) ELSE t[a]]
  BY DEF SetRoot
<1> HIDE DEF m
<1> QED BY <1>1, <1>2 DEF Tamed

LEMMA GiveUpTamed ==
  ASSUME NEW t, NodeList(t), NEW p, NEW n, NEW d, NEW known
  PROVE  Tamed(GiveUp(p, t, n, d, known), t)
BY PutUpdatedTamed, TamedSelf DEF GiveUp

\* No thread has taken a ticket, and no count has grown.
LEMMA Kept ==
  ASSUME TypeOK, TypeOK', WithinLimit, Tamed(tmp', tmp),
         \A p \in Threads : call'[p].state = "check" => call'[p] = call[p]
  PROVE  WithinLimit'
<1> SUFFICES ASSUME NEW a \in DOMAIN tmp'
             PROVE  tmp'[a].retry_count + Tickets(a)' <= MaxRetry + 1
  BY DEF WithinLimit
<1>1. Tickets(a) \in 0..2 /\ Tickets(a)' \in 0..2 /\ Tickets(a)' <= Tickets(a)
  BY DEF Tickets, Ticket, Threads
<1>2. MaxRetry \in Nat \ {0}
  BY NumbersAssumption
<1>3. CASE tmp'[a].retry_count = 0
  BY <1>1, <1>2, <1>3
<1>4. CASE a \in DOMAIN tmp /\ tmp'[a].retry_count = tmp[a].retry_count
  <2>1. tmp[a].retry_count \in Nat /\ tmp[a].retry_count + Tickets(a) <= MaxRetry + 1
    BY <1>4 DEF WithinLimit, TypeOK, NodeType
  <2> QED BY <1>1, <1>2, <1>4, <2>1
<1> QED BY <1>3, <1>4 DEF Tamed

\* A call that ends takes its ticket with it; no other step takes one.
LEMMA CallMoves ==
  ASSUME TypeOK, NEW p \in Threads, NEW r, call' = [call EXCEPT ![p] = r],
         r.state # "check"
  PROVE  \A q \in Threads : call'[q].state = "check" => call'[q] = call[q]
BY DEF TypeOK, Threads

LEMMA CallEnds ==
  ASSUME TypeOK, NEW p \in Threads, call' = [call EXCEPT ![p] = NoCall]
  PROVE  \A q \in Threads : call'[q].state = "check" => call'[q] = call[q]
BY CallMoves DEF NoCall

LEMMA GoesOn ==
  ASSUME TypeOK, NEW p \in Threads, NEW s, s # "check", Goes(p, s)
  PROVE  \A q \in Threads : call'[q].state = "check" => call'[q] = call[q]
<1>1. PICK r : call' = [call EXCEPT ![p] = r]
  BY GoesWhere
<1>2. call'[p].state = s
  BY GoesTo
<1>3. r.state = s
  BY <1>1, <1>2 DEF TypeOK
<1> QED BY <1>1, <1>3, CallMoves

LEMMA RefreshKept ==
  ASSUME TypeOK, TypeOK', WithinLimit, Refresh PROVE WithinLimit'
<1>1. PICK v : call' = [call EXCEPT !["sync"] = [NoCall EXCEPT !.version = v, !.state = "derived"]]
  BY DEF Refresh
<1>2. [NoCall EXCEPT !.version = v, !.state = "derived"].state # "check"
  BY DEF NoCall
<1>3. Tamed(tmp', tmp)
  BY TamedSelf DEF Refresh
<1> QED BY <1>1, <1>2, <1>3, CallMoves, Kept DEF Threads

\* A scalar document is marked as applied.
LEMMA AppliedKept ==
  ASSUME TypeOK, TypeOK', WithinLimit, NEW p \in Threads, Applied(p)
  PROVE  WithinLimit'
<1>1. Tamed(tmp', tmp)
  BY TypeList, PutUpdatedTamed DEF Applied
<1>2. Goes(p, "marked")
  BY DEF Applied
<1> QED BY <1>1, <1>2, GoesOn, Kept

\* The steps of a recording thread.
LEMMA RecordStepKept ==
  ASSUME TypeOK, TypeOK', WithinLimit, NEW p \in Threads, RecordStep(p)
  PROVE  WithinLimit'
<1>1. ASSUME Tamed(tmp', tmp), NEW s, s # "check", Goes(p, s) PROVE WithinLimit'
  BY <1>1, GoesOn, Kept
<1>2. CASE Mark(p)
  <2>1. Tamed(tmp', tmp)
    BY <1>2, TypeList, PutUpdatedTamed DEF Mark
  <2>2. Goes(p, "marked") \/ Goes(p, "none")
    BY <1>2 DEF Mark
  <2> QED BY <1>1, <2>1, <2>2
<1>3. CASE RecordRoot(p)
  <2> DEFINE r == [call[p] EXCEPT !.version = etag, !.state = "rootdb"]
  <2>1. UNCHANGED tmp /\ call' = [call EXCEPT ![p] = r]
    BY <1>3 DEF RecordRoot
  <2>2. call[p] \in CallType
    BY DEF TypeOK
  <2>3. r.state # "check"
    BY <2>2 DEF CallType
  <2> HIDE DEF r
  <2> QED BY <2>1, <2>3, CallMoves, TamedSelf, Kept
<1>4. CASE MarkRoot(p)
  <2>1. Tamed(tmp', tmp)
    BY <1>4, TypeList, SetRootTamed, TamedSelf DEF MarkRoot
  <2>2. Goes(p, "saved") \/ Goes(p, "save")
    BY <1>4 DEF MarkRoot
  <2> QED BY <1>1, <2>1, <2>2
<1>5. CASE Record(p) \/ Save(p) \/ CheckDelete(p) \/ DeleteMultipart(p)
  <2>1. UNCHANGED tmp
    BY <1>5 DEF Record, Save, CheckDelete, DeleteMultipart
  <2>2. PICK s : s # "check" /\ Goes(p, s)
    BY <1>5 DEF Record, Save, CheckDelete, DeleteMultipart, AfterDelete
  <2> QED BY <1>1, <2>1, <2>2, TamedSelf
<1>6. CASE DeleteTmpList(p)
  <2>1. PICK s : s # "check" /\ Goes(p, s)
    BY <1>6 DEF DeleteTmpList
  <2> QED BY <1>1, <1>6, <2>1, TamedSelf DEF DeleteTmpList
<1> QED BY <1>2, <1>3, <1>4, <1>5, <1>6 DEF RecordStep

LEMMA PassedKept ==
  ASSUME TypeOK, TypeOK', WithinLimit, NEW b, NEW n, Passed(b, n), UNCHANGED tmp
  PROVE  WithinLimit'
<1>1. PICK s : s # "check" /\ Goes("sync", s)
  BY DEF Passed
<1> QED BY <1>1, GoesOn, TamedSelf, Kept DEF Threads

LEMMA StoreRootKept ==
  ASSUME TypeOK, TypeOK', WithinLimit, StoreRoot PROVE WithinLimit'
<1>1. PICK s : s # "check" /\ Goes("sync", s)
  BY DEF StoreRoot
<1> QED BY <1>1, GoesOn, TamedSelf, Kept DEF StoreRoot, Threads

\* setValues is called: a ticket, if the thread had one, is used up by it.
LEMMA SetValuesKept ==
  ASSUME TypeOK, TypeOK', WithinLimit, NEW p \in Threads, NEW d, NEW n, NEW m, NEW v,
         NEW known, SetValues(p, d, n, m, v, known),
         Here(tmp, n, d) => /\ m \in NodeType
                            /\ \/ m.retry_count = 1 /\ call[p].state # "check"
                               \/ m.retry_count = 0
                               \/ m.retry_count = tmp[n].retry_count
                               \/ /\ m.retry_count = tmp[n].retry_count + 1
                                  /\ call[p].state = "check" /\ call[p].node = n
  PROVE  WithinLimit'
<1>1. PICK w \in NodeType \cup {m} :
        /\ tmp' = Put(tmp, n, d, w)
        /\ Here(tmp, n, d) => w.retry_count = m.retry_count
  <2>1. CASE d \in ScalarDocs
    BY <2>1 DEF SetValues
  <2>2. CASE d \notin ScalarDocs
    <3>1. PICK x \in TransIds : tmp' = Put(tmp, n, d, [m EXCEPT !.trans_id = x])
      BY <2>2 DEF SetValues
    <3> DEFINE k == [m EXCEPT !.trans_id = x]
    <3>2. m \in NodeType => k \in NodeType /\ k.retry_count = m.retry_count
      BY DEF NodeType, Trans
    <3>3. tmp' = Put(tmp, n, d, k)
      BY <3>1
    <3> HIDE DEF k
    <3>4. CASE Here(tmp, n, d)
      BY <3>2, <3>3, <3>4
    <3>5. CASE ~Here(tmp, n, d)
      BY <3>3, <3>5 DEF Put
    <3> QED BY <3>4, <3>5
  <2> QED BY <2>1, <2>2
<1>2. /\ call'[p].state # "check"
      /\ \A q \in Threads : q # p => call'[q] = call[q]
  BY DEF SetValues, TypeOK
<1>3. MaxRetry \in Nat \ {0}
  BY NumbersAssumption
<1> SUFFICES ASSUME NEW a \in DOMAIN tmp'
             PROVE  tmp'[a].retry_count + Tickets(a)' <= MaxRetry + 1
  BY DEF WithinLimit
<1>4. /\ Tickets(a) \in 0..2 /\ Tickets(a)' \in 0..1 /\ Tickets(a)' <= Tickets(a)
      /\ call[p].state = "check" /\ call[p].node = a => Tickets(a)' + 1 = Tickets(a)
  BY <1>2 DEF Tickets, Ticket, Threads
<1>5. a \in DOMAIN tmp /\ tmp[a].retry_count \in Nat
      /\ tmp[a].retry_count + Tickets(a) <= MaxRetry + 1
  BY <1>1 DEF WithinLimit, TypeOK, NodeType, Put
<1>6. CASE a = n /\ Here(tmp, n, d)
  <2>1. tmp'[a].retry_count = m.retry_count
    BY <1>1, <1>5, <1>6 DEF Put, Here
  <2> QED BY <1>3, <1>4, <1>5, <1>6, <2>1
<1>7. CASE ~(a = n /\ Here(tmp, n, d))
  <2>1. tmp'[a] = tmp[a]
    BY <1>1, <1>5, <1>7 DEF Put, Here
  <2> QED BY <1>3, <1>4, <1>5, <2>1
<1> QED BY <1>6, <1>7

LEMMA SendDocKept ==
  ASSUME TypeOK, TypeOK', WithinLimit, SendDoc PROVE WithinLimit'
<1> DEFINE m(a, n) == Updated(tmp[n], mp[a].version, "pending", "none", 0, NoTrans, FALSE)
           k(a, n) == [m(a, n) EXCEPT !.retry_count = 1]
<1>1. PICK a \in Applicable : \E n \in Pointer(tmp, mp[a].name) :
        SetValues("sync", mp[a].name, n, k(a, n), mp[a].version, 0)
  BY DEF SendDoc
<1>2. PICK n \in Pointer(tmp, mp[a].name) :
        SetValues("sync", mp[a].name, n, k(a, n), mp[a].version, 0)
  BY <1>1
<1>3. a \in DOMAIN mp /\ n \in DOMAIN tmp
  BY ApplicableNode
<1>4. mp[a].version \in Nat \ {0} /\ tmp[n] \in NodeType
  BY <1>3 DEF TypeOK, PartType
<1>5. m(a, n) \in NodeType
  BY <1>4, ListedValues, UpdatedType
<1> HIDE DEF m
<1>6. k(a, n) \in NodeType /\ k(a, n).retry_count = 1
  BY <1>5 DEF NodeType
<1>7. call["sync"].state # "check"
  BY DEF SendDoc, NoCall
<1> HIDE DEF k
<1> QED BY <1>2, <1>6, <1>7, SetValuesKept DEF Threads

LEMMA AddToTmpListKept ==
  ASSUME TypeOK, TypeOK', WithinLimit, AddToTmpList PROVE WithinLimit'
<1> DEFINE t == IF supp THEN tmp ELSE SetRoot(tmp, RootVersion, "pending")
           S == {a \in Subdocs(t) : OfThisSync(t[a].name)}
           u == DeleteEach(t, S)
           root == [a \in IF u = Empty /\ mp # Empty THEN {0} ELSE {}
                      |-> Node(Root, RootVersion, "pending")]
           new == [a \in {x \in DOMAIN mp : OfThisSync(mp[x].name)} |->
                      Node(mp[a].name, mp[a].version, "pending_apply")]
<1>1. tmp' = Join(u, Join(root, new)) /\ UNCHANGED call
  BY DEF AddToTmpList
<1>2. NodeList(t) /\ Tamed(t, tmp)
  <2>1. RootVersion \in Nat /\ "pending" \in Statuses
    BY ListedValues DEF RootVersion, TypeOK
  <2> QED BY <2>1, TypeList, SetRootType, SetRootTamed, TamedSelf DEF Rewritten
<1>3. Tamed(u, t)
  <2>1. \A a \in DOMAIN u : a \in DOMAIN t /\ u[a] = t[a]
    BY <1>2, DeleteEachType
  <2> HIDE DEF u, t
  <2> QED BY <2>1 DEF Tamed
<1>4. \A a \in DOMAIN root : root[a].retry_count = 0
  BY DEF Node
<1>5. \A a \in DOMAIN new : new[a].retry_count = 0
  BY DEF Node
<1> HIDE DEF t, S, u, root, new
<1>6. Tamed(u, tmp)
  BY <1>2, <1>3, TamedTrans
<1>7. Tamed(tmp', tmp)
  BY <1>1, <1>4, <1>5, <1>6 DEF Tamed, Join
<1> QED BY <1>1, <1>7, Kept

LEMMA DecodeFailsKept ==
  ASSUME TypeOK, TypeOK', WithinLimit, DecodeFails PROVE WithinLimit'
<1> DEFINE t(a, n) == Put(tmp, n, mp[a].name,
                          Updated(tmp[n], mp[a].version, "failed", "decode_failed",
                                  OwnCode, NoTrans, FALSE))
<1>1. PICK a \in Applicable : \E n \in Pointer(tmp, mp[a].name) : tmp' = t(a, n)
  BY DEF DecodeFails
<1>2. Tamed(tmp', tmp)
  BY <1>1, TypeList, PutUpdatedTamed
<1> QED BY <1>2, Kept DEF DecodeFails

LEMMA SetSucceedsKept ==
  ASSUME TypeOK, TypeOK', WithinLimit, SetSucceeds PROVE WithinLimit'
BY AppliedKept, PassedKept DEF SetSucceeds, Threads

LEMMA SetFailsKept ==
  ASSUME TypeOK, TypeOK', WithinLimit, NEW code \in FailCodes, SetFails(code)
  PROVE  WithinLimit'
<1> DEFINE c == call["sync"]
           later == code \in {Crash, NotThere}
           details == IF Unsupported(c.doc, code) THEN "doc_unsupported"
                      ELSE IF later THEN "failed_retrying" ELSE "doc_rejected"
           t == Put(tmp, c.node, c.doc, Updated(tmp[c.node], c.version, "failed",
                                                details, code, NoTrans, later))
<1>1. tmp' = t /\ (Goes("sync", "rooted") \/ Goes("sync", "none"))
  BY DEF SetFails
<1>2. c.version \in Nat /\ details \in Details /\ code \in Codes /\ later \in BOOLEAN
  BY CallKnown, ListedValues DEF SetFails, MayFail, Threads
<1> HIDE DEF c, details, later
<1>3. Tamed(t, tmp)
  BY <1>2, TypeList, PutUpdatedTamed
<1> HIDE DEF t
<1> QED BY <1>1, <1>3, Kept, GoesOn DEF Threads

\* The first half of a retry: a ticket is given for a count below the limit.
LEMMA RetryKept ==
  ASSUME TypeOK, TypeOK', WithinLimit, NEW p \in Threads, call[p] = NoCall,
         NEW n, NEW d, NEW known, Retry(p, n, d, known)
  PROVE  WithinLimit'
<1> DEFINE m == Put(tmp, n, d, Exhausted(tmp[n]))
           begun == [NoCall EXCEPT !.doc = d, !.node = n, !.known = known, !.state = "check"]
<1>1. \/ tmp' = GiveUp(p, tmp, n, d, known) /\ UNCHANGED call
      \/ tmp' = GiveUp(p, m, n, d, known) /\ UNCHANGED call
      \/ /\ UNCHANGED tmp /\ n \in DOMAIN tmp /\ RetriesLeft(tmp[n])
         /\ call' = [call EXCEPT ![p] = begun]
  BY DEF Retry
<1>2. NodeList(m) /\ Tamed(m, tmp)
  <2>1. ASSUME Here(tmp, n, d)
        PROVE  /\ Exhausted(tmp[n]) \in NodeType
               /\ \/ Exhausted(tmp[n]).retry_count = 0
                  \/ Exhausted(tmp[n]).retry_count = tmp[n].retry_count
    <3>1. tmp[n] \in NodeType
      BY <2>1, TypeList DEF Here, NodeList
    <3>2. \/ Exhausted(tmp[n]).retry_count = 0
          \/ Exhausted(tmp[n]).retry_count = tmp[n].retry_count
      BY <3>1 DEF Exhausted, Updated, NodeType
    <3> QED BY <3>1, <3>2, ExhaustedType
  <2>2. NodeList(m)
    BY <2>1, TypeList, PutType DEF Rewritten
  <2>3. Tamed(m, tmp)
    BY <2>1, TypeList, PutTamed
  <2> QED BY <2>2, <2>3
<1>3. begun.state = "check" /\ begun.node = n
  BY DEF NoCall
<1> HIDE DEF m, begun
<1>4. CASE tmp' = GiveUp(p, tmp, n, d, known) /\ UNCHANGED call
  BY <1>4, TypeList, GiveUpTamed, Kept
<1>5. CASE tmp' = GiveUp(p, m, n, d, known) /\ UNCHANGED call
  <2>1. Tamed(tmp', m)
    BY <1>2, <1>5, GiveUpTamed
  <2>2. Tamed(tmp', tmp)
    BY <1>2, <2>1, TamedTrans
  <2> QED BY <1>5, <2>2, Kept
<1>6. CASE /\ UNCHANGED tmp /\ n \in DOMAIN tmp /\ RetriesLeft(tmp[n])
           /\ call' = [call EXCEPT ![p] = begun]
  <2> SUFFICES ASSUME NEW a \in DOMAIN tmp
               PROVE  tmp[a].retry_count + Tickets(a)' <= MaxRetry + 1
    BY <1>6 DEF WithinLimit
  <2>1. /\ call'[p].node = n /\ call[p].state # "check"
        /\ \A q \in Threads : q # p => call'[q] = call[q]
    BY <1>3, <1>6 DEF TypeOK, NoCall
  <2>2. Tickets(a) \in 0..1 /\ Tickets(a)' \in 0..2 /\ (a # n => Tickets(a)' = Tickets(a))
    BY <2>1 DEF Tickets, Ticket, Threads
  <2>3. tmp[a].retry_count \in Nat /\ tmp[a].retry_count + Tickets(a) <= MaxRetry + 1
    BY DEF WithinLimit, TypeOK, NodeType
  <2>4. MaxRetry \in Nat
    BY NumbersAssumption
  <2>5. CASE a = n
    <3>1. tmp[a].retry_count < MaxRetry
      BY <1>6, <2>5 DEF RetriesLeft
    <3> QED BY <2>2, <2>3, <2>4, <3>1
  <2> QED BY <2>2, <2>3, <2>5
<1> QED BY <1>1, <1>4, <1>5, <1>6

\* The count of a node rises by one when the ticket for it is given back.
LEMMA TicketSpent ==
  ASSUME TypeOK, TypeOK', WithinLimit, NEW p \in Threads,
         call' = [call EXCEPT ![p] = NoCall],
         NEW u, Tamed(tmp', u),
         \A a \in DOMAIN u :
           \/ u[a].retry_count = 0
           \/ a \in DOMAIN tmp /\ u[a].retry_count = tmp[a].retry_count
           \/ /\ a \in DOMAIN tmp /\ u[a].retry_count = tmp[a].retry_count + 1
              /\ call[p].state = "check" /\ call[p].node = a
  PROVE  WithinLimit'
<1> SUFFICES ASSUME NEW a \in DOMAIN tmp'
             PROVE  tmp'[a].retry_count + Tickets(a)' <= MaxRetry + 1
  BY DEF WithinLimit
<1>1. /\ call'[p].state # "check"
      /\ \A q \in Threads : q # p => call'[q] = call[q]
  BY DEF TypeOK, NoCall
<1>2. /\ Tickets(a) \in 0..2 /\ Tickets(a)' \in 0..1 /\ Tickets(a)' <= Tickets(a)
      /\ call[p].state = "check" /\ call[p].node = a => Tickets(a)' + 1 = Tickets(a)
  BY <1>1 DEF Tickets, Ticket, Threads
<1>3. MaxRetry \in Nat \ {0}
  BY NumbersAssumption
<1>4. a \in DOMAIN tmp => tmp[a].retry_count \in Nat
                          /\ tmp[a].retry_count + Tickets(a) <= MaxRetry + 1
  BY DEF WithinLimit, TypeOK, NodeType
<1>5. \/ tmp'[a].retry_count = 0
      \/ a \in DOMAIN tmp /\ tmp'[a].retry_count = tmp[a].retry_count
      \/ /\ a \in DOMAIN tmp /\ tmp'[a].retry_count = tmp[a].retry_count + 1
         /\ call[p].state = "check" /\ call[p].node = a
  BY DEF Tamed
<1> QED BY <1>2, <1>3, <1>4, <1>5

LEMMA RetrySendKept ==
  ASSUME TypeOK, TypeOK', WithinLimit, NEW p \in Threads, RetrySend(p)
  PROVE  WithinLimit'
<1> DEFINE c == call[p]
           m == [tmp[c.node] EXCEPT !.retry_count = @ + 1]
           Garbled(a) == Updated(m, mp[a].version, "failed", "decode_failed",
                                 OwnCode, NoTrans, FALSE)
           Resent(a) == IF c.doc \in ScalarDocs THEN m
                          ELSE Updated(m, mp[a].version, "pending",
                                       "failed_retrying", 0, NoTrans, TRUE)
           Fails(u) == /\ tmp' = GiveUp(p, u, c.node, c.doc, c.known)
                       /\ call' = [call EXCEPT ![p] = NoCall]
           Counts(n) == \/ n.retry_count = 0
                        \/ n.retry_count = tmp[c.node].retry_count + 1
           At == Here(tmp, c.node, c.doc)
<1>1. \/ Fails(Put(tmp, c.node, c.doc, m))
      \/ \E a \in Named(mp, c.doc) :
           \/ Fails(Put(tmp, c.node, c.doc, Garbled(a)))
           \/ SetValues(p, c.doc, c.node, Resent(a), mp[a].version, c.known)
  BY DEF RetrySend
<1>2. c.state = "check"
  BY DEF RetrySend
<1>3. NodeList(tmp) /\ \A a \in Named(mp, c.doc) : mp[a].version \in Nat
  BY TypeList DEF Named, TypeOK, PartType
<1>4. At => m \in NodeType /\ Counts(m)
  <2> HIDE DEF c
  <2> QED BY <1>3 DEF Here, NodeList, NodeType
<1>5. ASSUME NEW a \in Named(mp, c.doc), At
      PROVE  /\ Garbled(a) \in NodeType /\ Counts(Garbled(a))
             /\ Resent(a) \in NodeType /\ Counts(Resent(a))
  <2> DEFINE w == Updated(m, mp[a].version, "pending", "failed_retrying", 0, NoTrans, TRUE)
  <2>1. m \in NodeType /\ Counts(m) /\ mp[a].version \in Nat
    BY <1>3, <1>4, <1>5
  <2> HIDE DEF m
  <2>2. Garbled(a) \in NodeType /\ w \in NodeType
    BY <2>1, ListedValues, UpdatedType
  <2>3. Garbled(a).retry_count = 0 /\ w.retry_count = m.retry_count
    BY <2>1 DEF Updated, NodeType
  <2>4. Resent(a) = m \/ Resent(a) = w
    OBVIOUS
  <2> HIDE DEF w, Garbled, Resent
  <2> QED BY <2>1, <2>2, <2>3, <2>4
<1> HIDE DEF m, Garbled, Resent
<1>6. ASSUME NEW n, At => n \in NodeType /\ Counts(n), Fails(Put(tmp, c.node, c.doc, n))
      PROVE  WithinLimit'
  <2> DEFINE u == Put(tmp, c.node, c.doc, n)
  <2>1. NodeList(u)
    BY <1>3, <1>6, PutType DEF Rewritten
  <2>2. \A a \in DOMAIN u :
          /\ a \in DOMAIN tmp
          /\ u[a] = tmp[a] \/ (a = c.node /\ At /\ u[a] = n)
    BY DEF Put, Here
  <2>3. \A a \in DOMAIN u :
           \/ u[a].retry_count = 0
           \/ a \in DOMAIN tmp /\ u[a].retry_count = tmp[a].retry_count
           \/ /\ a \in DOMAIN tmp /\ u[a].retry_count = tmp[a].retry_count + 1
              /\ call[p].state = "check" /\ call[p].node = a
    BY <1>2, <1>6, <2>2
  <2> HIDE DEF u
  <2>4. Tamed(tmp', u)
    BY <1>6, <2>1, GiveUpTamed DEF u
  <2> QED BY <1>6, <2>3, <2>4, TicketSpent
<1>7. CASE Fails(Put(tmp, c.node, c.doc, m))
  BY <1>4, <1>6, <1>7
<1>8. ASSUME NEW a \in Named(mp, c.doc), Fails(Put(tmp, c.node, c.doc, Garbled(a)))
      PROVE  WithinLimit'
  BY <1>5, <1>6, <1>8
<1>9. ASSUME NEW a \in Named(mp, c.doc),
             SetValues(p, c.doc, c.node, Resent(a), mp[a].version, c.known)
      PROVE  WithinLimit'
  <2>1. At => Resent(a) \in NodeType /\ Counts(Resent(a))
    BY <1>5
  <2> QED BY <1>2, <1>9, <2>1, SetValuesKept
<1> QED BY <1>1, <1>7, <1>8, <1>9

LEMMA RetrySucceedsKept ==
  ASSUME TypeOK, TypeOK', WithinLimit, NEW p \in Threads, RetrySucceeds(p)
  PROVE  WithinLimit'
<1>1. CASE Applied(p)
  BY <1>1, AppliedKept
<1>2. CASE Goes(p, "none") /\ UNCHANGED tmp
  BY <1>2, GoesOn, TamedSelf, Kept
<1> QED BY <1>1, <1>2 DEF RetrySucceeds

LEMMA RetryFailsKept ==
  ASSUME TypeOK, TypeOK', WithinLimit, NEW p \in Threads, NEW code \in FailCodes,
         RetryFails(p, code)
  PROVE  WithinLimit'
<1> DEFINE c == call[p]
           again == Put(tmp, c.node, c.doc, Updated(tmp[c.node], c.version,
                          "pending", "failed_retrying", code, NoTrans, TRUE))
           rejected == Put(tmp, c.node, c.doc, Updated(tmp[c.node], c.version,
                             "failed", "doc_rejected", code, NoTrans, FALSE))
<1>1. /\ \/ tmp' = GiveUp(p, again, c.node, c.doc, c.known)
         \/ tmp' = GiveUp(p, rejected, c.node, c.doc, c.known)
      /\ call' = [call EXCEPT ![p] = NoCall]
  BY DEF RetryFails
<1>2. c.version \in Nat /\ code \in Codes
  BY CallKnown, ListedValues
<1> HIDE DEF c
<1>3. NodeList(again) /\ NodeList(rejected)
  BY <1>2, TypeList, ListedValues, PutUpdatedType DEF Rewritten
<1>4. Tamed(again, tmp) /\ Tamed(rejected, tmp)
  BY TypeList, PutUpdatedTamed
<1> HIDE DEF again, rejected
<1>5. Tamed(tmp', tmp)
  BY <1>1, <1>3, <1>4, GiveUpTamed, TamedTrans
<1> QED BY <1>1, <1>5, Kept, CallEnds

LEMMA ReleaseSuccessDocsKept ==
  ASSUME TypeOK, TypeOK', WithinLimit, ReleaseSuccessDocs PROVE WithinLimit'
<1>1. PICK S : tmp' = DeleteEach(tmp, S)
  BY DEF ReleaseSuccessDocs
<1>2. \A a \in DOMAIN tmp' : a \in DOMAIN tmp /\ tmp'[a] = tmp[a]
  BY <1>1, DeleteEachType, TypeList
<1>3. Tamed(tmp', tmp)
  BY <1>2 DEF Tamed
<1> QED BY <1>3, Kept DEF ReleaseSuccessDocs

LEMMA HandleEventKept ==
  ASSUME TypeOK, TypeOK', WithinLimit, HandleEvent PROVE WithinLimit'
<1> DEFINE e == Head(events)
<1>1. e \in EventType
  <2>1. events \in Seq(EventType) /\ events # <<>>
    BY DEF TypeOK, HandleEvent
  <2> QED BY <2>1
<1>2. PICK n \in Pointer(tmp, e.doc) :
        \/ HandleAck(e, n) \/ HandleNack(e, n) \/ HandleTimeout(e, n)
        \/ HandleExpire(e, n) \/ HandleInit(e, n)
  BY DEF HandleEvent
<1>3. call["event"] = NoCall
  BY DEF HandleEvent
<1> HIDE DEF e
<1>4. ASSUME Tamed(tmp', tmp), UNCHANGED call PROVE WithinLimit'
  BY <1>4, Kept
<1>5. ASSUME UNCHANGED <<tmp, call>> PROVE WithinLimit'
  BY <1>4, <1>5, TamedSelf
<1>6. ASSUME Retry("event", n, e.doc, TmpVersion(n)) PROVE WithinLimit'
  BY <1>3, <1>6, RetryKept DEF Threads
<1>7. ASSUME NEW s, s # "check", Settles(e, n, s), UNCHANGED tmp
      PROVE  WithinLimit'
  <2> DEFINE r == [doc |-> e.doc, node |-> n, version |-> e.version, known |-> 0,
                   trans |-> e.trans_id, state |-> s]
  <2>1. call' = [call EXCEPT !["event"] = r] /\ r.state # "check"
    BY <1>7 DEF Settles
  <2> HIDE DEF r
  <2> QED BY <1>7, <2>1, CallMoves, TamedSelf, Kept DEF Threads
<1>8. CASE HandleAck(e, n)
  BY <1>5, <1>7, <1>8 DEF HandleAck
<1>9. CASE HandleNack(e, n)
  BY <1>5, <1>7, <1>9 DEF HandleNack
<1>10. CASE HandleTimeout(e, n)
  BY <1>5, <1>10 DEF HandleTimeout, lists
<1>11. CASE HandleExpire(e, n)
  BY <1>5, <1>6, <1>11 DEF HandleExpire, lists
<1>12. CASE HandleInit(e, n)
  <2>1. \/ Settles(e, n, "valid") /\ UNCHANGED tmp
        \/ Retry("event", n, e.doc, TmpVersion(n))
        \/ UNCHANGED <<tmp, call>>
    BY <1>12 DEF HandleInit, lists
  <2> QED BY <1>5, <1>6, <1>7, <2>1
<1> QED BY <1>2, <1>8, <1>9, <1>10, <1>11, <1>12

LEMMA NextKept ==
  ASSUME TypeOK, TypeOK', WithinLimit, [Next]_vars PROVE WithinLimit'
<1>1. ASSUME UNCHANGED <<tmp, call>> PROVE WithinLimit'
  BY <1>1, TamedSelf, Kept
<1>2. CASE \/ Refresh \/ (\E b \in Bundles : Fetch(b)) \/ StartFailedDocsRetry
           \/ UNCHANGED vars
  BY <1>1, <1>2, RefreshKept DEF Fetch, StartFailedDocsRetry, vars, lists
<1>3. CASE ReleaseSuccessDocs
  BY <1>3, ReleaseSuccessDocsKept
<1>4. CASE SyncStep
  <2>1. CASE AddToTmpList \/ SendDoc \/ DecodeFails
    BY <2>1, AddToTmpListKept, SendDocKept, DecodeFailsKept
  <2>2. CASE SetSucceeds \/ \E code \in FailCodes : SetFails(code)
    BY <2>2, SetSucceedsKept, SetFailsKept
  <2>3. CASE \/ RetrySucceeds("sync") \/ RetrySend("sync")
             \/ \E code \in FailCodes : RetryFails("sync", code)
    BY <2>3, RetrySucceedsKept, RetrySendKept, RetryFailsKept DEF Threads
  <2>4. CASE RetryNext
    <3>1. call["sync"] = NoCall /\ \E a : Retry("sync", a, tmp[a].name, 0)
      BY <2>4 DEF RetryNext
    <3> QED BY <3>1, RetryKept DEF Threads
  <2>5. CASE ParseFails \/ Parse \/ EndLoop \/ NotYetDue \/ EndFailedDocsRetry
    BY <1>1, <2>5 DEF ParseFails, Parse, EndLoop, NotYetDue, EndFailedDocsRetry, lists
  <2>6. CASE NoBundle
    BY <1>1, <2>6 DEF NoBundle
  <2>7. CASE StoreRoot
    BY <2>7, StoreRootKept
  <2>8. CASE LoopRecords
    BY <2>8, PassedKept DEF LoopRecords
  <2>9. CASE RecordStep("sync")
    BY <2>9, RecordStepKept DEF Threads
  <2> QED BY <1>4, <2>1, <2>2, <2>3, <2>4, <2>5, <2>6, <2>7, <2>8, <2>9 DEF SyncStep
<1>5. CASE EventStep
  BY <1>5, HandleEventKept, RecordStepKept, RetrySucceedsKept, RetrySendKept, RetryFailsKept
     DEF EventStep, Threads
<1>6. CASE TimerStep
  BY <1>1, <1>6 DEF TimerStep, TimerExpires, TimerCheck, lists
<1>7. CASE ComponentStep
  BY <1>1, <1>7 DEF ComponentStep, ComponentAccepts, ComponentRefuses,
     ComponentNeedsTime, ComponentRestarts, lists
<1> QED BY <1>2, <1>3, <1>4, <1>5, <1>6, <1>7 DEF Next

\* A document is sent again at most MAX_APPLY_RETRY_COUNT times, and once more
\* when two threads compare its count before either increments it, however the
\* retries of the sync thread, expired timers and restarts of components mix.
THEOREM RetryBoundedCorrect == Spec => []RetryBounded
<1>1. Init => WithinLimit
  BY DEF Init, WithinLimit, Empty
<1>2. TypeOK /\ TypeOK' /\ WithinLimit /\ [Next]_vars => WithinLimit'
  BY NextKept
<1>3. WithinLimit => RetryBounded
  BY WithinLimitBounds
<1> QED BY <1>1, <1>2, <1>3, TypeCorrect, PTL DEF Spec
=============================================================================
