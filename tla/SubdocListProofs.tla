--------------------------- MODULE SubdocListProofs ---------------------------
(***************************************************************************)
(* Proofs about SubdocApply, continued: what the two threads make of the   *)
(* tmp list between them. What the list shows as applied is recorded, no   *)
(* new document is skipped and root follows the last document, for any     *)
(* documents, codes and bounds.                                            *)
(*                                                                         *)
(* A list may hold several nodes of one name, for deleteFromTmpList leaves *)
(* some behind (next_node). getTmpNode finds the first of them: the others *)
(* are hidden until it is deleted, and nobody writes to them.              *)
(***************************************************************************)
EXTENDS SubdocApplyProofs

Behind(t, a) == \E b \in DOMAIN t : b < a /\ t[b].name = t[a].name
Front(t) == {a \in DOMAIN t : ~Behind(t, a)}

\* u is t after nodes that are not hidden have been written to: no node has
\* another name or becomes a new document.
Rewrites(u, t) ==
  /\ DOMAIN u = DOMAIN t
  /\ \A a \in DOMAIN t :
       /\ u[a].name = t[a].name
       /\ u[a] = t[a] \/ a \in Front(t)
       /\ u[a].status = "pending_apply" =>
            t[a].status = "pending_apply" /\ u[a].code = t[a].code

\* u is t after the node at n, if it has the name d, has been written to
\* without being marked "success" or "doc_unsupported" (and if it is pending, then
\* without details that would stop it); V are new versions.
Alike(m, k) == /\ m.status = k.status /\ m.code = k.code
               /\ m.details = k.details /\ m.version = k.version
Open(m) == \/ m.status = "pending" /\ m.details \in {"none", "failed_retrying"}
           \/ m.status = "failed" /\ m.details # "doc_unsupported"
Edits(u, t, n, d, V) ==
  /\ DOMAIN u = DOMAIN t
  /\ \A a \in DOMAIN t :
       \/ u[a] = t[a]
       \/ /\ a = n /\ t[a].name = d /\ u[a].name = d
          /\ u[a].version \in V \cup {t[a].version}
          /\ Alike(u[a], t[a]) \/ Open(u[a])

\* u is t after the node at n has been written to.
Gives(u, t, n, d, v, status) ==
  /\ DOMAIN u = DOMAIN t
  /\ \A a \in DOMAIN t :
       IF a = n /\ t[a].name = d
         THEN u[a].name = d /\ u[a].version = v /\ u[a].status = status
         ELSE u[a] = t[a]

-----------------------------------------------------------------------------
(* Writing to a list.                                                      *)

\* What getTmpNode finds is not hidden.
LEMMA PointerFront ==
  ASSUME NEW t, DOMAIN t \subseteq Nat, NEW d, NEW n \in Pointer(t, d), n # Null
  PROVE  n \in Front(t) /\ t[n].name = d
<1>1. n \in Named(t, d) /\ IsLeast(n, Named(t, d))
  BY DEF Pointer
<1>2. ASSUME NEW b \in DOMAIN t, b < n, t[b].name = t[n].name PROVE FALSE
  <2>1. b \in Named(t, d)
    BY <1>1, <1>2 DEF Named
  <2>2. n <= b /\ n \in Nat /\ b \in Nat
    BY <1>1, <2>1 DEF IsLeast, Named
  <2> QED BY <1>2, <2>2
<1> QED BY <1>1, <1>2 DEF Front, Behind, Named

\* Writing moves no node: the same ones are hidden, and getTmpNode finds the
\* same ones.
LEMMA RewritesPlaces ==
  ASSUME NEW t, NEW u, Rewrites(u, t)
  PROVE  /\ DOMAIN u = DOMAIN t /\ Front(u) = Front(t)
         /\ \A d : Named(u, d) = Named(t, d) /\ Pointer(u, d) = Pointer(t, d)
<1>1. DOMAIN u = DOMAIN t /\ \A a \in DOMAIN t : u[a].name = t[a].name
  BY DEF Rewrites
<1>2. \A a \in DOMAIN t : Behind(u, a) <=> Behind(t, a)
  BY <1>1 DEF Behind
<1>3. ASSUME NEW d PROVE Named(u, d) = Named(t, d) /\ Pointer(u, d) = Pointer(t, d)
  <2>1. Named(u, d) = Named(t, d)
    BY <1>1 DEF Named
  <2> QED BY <2>1 DEF Pointer
<1> QED BY <1>1, <1>2, <1>3 DEF Front

LEMMA RewritesTrans ==
  ASSUME NEW t, NEW u, NEW w, Rewrites(u, t), Rewrites(w, u)
  PROVE  Rewrites(w, t)
<1>1. Front(u) = Front(t) /\ DOMAIN u = DOMAIN t
  BY RewritesPlaces
<1> QED BY <1>1 DEF Rewrites

LEMMA RewritesSelf == ASSUME NEW t PROVE Rewrites(t, t)
BY DEF Rewrites

LEMMA EditsRewrites ==
  ASSUME NEW t, NEW u, NEW n, NEW d, NEW V, Edits(u, t, n, d, V),
         n \in Front(t) \/ n \notin DOMAIN t
  PROVE  Rewrites(u, t)
BY DEF Edits, Rewrites, Alike, Open

LEMMA GivesRewrites ==
  ASSUME NEW t, NEW u, NEW n, NEW d, NEW v, NEW s, Gives(u, t, n, d, v, s),
         s # "pending_apply", n \in Front(t) \/ n \notin DOMAIN t
  PROVE  Rewrites(u, t)
BY DEF Gives, Rewrites

LEMMA UpdatedFields ==
  ASSUME NEW k \in NodeType, NEW v, NEW s, NEW e, NEW c, NEW x, NEW r \in BOOLEAN
  PROVE  LET m == Updated(k, v, s, e, c, x, r)
         IN m.name = k.name /\ m.version = v /\ m.status = s /\ m.details = e /\ m.code = c
BY DEF Updated, NodeType

LEMMA SetRootRewrites ==
  ASSUME NEW t, NodeList(t), DOMAIN t \subseteq Nat, NEW v \in Nat,
         NEW s \in {"pending", "success"}
  PROVE  /\ Rewrites(SetRoot(t, v, s), t)
         /\ \A a \in DOMAIN t : t[a].name # Root => SetRoot(t, v, s)[a] = t[a]
         /\ \A a \in Pointer(t, Root) : a \in DOMAIN t =>
              /\ SetRoot(t, v, s)[a].version = v /\ SetRoot(t, v, s)[a].status = s
              /\ SetRoot(t, v, s)[a].code = 0
<1> DEFINE m(a) == Updated(t[a], v, s, "none", 0, NoTrans, FALSE)
<1>1. ASSUME NEW a \in DOMAIN t
      PROVE  m(a).name = t[a].name /\ m(a).status = s /\ m(a).version = v /\ m(a).code = 0
  <2>1. t[a] \in NodeType
    BY DEF NodeList
  <2> QED BY <2>1 DEF Updated, NodeType
<1>2. SetRoot(t, v, s) = [a \in DOMAIN t |-> IF a \in Pointer(t, Root) THEN m(a) ELSE t[a]]
  BY DEF SetRoot
<1>3. \A a \in Pointer(t, Root) : a \in DOMAIN t => a \in Front(t) /\ t[a].name = Root
  BY PointerFront DEF Null
<1> HIDE DEF m
<1>4. Rewrites(SetRoot(t, v, s), t)
  BY <1>1, <1>2, <1>3 DEF Rewrites
<1>5. \A a \in DOMAIN t : t[a].name # Root => SetRoot(t, v, s)[a] = t[a]
  BY <1>2, <1>3
<1> QED BY <1>1, <1>2, <1>4, <1>5

\* One write through a pointer, and two.
LEMMA SetRootOthers ==
  ASSUME NEW t, NEW v, NEW s
  PROVE  /\ DOMAIN SetRoot(t, v, s) = DOMAIN t
         /\ \A a \in DOMAIN t : a \notin Pointer(t, Root) => SetRoot(t, v, s)[a] = t[a]
BY DEF SetRoot

LEMMA PutEdits ==
  ASSUME NEW t, NEW n, NEW d, NEW m, NEW V,
         Here(t, n, d) => /\ m.name = d /\ m.version \in V \cup {t[n].version}
                          /\ Alike(m, t[n]) \/ Open(m)
  PROVE  Edits(Put(t, n, d, m), t, n, d, V)
BY DEF Edits, Put, Here

LEMMA EditsSelf ==
  ASSUME NEW t, NEW n, NEW d, NEW V PROVE Edits(t, t, n, d, V)
BY DEF Edits

LEMMA EditsTrans ==
  ASSUME NEW t, NEW u, NEW w, NEW n, NEW d, NEW V,
         Edits(u, t, n, d, V), Edits(w, u, n, d, V)
  PROVE  Edits(w, t, n, d, V)
BY DEF Edits, Alike, Open

LEMMA PutUpdatedEdits ==
  ASSUME NEW t, NodeList(t), NEW n, NEW d, NEW v, NEW s \in {"pending", "failed"},
         NEW e, IF s = "pending" THEN e \in {"none", "failed_retrying"}
                                 ELSE e # "doc_unsupported",
         NEW c, NEW x, NEW r \in BOOLEAN, NEW V, v \in V
  PROVE  Edits(Put(t, n, d, Updated(t[n], v, s, e, c, x, r)), t, n, d, V)
<1> DEFINE m == Updated(t[n], v, s, e, c, x, r)
<1>1. Here(t, n, d) => m.name = d /\ m.version = v /\ Open(m)
  <2>1. SUFFICES ASSUME Here(t, n, d) PROVE m.name = d /\ m.version = v /\ Open(m)
    OBVIOUS
  <2>2. t[n] \in NodeType /\ t[n].name = d
    BY <2>1 DEF Here, NodeList
  <2> QED BY <2>2, UpdatedFields DEF Open
<1> HIDE DEF m
<1>2. Edits(Put(t, n, d, m), t, n, d, V)
  BY <1>1, PutEdits
<1> QED BY <1>2 DEF m

LEMMA PutUpdatedGives ==
  ASSUME NEW t, NodeList(t), NEW n, NEW d, NEW v, NEW s, NEW e, NEW c, NEW x,
         NEW r \in BOOLEAN
  PROVE  Gives(Put(t, n, d, Updated(t[n], v, s, e, c, x, r)), t, n, d, v, s)
<1> DEFINE m == Updated(t[n], v, s, e, c, x, r)
<1>1. Here(t, n, d) => m.name = d /\ m.version = v /\ m.status = s
  <2>1. SUFFICES ASSUME Here(t, n, d) PROVE m.name = d /\ m.version = v /\ m.status = s
    OBVIOUS
  <2>2. t[n] \in NodeType /\ t[n].name = d
    BY <2>1 DEF Here, NodeList
  <2> QED BY <2>2, UpdatedFields
<1> HIDE DEF m
<1> QED BY <1>1 DEF Gives, Put, Here, m

-----------------------------------------------------------------------------
(* What the two threads write, other than a success.                       *)

USE DEF lists, stored, syncing, loop, outside

\* A thread keeps the address n of document d's node for a retry.
Begun(n, d, known) ==
  [NoCall EXCEPT !.doc = d, !.node = n, !.known = known, !.state = "check"]

LEMMA GiveUpEdits ==
  ASSUME NEW t, NodeList(t), NEW p, NEW n, NEW d, NEW known, NEW V,
         p = "event" => known \in V
  PROVE  Edits(GiveUp(p, t, n, d, known), t, n, d, V)
BY PutUpdatedEdits, EditsSelf DEF GiveUp

\* setValues is called.
LEMMA SetValuesEdits ==
  ASSUME NEW p, NEW d, NEW n, NEW m, NEW v, NEW known, NEW V,
         SetValues(p, d, n, m, v, known),
         Here(tmp, n, d) => /\ m \in NodeType /\ m.name = d
                            /\ m.version \in V \cup {tmp[n].version}
                            /\ Alike(m, tmp[n]) \/ Open(m)
  PROVE  Edits(tmp', tmp, n, d, V)
<1>1. CASE d \in ScalarDocs
  <2>1. tmp' = Put(tmp, n, d, m)
    BY <1>1 DEF SetValues
  <2> QED BY <2>1, PutEdits
<1>2. CASE d \notin ScalarDocs
  <2>1. PICK x \in TransIds : tmp' = Put(tmp, n, d, [m EXCEPT !.trans_id = x])
    BY <1>2 DEF SetValues
  <2> DEFINE k == [m EXCEPT !.trans_id = x]
  <2>2. Here(tmp, n, d) => /\ k.name = d /\ k.version \in V \cup {tmp[n].version}
                           /\ Alike(k, tmp[n]) \/ Open(k)
    <3>1. m \in NodeType => k.name = m.name /\ k.version = m.version
                            /\ k.status = m.status /\ k.code = m.code /\ k.details = m.details
      BY DEF NodeType
    <3> HIDE DEF k
    <3> QED BY <3>1 DEF Alike, Open
  <2> HIDE DEF k
  <2> QED BY <2>1, <2>2, PutEdits DEF k
<1> QED BY <1>1, <1>2

\* The first half of a retry.
LEMMA RetryEdits ==
  ASSUME TypeOK, NEW p, NEW n, NEW d, NEW known, Retry(p, n, d, known), NEW V,
         p = "event" => known \in V
  PROVE  /\ Edits(tmp', tmp, n, d, V)
         /\ \/ UNCHANGED call
            \/ n \in DOMAIN tmp /\ call' = [call EXCEPT ![p] = Begun(n, d, known)]
<1> DEFINE m == Put(tmp, n, d, Exhausted(tmp[n]))
           begun == Begun(n, d, known)
<1>1. \/ tmp' = GiveUp(p, tmp, n, d, known) /\ UNCHANGED call
      \/ tmp' = GiveUp(p, m, n, d, known) /\ UNCHANGED call
      \/ UNCHANGED tmp /\ n \in DOMAIN tmp /\ call' = [call EXCEPT ![p] = begun]
  BY DEF Retry, Begun
<1>2. NodeList(m) /\ Edits(m, tmp, n, d, V)
  <2>1. ASSUME Here(tmp, n, d)
        PROVE  /\ Exhausted(tmp[n]) \in NodeType
               /\ Exhausted(tmp[n]).name = d
               /\ Exhausted(tmp[n]).version = tmp[n].version
               /\ Alike(Exhausted(tmp[n]), tmp[n]) \/ Open(Exhausted(tmp[n]))
    <3>1. tmp[n] \in NodeType /\ tmp[n].name = d
      BY <2>1, TypeList DEF Here, NodeList
    <3>2. /\ Exhausted(tmp[n]).name = d
          /\ Exhausted(tmp[n]).version = tmp[n].version
          /\ Alike(Exhausted(tmp[n]), tmp[n]) \/ Open(Exhausted(tmp[n]))
      BY <3>1 DEF Exhausted, Updated, NodeType, Alike, Open
    <3> QED BY <3>1, <3>2, ExhaustedType
  <2> HIDE DEF m
  <2>2. NodeList(m)
    BY <2>1, TypeList, PutType DEF Rewritten, m
  <2>3. Edits(m, tmp, n, d, V)
    BY <2>1, PutEdits DEF m
  <2> QED BY <2>2, <2>3
<1> HIDE DEF m, begun
<1>3. Edits(tmp', tmp, n, d, V)
  BY <1>1, <1>2, TypeList, GiveUpEdits, EditsSelf, EditsTrans
<1> QED BY <1>1, <1>3 DEF begun

\* The second half of a retry.
LEMMA RetrySendEdits ==
  ASSUME TypeOK, NEW p, RetrySend(p), NEW V,
         p = "event" => call[p].known \in V,
         \A a \in Named(mp, call[p].doc) : mp[a].version \in V
  PROVE  /\ Edits(tmp', tmp, call[p].node, call[p].doc, V)
         /\ \/ call' = [call EXCEPT ![p] = NoCall]
            \/ \E a \in Named(mp, call[p].doc), s \in {"sent", "unsent"} :
                 /\ IsLeast(a, Named(mp, call[p].doc))
                 /\ call' = [call EXCEPT ![p] = [doc |-> call[p].doc,
                      node |-> call[p].node, version |-> mp[a].version,
                      known |-> call[p].known, trans |-> NoTrans,
                      state |-> s]]
<1> DEFINE c == call[p]
           m == [tmp[c.node] EXCEPT !.retry_count = @ + 1]
           Garbled(a) == Updated(m, mp[a].version, "failed", "decode_failed",
                                 OwnCode, NoTrans, FALSE)
           Resent(a) == IF c.doc \in ScalarDocs THEN m
                          ELSE Updated(m, mp[a].version, "pending",
                                       "failed_retrying", 0, NoTrans, TRUE)
           Fails(u) == /\ tmp' = GiveUp(p, u, c.node, c.doc, c.known)
                       /\ call' = [call EXCEPT ![p] = NoCall]
           May(k) == /\ k \in NodeType /\ k.name = c.doc
                     /\ k.version \in V \cup {tmp[c.node].version}
                     /\ Alike(k, tmp[c.node]) \/ Open(k)
           At == Here(tmp, c.node, c.doc)
<1>1. \/ Fails(Put(tmp, c.node, c.doc, m))
      \/ \E a \in Named(mp, c.doc) :
           /\ IsLeast(a, Named(mp, c.doc))
           /\ \/ Fails(Put(tmp, c.node, c.doc, Garbled(a)))
              \/ SetValues(p, c.doc, c.node, Resent(a), mp[a].version, c.known)
  BY DEF RetrySend
<1>2. NodeList(tmp) /\ \A a \in Named(mp, c.doc) : mp[a].version \in Nat
  BY TypeList DEF Named, TypeOK, PartType
<1>3. At => m \in NodeType /\ May(m)
  <2> HIDE DEF c
  <2> QED BY <1>2 DEF Here, NodeList, NodeType, Alike
<1>4. ASSUME NEW a \in Named(mp, c.doc), At
      PROVE  May(Garbled(a)) /\ May(Resent(a))
  <2> DEFINE w == Updated(m, mp[a].version, "pending", "failed_retrying", 0, NoTrans, TRUE)
  <2>1. m \in NodeType /\ May(m) /\ mp[a].version \in Nat /\ mp[a].version \in V
    BY <1>2, <1>3, <1>4
  <2> HIDE DEF m
  <2>2. Garbled(a) \in NodeType /\ w \in NodeType
    BY <2>1, ListedValues, UpdatedType
  <2>3. /\ Garbled(a).name = m.name /\ Garbled(a).version = mp[a].version /\ Open(Garbled(a))
        /\ w.name = m.name /\ w.version = mp[a].version /\ Open(w)
    BY <2>1 DEF Updated, NodeType, Open
  <2>4. Resent(a) = m \/ Resent(a) = w
    OBVIOUS
  <2> HIDE DEF w, Garbled, Resent
  <2> QED BY <2>1, <2>2, <2>3, <2>4
<1> HIDE DEF m, Garbled, Resent
<1>5. ASSUME NEW k, At => May(k), Fails(Put(tmp, c.node, c.doc, k))
      PROVE  Edits(tmp', tmp, c.node, c.doc, V)
  <2> DEFINE u == Put(tmp, c.node, c.doc, k)
  <2>1. NodeList(u) /\ Edits(u, tmp, c.node, c.doc, V)
    BY <1>2, <1>5, PutType, PutEdits DEF Rewritten
  <2> HIDE DEF u
  <2>2. Edits(tmp', u, c.node, c.doc, V)
    BY <1>5, <2>1, GiveUpEdits DEF u
  <2> QED BY <2>1, <2>2, EditsTrans
<1>6. CASE Fails(Put(tmp, c.node, c.doc, m))
  BY <1>3, <1>5, <1>6
<1>7. ASSUME NEW a \in Named(mp, c.doc), Fails(Put(tmp, c.node, c.doc, Garbled(a)))
      PROVE  Edits(tmp', tmp, c.node, c.doc, V) /\ call' = [call EXCEPT ![p] = NoCall]
  BY <1>4, <1>5, <1>7
<1>8. ASSUME NEW a \in Named(mp, c.doc), IsLeast(a, Named(mp, c.doc)),
             SetValues(p, c.doc, c.node, Resent(a), mp[a].version, c.known)
      PROVE  /\ Edits(tmp', tmp, c.node, c.doc, V)
             /\ \E s \in {"sent", "unsent"} :
                  call' = [call EXCEPT ![p] = [doc |-> c.doc, node |-> c.node,
                    version |-> mp[a].version, known |-> c.known, trans |-> NoTrans,
                    state |-> s]]
  <2>1. At => May(Resent(a))
    BY <1>4
  <2>2. Edits(tmp', tmp, c.node, c.doc, V)
    BY <1>8, <2>1, SetValuesEdits
  <2> QED BY <1>8, <2>2 DEF SetValues
<1> QED BY <1>1, <1>6, <1>7, <1>8

\* setValues returns to a retry: failure.
LEMMA RetryFailsEdits ==
  ASSUME TypeOK, NEW p \in Threads, NEW code \in FailCodes, RetryFails(p, code), NEW V,
         p = "event" => call[p].known \in V, call[p].version \in V
  PROVE  Edits(tmp', tmp, call[p].node, call[p].doc, V)
<1> DEFINE c == call[p]
           again == Put(tmp, c.node, c.doc, Updated(tmp[c.node], c.version,
                          "pending", "failed_retrying", code, NoTrans, TRUE))
           rejected == Put(tmp, c.node, c.doc, Updated(tmp[c.node], c.version,
                             "failed", "doc_rejected", code, NoTrans, FALSE))
<1>1. \/ tmp' = GiveUp(p, again, c.node, c.doc, c.known)
      \/ tmp' = GiveUp(p, rejected, c.node, c.doc, c.known)
  BY DEF RetryFails
<1>2. c.version \in Nat /\ code \in Codes
  BY CallKnown, ListedValues
<1> HIDE DEF c
<1>3. NodeList(again) /\ NodeList(rejected)
  BY <1>2, TypeList, ListedValues, PutUpdatedType DEF Rewritten
<1>4. Edits(again, tmp, c.node, c.doc, V) /\ Edits(rejected, tmp, c.node, c.doc, V)
  BY TypeList, PutUpdatedEdits DEF c
<1> HIDE DEF again, rejected
<1>5. Edits(tmp', again, c.node, c.doc, V) \/ Edits(tmp', rejected, c.node, c.doc, V)
  BY <1>1, <1>3, GiveUpEdits DEF c
<1> QED BY <1>4, <1>5, EditsTrans DEF c

\* The next part is sent to its component.
LEMMA SendDocEdits ==
  ASSUME TypeOK, SendDoc
  PROVE  \E a \in Applicable, n \in DOMAIN tmp, s \in {"sent", "unsent"} :
           /\ IsLeast(a, Applicable) /\ n \in Pointer(tmp, mp[a].name)
           /\ Edits(tmp', tmp, n, mp[a].name, {mp[a].version})
           /\ Gives(tmp', tmp, n, mp[a].name, mp[a].version, "pending")
           /\ call' = [call EXCEPT !["sync"] = [doc |-> mp[a].name, node |-> n,
                         version |-> mp[a].version, known |-> 0, trans |-> NoTrans, state |-> s]]
           /\ cursor' = a + 1
<1> DEFINE m(a, n) == Updated(tmp[n], mp[a].version, "pending", "none", 0, NoTrans, FALSE)
           k(a, n) == [m(a, n) EXCEPT !.retry_count = 1]
<1>1. PICK a \in Applicable : \E n \in Pointer(tmp, mp[a].name) :
        /\ IsLeast(a, Applicable) /\ cursor' = a + 1
        /\ SetValues("sync", mp[a].name, n, k(a, n), mp[a].version, 0)
  BY DEF SendDoc
<1>2. PICK n \in Pointer(tmp, mp[a].name) :
        SetValues("sync", mp[a].name, n, k(a, n), mp[a].version, 0)
  BY <1>1
<1>3. a \in DOMAIN mp /\ n \in DOMAIN tmp /\ tmp[n].name = mp[a].name
  BY ApplicableNode
<1>4. mp[a].version \in Nat \ {0} /\ tmp[n] \in NodeType
  BY <1>3 DEF TypeOK, PartType
<1>5. m(a, n) \in NodeType /\ m(a, n).name = mp[a].name /\ m(a, n).version = mp[a].version
      /\ m(a, n).status = "pending" /\ m(a, n).details = "none"
  <2>1. m(a, n) \in NodeType
    BY <1>4, ListedValues, UpdatedType
  <2> QED BY <2>1, <1>3, <1>4 DEF Updated, NodeType
<1> HIDE DEF m
<1>6. k(a, n) \in NodeType /\ k(a, n).name = mp[a].name /\ k(a, n).version = mp[a].version
      /\ k(a, n).status = "pending" /\ k(a, n).details = "none"
  BY <1>5 DEF NodeType
<1> HIDE DEF k
<1>7. Edits(tmp', tmp, n, mp[a].name, {mp[a].version})
  BY <1>2, <1>6, SetValuesEdits DEF Open
<1>8. PICK w : /\ tmp' = Put(tmp, n, mp[a].name, w) /\ w.name = mp[a].name
               /\ w.version = mp[a].version /\ w.status = "pending"
  <2>1. CASE mp[a].name \in ScalarDocs
    BY <1>2, <1>6, <2>1 DEF SetValues
  <2>2. CASE mp[a].name \notin ScalarDocs
    <3>1. PICK x \in TransIds : tmp' = Put(tmp, n, mp[a].name, [k(a, n) EXCEPT !.trans_id = x])
      BY <1>2, <2>2 DEF SetValues
    <3>2. /\ [k(a, n) EXCEPT !.trans_id = x].name = mp[a].name
          /\ [k(a, n) EXCEPT !.trans_id = x].version = mp[a].version
          /\ [k(a, n) EXCEPT !.trans_id = x].status = "pending"
      BY <1>6 DEF NodeType
    <3> QED BY <3>1, <3>2
  <2> QED BY <2>1, <2>2
<1>9. Gives(tmp', tmp, n, mp[a].name, mp[a].version, "pending")
  BY <1>3, <1>8 DEF Gives, Put, Here
<1>10. \E s \in {"sent", "unsent"} :
         call' = [call EXCEPT !["sync"] = [doc |-> mp[a].name, node |-> n,
                         version |-> mp[a].version, known |-> 0, trans |-> NoTrans, state |-> s]]
  BY <1>2 DEF SetValues
<1> QED BY <1>1, <1>3, <1>7, <1>9, <1>10

LEMMA DecodeFailsEdits ==
  ASSUME TypeOK, DecodeFails
  PROVE  \E a \in Applicable, n \in DOMAIN tmp :
           /\ IsLeast(a, Applicable) /\ n \in Pointer(tmp, mp[a].name)
           /\ Edits(tmp', tmp, n, mp[a].name, {mp[a].version})
           /\ Gives(tmp', tmp, n, mp[a].name, mp[a].version, "failed")
           /\ cursor' = a + 1
<1> DEFINE m(a, n) == Updated(tmp[n], mp[a].version, "failed", "decode_failed",
                              OwnCode, NoTrans, FALSE)
<1>1. PICK a \in Applicable : \E n \in Pointer(tmp, mp[a].name) :
        /\ IsLeast(a, Applicable) /\ cursor' = a + 1
        /\ tmp' = Put(tmp, n, mp[a].name, m(a, n))
  BY DEF DecodeFails
<1>2. PICK n \in Pointer(tmp, mp[a].name) : tmp' = Put(tmp, n, mp[a].name, m(a, n))
  BY <1>1
<1>3. a \in DOMAIN mp /\ n \in DOMAIN tmp /\ tmp[n].name = mp[a].name
  BY ApplicableNode
<1>4. NodeList(tmp)
  BY TypeList
<1>5. Edits(tmp', tmp, n, mp[a].name, {mp[a].version})
  BY <1>2, <1>4, PutUpdatedEdits
<1>6. Gives(tmp', tmp, n, mp[a].name, mp[a].version, "failed")
  BY <1>2, <1>4, PutUpdatedGives
<1> QED BY <1>1, <1>3, <1>5, <1>6

\* setValues fails in the loop, which is left when root may be recorded.
LEMMA SetFailsGives ==
  ASSUME TypeOK, NEW code \in FailCodes, SetFails(code)
  PROVE  LET c == call["sync"] IN
         /\ NodeList(tmp') /\ Gives(tmp', tmp, c.node, c.doc, c.version, "failed")
         /\ \/ /\ UNCHANGED pc /\ call' = [call EXCEPT !["sync"] = NoCall]
               /\ (Here(tmp, c.node, c.doc) /\ IsPrimary(c.doc) /\ ~supp /\ c.doc # Root)
                    => ~CheckRootUpdate(tmp')
            \/ /\ ~supp /\ CheckRootUpdate(tmp') /\ pc' = "leave"
               /\ Goes("sync", "rooted")
<1> DEFINE c == call["sync"]
           later == code \in {Crash, NotThere}
           details == IF Unsupported(c.doc, code) THEN "doc_unsupported"
                      ELSE IF later THEN "failed_retrying" ELSE "doc_rejected"
           t == Put(tmp, c.node, c.doc, Updated(tmp[c.node], c.version, "failed",
                                                details, code, NoTrans, later))
           last == ~supp /\ Unsupported(c.doc, code) /\ code = NotThere /\ CheckRootUpdate(t)
<1>1. /\ tmp' = t /\ pc = "apply"
      /\ pc' = IF last THEN "leave" ELSE "apply"
      /\ Goes("sync", IF last THEN "rooted" ELSE "none")
  BY DEF SetFails
<1>2. c.version \in Nat /\ code \in Codes /\ later \in BOOLEAN /\ details \in Details
      /\ (details = "doc_unsupported" => Unsupported(c.doc, code))
  BY CallKnown, ListedValues DEF Threads
<1> HIDE DEF c, details, later
<1>3. NodeList(t)
  BY <1>2, TypeList, ListedValues, PutUpdatedType DEF Rewritten
<1>4. Gives(t, tmp, c.node, c.doc, c.version, "failed")
  BY <1>2, TypeList, PutUpdatedGives
<1>5. ASSUME Here(tmp, c.node, c.doc), IsPrimary(c.doc), c.doc # Root, CheckRootUpdate(t)
      PROVE  Unsupported(c.doc, code) /\ code = NotThere
  <2> DEFINE m == Updated(tmp[c.node], c.version, "failed", details, code, NoTrans, later)
  <2>1. tmp[c.node] \in NodeType /\ tmp[c.node].name = c.doc
    BY <1>5, TypeList DEF Here, NodeList
  <2>2. m.name = c.doc /\ m.status = "failed" /\ m.details = details /\ m.code = code
    BY <1>2, <2>1, UpdatedFields
  <2> HIDE DEF m
  <2>3. t[c.node] = m /\ c.node \in DOMAIN t
    BY <1>5 DEF Put, Here, m
  <2>4. c.node \in Subdocs(t) /\ t[c.node].status # "success"
    BY <1>5, <2>2, <2>3 DEF Subdocs
  <2>5. Skipped(t[c.node])
    BY <1>5, <2>4 DEF CheckRootUpdate, AllSuccess
  <2> QED BY <1>2, <1>5, <2>2, <2>3, <2>5 DEF Skipped
<1> HIDE DEF t
<1>6. CASE last
  BY <1>1, <1>3, <1>4, <1>6 DEF c
<1>7. CASE ~last
  <2>1. UNCHANGED pc /\ call' = [call EXCEPT !["sync"] = NoCall]
    BY <1>1, <1>7 DEF Goes
  <2>2. (Here(tmp, c.node, c.doc) /\ IsPrimary(c.doc) /\ ~supp /\ c.doc # Root)
          => ~CheckRootUpdate(tmp')
    BY <1>1, <1>5, <1>7
  <2> QED BY <1>1, <1>3, <1>4, <2>1, <2>2 DEF c
<1> QED BY <1>6, <1>7

\* A scalar document is marked, and a document that was answered.
LEMMA AppliedGives ==
  ASSUME TypeOK, NEW p \in Threads, Applied(p)
  PROVE  /\ NodeList(tmp')
         /\ Gives(tmp', tmp, call[p].node, call[p].doc, call[p].version, "success")
<1> DEFINE c == call[p]
           t == Put(tmp, c.node, c.doc, Updated(tmp[c.node], c.version, "success",
                                                "none", 0, NoTrans, FALSE))
<1>1. tmp' = t
  BY DEF Applied
<1>2. c.version \in Nat
  BY CallKnown
<1>3. NodeList(t)
  BY <1>2, TypeList, ListedValues, PutUpdatedType DEF Rewritten
<1>4. Gives(t, tmp, c.node, c.doc, c.version, "success")
  BY TypeList, PutUpdatedGives
<1> QED BY <1>1, <1>3, <1>4

LEMMA MarkGives ==
  ASSUME TypeOK, NEW p \in Threads, Mark(p)
  PROVE  /\ NodeList(tmp')
         /\ \/ /\ Gives(tmp', tmp, call[p].node, call[p].doc, call[p].version, "success")
               /\ call[p].state = "valid" /\ Goes(p, "marked")
            \/ /\ Gives(tmp', tmp, call[p].node, call[p].doc, call[p].version, "failed")
               /\ Edits(tmp', tmp, call[p].node, call[p].doc, {call[p].version})
               /\ call[p].state = "refused" /\ Goes(p, "none")
<1> DEFINE c == call[p]
           t == Put(tmp, c.node, c.doc, Updated(tmp[c.node], c.version, "success",
                                                "none", 0, c.trans, FALSE))
           u == Put(tmp, c.node, c.doc, Updated(tmp[c.node], c.version, "failed",
                                                "NACK", OwnCode, c.trans, FALSE))
<1>1. \/ tmp' = t /\ c.state = "valid" /\ Goes(p, "marked")
      \/ tmp' = u /\ c.state = "refused" /\ Goes(p, "none")
  BY DEF Mark
<1>2. c.version \in Nat /\ c.trans \in Trans
  BY CallKnown
<1>3. NodeList(t) /\ NodeList(u)
  BY <1>2, TypeList, ListedValues, PutUpdatedType DEF Rewritten
<1>4. /\ Gives(t, tmp, c.node, c.doc, c.version, "success")
      /\ Gives(u, tmp, c.node, c.doc, c.version, "failed")
  BY TypeList, PutUpdatedGives
<1>5. Edits(u, tmp, c.node, c.doc, {c.version})
  BY TypeList, PutUpdatedEdits
<1> HIDE DEF t, u
<1> QED BY <1>1, <1>3, <1>4, <1>5

\* What a thread is about to write is the answer it has found for its node.
Settling(e, n, s) ==
  [doc |-> e.doc, node |-> n, version |-> e.version, known |-> 0,
   trans |-> e.trans_id, state |-> s]

\* An event is handled: its document's first node is written to, or the
\* answer is for the version of that node.
LEMMA HandleEventKeeps ==
  ASSUME TypeOK, HandleEvent
  PROVE  LET e == Head(events) IN
         /\ e \in EventType /\ call["event"] = NoCall
         /\ \E n \in Pointer(tmp, e.doc) :
              /\ Edits(tmp', tmp, n, e.doc, {TmpVersion(n)})
              /\ UNCHANGED <<mp, stored>>
              /\ \/ UNCHANGED call
                 \/ /\ n \in DOMAIN tmp
                    /\ call' = [call EXCEPT !["event"] = Begun(n, e.doc, TmpVersion(n))]
                 \/ /\ n \in DOMAIN tmp /\ tmp[n].version = e.version /\ UNCHANGED tmp
                    /\ \E s \in {"valid", "refused"} :
                         call' = [call EXCEPT !["event"] = Settling(e, n, s)]
<1> DEFINE e == Head(events)
           Writes(n) ==
              /\ Edits(tmp', tmp, n, e.doc, {TmpVersion(n)})
              /\ UNCHANGED <<mp, stored>>
              /\ \/ UNCHANGED call
                 \/ /\ n \in DOMAIN tmp
                    /\ call' = [call EXCEPT !["event"] = Begun(n, e.doc, TmpVersion(n))]
                 \/ /\ n \in DOMAIN tmp /\ tmp[n].version = e.version /\ UNCHANGED tmp
                    /\ \E s \in {"valid", "refused"} :
                         call' = [call EXCEPT !["event"] = Settling(e, n, s)]
<1>1. e \in EventType
  <2>1. events \in Seq(EventType) /\ events # <<>>
    BY DEF TypeOK, HandleEvent
  <2> QED BY <2>1
<1>2. PICK n \in Pointer(tmp, e.doc) :
        \/ HandleAck(e, n) \/ HandleNack(e, n) \/ HandleTimeout(e, n)
        \/ HandleExpire(e, n) \/ HandleInit(e, n)
  BY DEF HandleEvent
<1> HIDE DEF e
<1> SUFFICES Writes(n)
  BY <1>1 DEF e, HandleEvent
<1>3. ASSUME UNCHANGED <<tmp, mp, stored, call>> PROVE Writes(n)
  BY <1>3, EditsSelf
<1>4. ASSUME Retry("event", n, e.doc, TmpVersion(n)), UNCHANGED <<mp, stored>> PROVE Writes(n)
  <2>1. /\ Edits(tmp', tmp, n, e.doc, {TmpVersion(n)})
        /\ \/ UNCHANGED call
           \/ /\ n \in DOMAIN tmp
              /\ call' = [call EXCEPT !["event"] = Begun(n, e.doc, TmpVersion(n))]
    BY <1>4, RetryEdits
  <2> QED BY <1>4, <2>1
<1>5. ASSUME n \in DOMAIN tmp, tmp[n].version = e.version, UNCHANGED <<tmp, mp, stored>>,
             Settles(e, n, "valid") \/ Settles(e, n, "refused")
      PROVE  Writes(n)
  <2>1. \E s \in {"valid", "refused"} : call' = [call EXCEPT !["event"] = Settling(e, n, s)]
    BY <1>5 DEF Settles, Settling
  <2> QED BY <1>5, <2>1, EditsSelf
<1>6. CASE HandleAck(e, n)
  BY <1>3, <1>5, <1>6 DEF HandleAck, Valid
<1>7. CASE HandleNack(e, n)
  BY <1>3, <1>5, <1>7 DEF HandleNack, Valid
<1>8. CASE HandleTimeout(e, n)
  BY <1>3, <1>8 DEF HandleTimeout
<1>9. CASE HandleExpire(e, n)
  BY <1>3, <1>4, <1>9 DEF HandleExpire
<1>10. CASE HandleInit(e, n)
  <2>1. \/ /\ Settles(e, n, "valid") /\ UNCHANGED <<tmp, mp, stored>>
           /\ n \in DOMAIN tmp /\ tmp[n].version = e.version
        \/ Retry("event", n, e.doc, TmpVersion(n)) /\ UNCHANGED <<mp, stored>>
        \/ UNCHANGED <<tmp, mp, stored, call>>
    BY <1>10 DEF HandleInit, TmpVersion
  <2> QED BY <1>3, <1>4, <1>5, <2>1
<1> QED BY <1>2, <1>6, <1>7, <1>8, <1>9, <1>10

\* The steps of a recording thread: which of them write to the lists.
LEMMA MarkRootLists ==
  ASSUME TypeOK, NEW p \in Threads, MarkRoot(p)
  PROVE  Rewrites(tmp', tmp) /\ UNCHANGED mp
<1>1. tmp' = tmp \/ tmp' = SetRoot(tmp, call[p].version, "success")
  BY DEF MarkRoot
<1>2. call[p].version \in Nat
  BY CallKnown
<1> QED BY <1>1, <1>2, TypeList, SetRootRewrites, RewritesSelf DEF MarkRoot

\* A thread that goes on keeps its node; one that ends has none.
LEMMA GoesNode ==
  ASSUME TypeOK, NEW p \in Threads, NEW s, Goes(p, s)
  PROVE  /\ \A q \in Threads : call'[q].node \in {call[q].node, Null}
         /\ \A q \in Threads : q # p => call'[q] = call[q]
         /\ s # "none" => call'[p] = [call[p] EXCEPT !.state = s]
         /\ s = "none" => call'[p] = NoCall
<1>1. call \in [Threads -> CallType]
  BY DEF TypeOK
<1>2. CASE s = "none"
  BY <1>1, <1>2 DEF Goes, NoCall
<1>3. CASE s # "none"
  <2> DEFINE r == [call[p] EXCEPT !.state = s]
  <2>1. call' = [call EXCEPT ![p] = r]
    BY <1>1, <1>3 DEF Goes
  <2>2. r.node = call[p].node
    BY <1>1 DEF CallType
  <2> HIDE DEF r
  <2>3. call'[p] = r /\ \A q \in Threads : q # p => call'[q] = call[q]
    BY <1>1, <2>1
  <2> QED BY <1>3, <2>2, <2>3 DEF r
<1> QED BY <1>2, <1>3

-----------------------------------------------------------------------------
(* The shape of the tmp list. Hidden nodes are new documents nobody has      *)
(* worked on; the parts of a bundle lie behind all that was there before.    *)

Shape(t) ==
  /\ \A a \in DOMAIN t : t[a].name = Root <=> a = 0
  /\ \A a \in DOMAIN t : a \notin Front(t) => t[a].status = "pending_apply"
  /\ \A a \in DOMAIN t : t[a].status = "pending_apply" => t[a].code = 0
CallsSeen ==
  \A p \in Threads : call[p].node \in DOMAIN tmp => call[p].node \in Front(tmp)
NewParts == {b \in DOMAIN mp : OfThisSync(mp[b].name)}
Ahead ==
  /\ \A p \in Threads : call[p].node <= top
  /\ pc = "parsed" => \A b \in NewParts : /\ \A a \in DOMAIN tmp : a < b
                                          /\ \A p \in Threads : call[p].node < b
CallPlace == call["sync"] # NoCall => pc \in {"request", "apply", "leave", "retry"}

ListInv == Shape(tmp) /\ CallsSeen /\ Ahead /\ CallPlace

\* The steps that write to nodes of the list, and those of a recording thread.
Writes ==
  /\ tmp' = Empty \/ Rewrites(tmp', tmp)
  /\ mp' \in {mp, Empty} /\ UNCHANGED syncing
  /\ \/ pc' \in {pc, "idle"}
     \/ (pc = "idle" /\ pc' = "request")
     \/ (pc = "apply" /\ pc' = "leave")
  /\ \A p \in Threads : call'[p].node \in {call[p].node, Null} \cup Front(tmp)
  /\ call'["sync"] # NoCall => pc' \in {"request", "apply", "leave", "retry"}

Resends(p) == RetrySend(p) \/ RetrySucceeds(p) \/ \E code \in FailCodes : RetryFails(p, code)
Storing == Refresh \/ StoreRoot \/ LoopRecords

\* A call that ends leaves no address behind.
LEMMA EndedCall ==
  ASSUME TypeOK, NEW p \in Threads, call' = [call EXCEPT ![p] = NoCall]
  PROVE  /\ \A q \in Threads : call'[q].node \in {call[q].node, Null} \cup Front(tmp)
         /\ call'["sync"] = IF p = "sync" THEN NoCall ELSE call["sync"]
BY DEF TypeOK, NoCall, Threads, Null

LEMMA SentCall ==
  ASSUME TypeOK, NEW p \in Threads, NEW r, call' = [call EXCEPT ![p] = r],
         r.node \in {call[p].node, Null} \cup Front(tmp)
  PROVE  /\ \A q \in Threads : call'[q].node \in {call[q].node, Null} \cup Front(tmp)
         /\ call'["sync"] = IF p = "sync" THEN r ELSE call["sync"]
BY DEF TypeOK, Threads

LEMMA SameCalls ==
  ASSUME UNCHANGED call
  PROVE  \A q \in Threads : call'[q].node \in {call[q].node, Null} \cup Front(tmp)
OBVIOUS

LEMMA CallSeen ==
  ASSUME ListInv, NEW p \in Threads
  PROVE  call[p].node \in Front(tmp) \/ call[p].node \notin DOMAIN tmp
BY DEF ListInv, CallsSeen

\* What is sent, in the loop or again, is sent for a node that is not hidden.
LEMMA SendDocWrites == ASSUME TypeOK, ListInv, SendDoc PROVE Writes
<1>1. PICK a \in Applicable, n \in DOMAIN tmp, s \in {"sent", "unsent"} :
           /\ n \in Pointer(tmp, mp[a].name)
           /\ Edits(tmp', tmp, n, mp[a].name, {mp[a].version})
           /\ call' = [call EXCEPT !["sync"] = [doc |-> mp[a].name, node |-> n,
                         version |-> mp[a].version, known |-> 0, trans |-> NoTrans, state |-> s]]
  BY SendDocEdits
<1>2. n \in Front(tmp)
  BY <1>1, TypeList, PointerFront DEF Null
<1>3. Rewrites(tmp', tmp)
  BY <1>1, <1>2, EditsRewrites
<1>4. \A q \in Threads : call'[q].node \in {call[q].node, Null} \cup Front(tmp)
  BY <1>1, <1>2, SentCall DEF Threads
<1> QED BY <1>3, <1>4 DEF SendDoc, Writes

LEMMA DecodeFailsWrites == ASSUME TypeOK, ListInv, DecodeFails PROVE Writes
<1>1. PICK a \in Applicable, n \in DOMAIN tmp :
           /\ n \in Pointer(tmp, mp[a].name)
           /\ Edits(tmp', tmp, n, mp[a].name, {mp[a].version})
  BY DecodeFailsEdits
<1>2. n \in Front(tmp)
  BY <1>1, TypeList, PointerFront DEF Null
<1>3. Rewrites(tmp', tmp)
  BY <1>1, <1>2, EditsRewrites
<1> QED BY <1>3, SameCalls DEF DecodeFails, Writes, ListInv, CallPlace

LEMMA GoesWrites ==
  ASSUME TypeOK, ListInv, NEW p \in Threads, NEW s, Goes(p, s), UNCHANGED pc,
         call[p] # NoCall
  PROVE  /\ \A q \in Threads : call'[q].node \in {call[q].node, Null} \cup Front(tmp)
         /\ call'["sync"] # NoCall => pc' \in {"request", "apply", "leave", "retry"}
<1>1. \A q \in Threads : call'[q].node \in {call[q].node, Null}
  BY GoesNode
<1>2. call'["sync"] = call["sync"] \/ p = "sync"
  BY GoesNode DEF Threads
<1> QED BY <1>1, <1>2 DEF ListInv, CallPlace

LEMMA AppliedWrites ==
  ASSUME TypeOK, ListInv, NEW p \in Threads, Applied(p), UNCHANGED <<mp, syncing, pc>>,
         call[p] # NoCall
  PROVE  Writes
<1>1. Gives(tmp', tmp, call[p].node, call[p].doc, call[p].version, "success")
  BY AppliedGives
<1>2. Rewrites(tmp', tmp)
  BY <1>1, CallSeen, GivesRewrites
<1> QED BY <1>2, GoesWrites DEF Applied, Writes

LEMMA PassedWrites ==
  ASSUME TypeOK, ListInv, NEW b, NEW n, Passed(b, n), UNCHANGED <<lists, syncing, pc>>,
         call["sync"] # NoCall
  PROVE  Writes
<1>1. PICK s : Goes("sync", s)
  BY DEF Passed
<1>2. "sync" \in Threads
  BY DEF Threads
<1> QED BY <1>1, <1>2, GoesWrites, RewritesSelf DEF Writes

LEMMA SetSucceedsWrites == ASSUME TypeOK, ListInv, SetSucceeds PROVE Writes
<1>1. call["sync"] # NoCall /\ "sync" \in Threads
  BY DEF SetSucceeds, NoCall, Threads
<1>2. CASE call["sync"].doc \in ScalarDocs
  BY <1>1, <1>2, AppliedWrites DEF SetSucceeds
<1>3. CASE call["sync"].doc \notin ScalarDocs
  BY <1>1, <1>3, PassedWrites DEF SetSucceeds
<1> QED BY <1>2, <1>3

LEMMA StoringWrites == ASSUME TypeOK, ListInv, Storing PROVE Writes
<1>1. CASE Refresh
  <2>1. PICK v : call' = [call EXCEPT !["sync"] =
                            [NoCall EXCEPT !.version = v, !.state = "derived"]]
    BY <1>1 DEF Refresh
  <2>2. [NoCall EXCEPT !.version = v, !.state = "derived"].node = Null
    BY DEF NoCall
  <2>3. \A q \in Threads : call'[q].node \in {call[q].node, Null} \cup Front(tmp)
    BY <2>1, <2>2, SentCall DEF Threads
  <2> QED BY <1>1, <2>3, RewritesSelf DEF Refresh, Writes
<1>2. CASE StoreRoot
  <2>1. PICK s : Goes("sync", s)
    BY <1>2 DEF StoreRoot
  <2>2. call["sync"] # NoCall /\ "sync" \in Threads
    BY <1>2 DEF StoreRoot, NoCall, Threads
  <2> QED BY <1>2, <2>1, <2>2, GoesWrites, RewritesSelf DEF StoreRoot, Writes
<1>3. CASE LoopRecords
  <2>1. call["sync"] # NoCall
    BY <1>3 DEF LoopRecords, NoCall
  <2>2. \E b, n : Passed(b, n)
    BY <1>3 DEF LoopRecords
  <2> QED BY <1>3, <2>1, <2>2, PassedWrites DEF LoopRecords
<1> QED BY <1>1, <1>2, <1>3 DEF Storing

LEMMA RecordStepWrites ==
  ASSUME TypeOK, ListInv, NEW p \in Threads, RecordStep(p) PROVE Writes
<1>1. call[p] # NoCall
  <2>1. call[p].state # "none"
    BY DEF RecordStep, Mark, Record, RecordRoot, MarkRoot, Save, CheckDelete,
       DeleteTmpList, DeleteMultipart
  <2> QED BY <2>1 DEF NoCall
<1>2. ASSUME tmp' = Empty \/ Rewrites(tmp', tmp), mp' \in {mp, Empty}, UNCHANGED <<syncing, pc>>,
             NEW s, Goes(p, s)
      PROVE  Writes
  BY <1>1, <1>2, GoesWrites DEF Writes
<1>3. CASE Mark(p)
  <2>1. /\ \/ Gives(tmp', tmp, call[p].node, call[p].doc, call[p].version, "success")
           \/ Gives(tmp', tmp, call[p].node, call[p].doc, call[p].version, "failed")
        /\ Goes(p, "marked") \/ Goes(p, "none")
    BY <1>3, MarkGives
  <2>2. Rewrites(tmp', tmp)
    BY <2>1, CallSeen, GivesRewrites
  <2> QED BY <1>2, <1>3, <2>1, <2>2 DEF Mark
<1>4. CASE Record(p) \/ CheckDelete(p)
  <2>1. UNCHANGED <<lists, syncing, pc>> /\ \E s : Goes(p, s)
    BY <1>4 DEF Record, CheckDelete
  <2> QED BY <1>2, <2>1, RewritesSelf
<1>5. CASE RecordRoot(p)
  <2> DEFINE r == [call[p] EXCEPT !.version = etag, !.state = "rootdb"]
  <2>1. call' = [call EXCEPT ![p] = r] /\ UNCHANGED <<lists, syncing, pc>>
    BY <1>5 DEF RecordRoot
  <2>2. call[p] \in CallType
    BY DEF TypeOK
  <2>3. r.node = call[p].node
    BY <2>2 DEF CallType
  <2> HIDE DEF r
  <2>4. /\ \A q \in Threads : call'[q].node \in {call[q].node, Null} \cup Front(tmp)
        /\ call'["sync"] = IF p = "sync" THEN r ELSE call["sync"]
    BY <2>1, <2>3, SentCall
  <2> QED BY <1>1, <2>1, <2>4, RewritesSelf DEF Writes, ListInv, CallPlace
<1>6. CASE MarkRoot(p)
  <2>1. UNCHANGED <<mp, syncing, pc>> /\ \E s : Goes(p, s)
    BY <1>6 DEF MarkRoot
  <2> QED BY <1>2, <1>6, <2>1, MarkRootLists
<1>7. CASE Save(p)
  <2>1. CASE Leaving(p)
    <3>1. UNCHANGED <<lists, syncing>> /\ pc' = "idle" /\ Goes(p, "none") /\ p = "sync"
      BY <1>7, <2>1 DEF Save, Leaving
    <3>2. \A q \in Threads : call'[q].node \in {call[q].node, Null}
      BY <3>1, GoesNode
    <3>3. call'["sync"] = NoCall
      BY <3>1, GoesNode
    <3> QED BY <3>1, <3>2, <3>3, RewritesSelf DEF Writes
  <2>2. CASE ~Leaving(p)
    <3>1. UNCHANGED <<lists, syncing, pc>> /\ \E s : Goes(p, s)
      BY <1>7, <2>2 DEF Save
    <3> QED BY <1>2, <3>1, RewritesSelf
  <2> QED BY <2>1, <2>2
<1>8. CASE DeleteTmpList(p)
  <2>1. tmp' = Empty /\ UNCHANGED <<mp, syncing, pc>> /\ \E s : Goes(p, s)
    BY <1>8 DEF DeleteTmpList
  <2> QED BY <1>2, <2>1
<1>9. CASE DeleteMultipart(p)
  <2>1. mp' = Empty /\ UNCHANGED <<tmp, syncing, pc>> /\ \E s : Goes(p, s)
    BY <1>9 DEF DeleteMultipart
  <2> QED BY <1>2, <2>1, RewritesSelf
<1> QED BY <1>3, <1>4, <1>5, <1>6, <1>7, <1>8, <1>9 DEF RecordStep

LEMMA SetFailsWrites ==
  ASSUME TypeOK, ListInv, NEW code \in FailCodes, SetFails(code) PROVE Writes
<1>1. Gives(tmp', tmp, call["sync"].node, call["sync"].doc, call["sync"].version, "failed")
  BY SetFailsGives
<1>2. Rewrites(tmp', tmp)
  BY <1>1, CallSeen, GivesRewrites DEF Threads
<1>3. UNCHANGED <<mp, syncing>> /\ pc = "apply" /\ pc' \in {"apply", "leave"}
      /\ \E s : Goes("sync", s)
  BY DEF SetFails
<1>4. \A q \in Threads : call'[q].node \in {call[q].node, Null}
  BY <1>3, GoesNode DEF Threads
<1> QED BY <1>2, <1>3, <1>4 DEF Writes

LEMMA RetryNextWrites == ASSUME TypeOK, ListInv, RetryNext PROVE Writes
<1>1. PICK a \in Retryable : Retry("sync", a, tmp[a].name, 0)
  BY DEF RetryNext
<1>2. a \in Front(tmp)
  <2>1. a \in DOMAIN tmp /\ tmp[a].code # 0
    BY DEF Retryable, Crash, NotThere
  <2> QED BY <2>1 DEF ListInv, Shape
<1>3. /\ Edits(tmp', tmp, a, tmp[a].name, {})
      /\ \/ UNCHANGED call
         \/ call' = [call EXCEPT !["sync"] = Begun(a, tmp[a].name, 0)]
  BY <1>1, RetryEdits
<1>4. Rewrites(tmp', tmp)
  BY <1>2, <1>3, EditsRewrites
<1>5. Begun(a, tmp[a].name, 0).node = a
  BY DEF Begun, NoCall
<1>6. \A q \in Threads : call'[q].node \in {call[q].node, Null} \cup Front(tmp)
  BY <1>2, <1>3, <1>5, SameCalls, SentCall DEF Threads
<1> QED BY <1>4, <1>6 DEF RetryNext, Writes

LEMMA RetrySendWrites ==
  ASSUME TypeOK, ListInv, NEW p \in Threads, RetrySend(p) PROVE Writes
<1> DEFINE V == {call[p].known} \cup {mp[a].version : a \in Named(mp, call[p].doc)}
<1>1. /\ Edits(tmp', tmp, call[p].node, call[p].doc, V)
      /\ \/ call' = [call EXCEPT ![p] = NoCall]
         \/ \E a, s : call' = [call EXCEPT ![p] = [doc |-> call[p].doc,
                      node |-> call[p].node, version |-> mp[a].version,
                      known |-> call[p].known, trans |-> NoTrans, state |-> s]]
  BY RetrySendEdits
<1>2. Rewrites(tmp', tmp)
  BY <1>1, EditsRewrites, CallSeen
<1>3. \A q \in Threads : call'[q].node \in {call[q].node, Null} \cup Front(tmp)
  BY <1>1, EndedCall, SentCall
<1>4. call'["sync"] # NoCall => call["sync"] # NoCall
  <2>1. call[p] # NoCall
    BY DEF RetrySend, NoCall
  <2>2. call'["sync"] = call["sync"] \/ p = "sync"
    BY <1>1 DEF Threads, TypeOK
  <2> QED BY <2>1, <2>2
<1> QED BY <1>2, <1>3, <1>4 DEF RetrySend, Writes, ListInv, CallPlace

LEMMA RetrySucceedsWrites ==
  ASSUME TypeOK, ListInv, NEW p \in Threads, RetrySucceeds(p) PROVE Writes
<1>1. call[p] # NoCall /\ UNCHANGED <<mp, syncing, pc>>
  BY DEF RetrySucceeds, NoCall
<1>2. CASE call[p].doc \in ScalarDocs
  BY <1>1, <1>2, AppliedWrites DEF RetrySucceeds
<1>3. CASE call[p].doc \notin ScalarDocs
  <2>1. Goes(p, "none") /\ UNCHANGED tmp
    BY <1>3 DEF RetrySucceeds
  <2> QED BY <1>1, <2>1, GoesWrites, RewritesSelf DEF Writes
<1> QED BY <1>2, <1>3

LEMMA RetryFailsWrites ==
  ASSUME TypeOK, ListInv, NEW p \in Threads, NEW code \in FailCodes, RetryFails(p, code)
  PROVE  Writes
<1>1. Edits(tmp', tmp, call[p].node, call[p].doc, {call[p].known, call[p].version})
  BY RetryFailsEdits
<1>2. Rewrites(tmp', tmp)
  BY <1>1, EditsRewrites, CallSeen
<1>3. call' = [call EXCEPT ![p] = NoCall]
  BY DEF RetryFails
<1>4. call'["sync"] # NoCall => call["sync"] # NoCall
  BY <1>3, EndedCall
<1> QED BY <1>2, <1>3, <1>4, EndedCall DEF RetryFails, Writes, ListInv, CallPlace

LEMMA HandleEventWrites == ASSUME TypeOK, ListInv, HandleEvent PROVE Writes
<1> DEFINE e == Head(events)
<1>1. PICK n \in Pointer(tmp, e.doc) :
        /\ Edits(tmp', tmp, n, e.doc, {TmpVersion(n)})
        /\ UNCHANGED <<mp, stored>>
        /\ \/ UNCHANGED call
           \/ /\ n \in DOMAIN tmp
              /\ \/ call' = [call EXCEPT !["event"] = Begun(n, e.doc, TmpVersion(n))]
                 \/ \E s : call' = [call EXCEPT !["event"] = Settling(e, n, s)]
  BY HandleEventKeeps
<1>2. n \in Front(tmp) \/ n \notin DOMAIN tmp
  BY TypeList, PointerFront DEF Null
<1> HIDE DEF e
<1>3. Rewrites(tmp', tmp)
  BY <1>1, <1>2, EditsRewrites
<1>4. Begun(n, e.doc, TmpVersion(n)).node = n /\ \A s : Settling(e, n, s).node = n
  BY DEF Begun, NoCall, Settling
<1>5. \/ UNCHANGED call
      \/ n \in Front(tmp) /\ \E r : r.node = n /\ call' = [call EXCEPT !["event"] = r]
  BY <1>1, <1>2, <1>4
<1>6. /\ \A q \in Threads : call'[q].node \in {call[q].node, Null} \cup Front(tmp)
      /\ call'["sync"] = call["sync"]
  BY <1>5, SentCall, SameCalls DEF Threads
<1>7. UNCHANGED <<syncing, pc>>
  BY DEF HandleEvent, HandleAck, HandleNack, HandleTimeout, HandleExpire, HandleInit
<1> QED BY <1>1, <1>3, <1>6, <1>7 DEF Writes, ListInv, CallPlace

-----------------------------------------------------------------------------
(* The shape is kept.                                                      *)

LEMMA ShapeRewritten ==
  ASSUME NEW t, NEW u, Shape(t), Rewrites(u, t) PROVE Shape(u)
<1>1. DOMAIN u = DOMAIN t /\ Front(u) = Front(t)
  BY RewritesPlaces
<1> QED BY <1>1 DEF Shape, Rewrites

LEMMA ShapeEmpty == Shape(Empty) /\ DOMAIN Empty = {}
BY EmptyType DEF Shape

\* A list that is left when nodes are taken out.
LEMMA ShapeDeleted ==
  ASSUME NEW t, Shape(t), NEW u, DOMAIN u \subseteq DOMAIN t,
         \A a \in DOMAIN u : u[a] = t[a]
  PROVE  Shape(u) /\ \A a \in DOMAIN u : a \in Front(t) => a \in Front(u)
<1>1. \A a \in DOMAIN u : a \in Front(t) => a \in Front(u)
  BY DEF Front, Behind
<1> QED BY <1>1 DEF Shape

LEMMA WritesShape == ASSUME TypeOK, ListInv, Writes PROVE ListInv'
<1> USE DEF ListInv
<1>1. Shape(tmp)'
  BY ShapeRewritten, ShapeEmpty DEF Writes
<1>2. CallsSeen'
  <2>1. CASE tmp' = Empty
    BY <2>1, ShapeEmpty DEF CallsSeen
  <2>2. CASE Rewrites(tmp', tmp)
    <3>1. DOMAIN tmp' = DOMAIN tmp /\ Front(tmp') = Front(tmp)
      BY <2>2, RewritesPlaces
    <3>2. Null \notin DOMAIN tmp
      BY TypeList DEF Null
    <3> QED BY <3>1, <3>2 DEF CallsSeen, Writes
  <2> QED BY <2>1, <2>2 DEF Writes
<1>3. Ahead'
  <2>1. /\ Front(tmp) \subseteq DOMAIN tmp /\ DOMAIN tmp \subseteq 0..top /\ top \in Nat
        /\ DOMAIN tmp' \subseteq DOMAIN tmp /\ DOMAIN mp \subseteq Nat
    BY ShapeEmpty DEF Front, TypeOK, Writes, Rewrites
  <2>2. NewParts' \subseteq NewParts
    <3>1. mp' = mp \/ DOMAIN mp' = {}
      BY ShapeEmpty DEF Writes
    <3> QED BY <3>1 DEF NewParts, OfThisSync, Writes
  <2>3. \A p \in Threads : call'[p].node \in {call[p].node, Null} \cup DOMAIN tmp
    BY <2>1 DEF Writes
  <2>4. \A p \in Threads : call'[p].node <= top'
    BY <2>1, <2>3 DEF Ahead, Writes, Null
  <2>5. ASSUME pc' = "parsed", NEW b \in NewParts'
        PROVE  /\ \A a \in DOMAIN tmp' : a < b
               /\ \A p \in Threads : call'[p].node < b
    <3>1. pc = "parsed" /\ b \in NewParts /\ b \in Nat
      BY <2>1, <2>2, <2>5 DEF Writes, NewParts
    <3> QED BY <3>1, <2>1, <2>3 DEF Ahead, Null
  <2> QED BY <2>4, <2>5 DEF Ahead
<1>4. CallPlace'
  BY DEF CallPlace, Writes
<1> QED BY <1>1, <1>2, <1>3, <1>4

LEMMA ReleaseShape == ASSUME TypeOK, ListInv, ReleaseSuccessDocs PROVE ListInv'
<1>1. PICK S : tmp' = DeleteEach(tmp, S)
  BY DEF ReleaseSuccessDocs
<1>2. DOMAIN tmp' \subseteq DOMAIN tmp /\ \A a \in DOMAIN tmp' : tmp'[a] = tmp[a]
  BY <1>1, DeleteEachType, TypeList
<1>3. Shape(tmp') /\ \A a \in DOMAIN tmp' : a \in Front(tmp) => a \in Front(tmp')
  BY <1>2, ShapeDeleted DEF ListInv
<1>4. CallsSeen'
  BY <1>2, <1>3 DEF CallsSeen, ListInv, ReleaseSuccessDocs
<1>5. Ahead' /\ CallPlace'
  BY DEF ReleaseSuccessDocs, ListInv, Ahead, CallPlace
<1> QED BY <1>3, <1>4, <1>5 DEF ListInv

\* The list after addToTmpList.
Refreshed == IF supp THEN tmp ELSE SetRoot(tmp, RootVersion, "pending")
Remaining ==
  DeleteEach(Refreshed, {a \in Subdocs(Refreshed) : OfThisSync(Refreshed[a].name)})

LEMMA AddToTmpListLists ==
  ASSUME TypeOK, AddToTmpList
  PROVE  /\ Rewrites(Refreshed, tmp) /\ NodeList(Refreshed)
         /\ DOMAIN Remaining \subseteq DOMAIN tmp
         /\ \A a \in DOMAIN Remaining : Remaining[a] = Refreshed[a] /\ tmp'[a] = Remaining[a]
         /\ DOMAIN tmp' = DOMAIN Remaining \cup NewParts
                            \cup (IF Remaining = Empty /\ mp # Empty THEN {0} ELSE {})
         /\ Remaining = Empty /\ mp # Empty => tmp'[0] = Node(Root, RootVersion, "pending")
         /\ \A b \in NewParts : b \notin DOMAIN Remaining =>
              tmp'[b] = Node(mp[b].name, mp[b].version, "pending_apply")
<1> DEFINE root == [a \in IF Remaining = Empty /\ mp # Empty THEN {0} ELSE {}
                      |-> Node(Root, RootVersion, "pending")]
           new == [a \in NewParts |-> Node(mp[a].name, mp[a].version, "pending_apply")]
<1>1. tmp' = Join(Remaining, Join(root, new))
  BY DEF AddToTmpList, Refreshed, Remaining, NewParts
<1>2. Rewrites(Refreshed, tmp) /\ NodeList(Refreshed)
  <2>1. RootVersion \in Nat /\ "pending" \in Statuses
    BY ListedValues DEF RootVersion, TypeOK
  <2> QED BY <2>1, TypeList, SetRootType, SetRootRewrites, RewritesSelf DEF Rewritten, Refreshed
<1>3. /\ DOMAIN Remaining \subseteq DOMAIN Refreshed
      /\ \A a \in DOMAIN Remaining : Remaining[a] = Refreshed[a]
  BY <1>2, DeleteEachType DEF Remaining
<1>4. DOMAIN Refreshed = DOMAIN tmp
  BY <1>2 DEF Rewrites
<1>5. 0 \notin NewParts
  BY DEF NewParts, TypeOK
<1>6. DOMAIN Empty = {}
  BY EmptyType
<1>7. Remaining = Empty /\ mp # Empty => DOMAIN Remaining = {} /\ DOMAIN root = {0}
                          /\ root[0] = Node(Root, RootVersion, "pending")
  BY <1>6
<1>8. DOMAIN new = NewParts /\ \A b \in NewParts :
        new[b] = Node(mp[b].name, mp[b].version, "pending_apply")
  OBVIOUS
<1>9. DOMAIN root = IF Remaining = Empty /\ mp # Empty THEN {0} ELSE {}
  OBVIOUS
<1> HIDE DEF root, new
<1> QED BY <1>1, <1>2, <1>3, <1>4, <1>5, <1>7, <1>8, <1>9 DEF Join

LEMMA AddToTmpListShape == ASSUME TypeOK, ListInv, AddToTmpList PROVE ListInv'
<1>1. /\ Rewrites(Refreshed, tmp) /\ NodeList(Refreshed)
      /\ DOMAIN Remaining \subseteq DOMAIN tmp
      /\ \A a \in DOMAIN Remaining : Remaining[a] = Refreshed[a] /\ tmp'[a] = Remaining[a]
      /\ DOMAIN tmp' \subseteq DOMAIN Remaining \cup NewParts \cup {0}
      /\ 0 \in DOMAIN tmp' => 0 \in DOMAIN Remaining \/ tmp'[0] = Node(Root, RootVersion, "pending")
      /\ \A b \in NewParts : b \notin DOMAIN Remaining =>
           tmp'[b] = Node(mp[b].name, mp[b].version, "pending_apply")
  BY AddToTmpListLists DEF NewParts, TypeOK
<1>2. \A b \in NewParts : /\ b \in 1..top /\ mp[b].name \in Docs
                          /\ \A a \in DOMAIN tmp : a < b
                          /\ \A p \in Threads : call[p].node < b
  BY DEF AddToTmpList, ListInv, Ahead, NewParts, TypeOK, PartType
<1>3. Shape(Remaining) /\ \A a \in DOMAIN Remaining : a \in Front(Refreshed) => a \in Front(Remaining)
  <2>1. Shape(Refreshed) /\ DOMAIN Refreshed = DOMAIN tmp
    BY <1>1, ShapeRewritten, RewritesPlaces DEF ListInv
  <2> QED BY <1>1, <2>1, ShapeDeleted
<1>4. Front(Refreshed) = Front(tmp)
  BY <1>1, RewritesPlaces
<1>5. \A a \in DOMAIN tmp' : /\ a \in DOMAIN Remaining \cup NewParts \cup {0} /\ a \in Nat
                             /\ a \in DOMAIN Remaining => tmp'[a] = Remaining[a]
                             /\ a \in NewParts => a \notin DOMAIN Remaining /\ a # 0
  BY <1>1, <1>2 DEF TypeOK
<1>6. \A b \in NewParts : tmp'[b].name \in Docs /\ tmp'[b].status = "pending_apply" /\ tmp'[b].code = 0
                          /\ tmp'[b].name # Root
  <2> SUFFICES ASSUME NEW b \in NewParts
               PROVE  /\ tmp'[b].name \in Docs /\ tmp'[b].name # Root
                      /\ tmp'[b].status = "pending_apply" /\ tmp'[b].code = 0
    OBVIOUS
  <2>1. b \in Nat /\ b \notin DOMAIN tmp
    BY <1>2 DEF TypeOK
  <2>2. tmp'[b] = Node(mp[b].name, mp[b].version, "pending_apply")
    BY <1>1, <2>1
  <2> QED BY <1>2, <2>2, DocsAssumption DEF Node
<1>7. 0 \in DOMAIN tmp' /\ 0 \notin DOMAIN Remaining =>
        tmp'[0].name = Root /\ tmp'[0].status = "pending"
  BY <1>1 DEF Node
<1>8. \A a \in DOMAIN tmp' : tmp'[a].name = Root <=> a = 0
  BY <1>3, <1>5, <1>6, <1>7 DEF Shape
<1>9. \A a \in DOMAIN Remaining : a \in Front(Remaining) /\ a \in DOMAIN tmp' => a \in Front(tmp')
  <2> SUFFICES ASSUME NEW a \in DOMAIN Remaining, a \in DOMAIN tmp', NEW b \in DOMAIN tmp',
                      b < a, tmp'[b].name = tmp'[a].name
               PROVE  b \in DOMAIN Remaining /\ Remaining[b].name = Remaining[a].name
    BY DEF Front, Behind
  <2>1. b \notin NewParts
    BY <1>1, <1>2, <1>5
  <2>2. b \in DOMAIN Remaining
    BY <1>5, <1>7, <1>8, <2>1
  <2> QED BY <1>5, <2>2
<1>10. 0 \in DOMAIN tmp' => 0 \in Front(tmp')
  BY <1>5 DEF Front, Behind
<1>11. Shape(tmp')
  <2>1. \A a \in DOMAIN tmp' : a \notin Front(tmp') => tmp'[a].status = "pending_apply"
    BY <1>3, <1>5, <1>6, <1>9, <1>10 DEF Shape
  <2>2. \A a \in DOMAIN tmp' : tmp'[a].status = "pending_apply" => tmp'[a].code = 0
    BY <1>3, <1>5, <1>6, <1>7 DEF Shape
  <2> QED BY <1>8, <2>1, <2>2 DEF Shape
<1>12. UNCHANGED <<call, top>> /\ pc' = "apply" /\ pc = "parsed"
  BY DEF AddToTmpList
<1>13. CallsSeen'
  <2> SUFFICES ASSUME NEW p \in Threads, call[p].node \in DOMAIN tmp'
               PROVE  call[p].node \in Front(tmp')
    BY <1>12 DEF CallsSeen
  <2>1. call[p].node \notin NewParts
    BY <1>2
  <2>2. call[p].node \in DOMAIN Remaining => call[p].node \in Front(tmp)
    BY <1>1 DEF ListInv, CallsSeen
  <2> QED BY <1>3, <1>4, <1>5, <1>9, <1>10, <2>1, <2>2
<1>14. Ahead' /\ CallPlace'
  BY <1>12 DEF ListInv, Ahead, CallPlace
<1> QED BY <1>11, <1>13, <1>14 DEF ListInv

\* The steps that leave the tmp list and the calls alone, and the others.
Quiet ==
  \/ (\E b \in Bundles : Fetch(b)) \/ NoBundle \/ ParseFails \/ EndLoop
  \/ StartFailedDocsRetry \/ NotYetDue \/ EndFailedDocsRetry
  \/ TimerStep \/ ComponentStep \/ UNCHANGED vars

Writing ==
  \/ SendDoc \/ DecodeFails \/ SetSucceeds \/ (\E code \in FailCodes : SetFails(code))
  \/ RetryNext \/ Storing \/ (\E p \in Threads : Resends(p) \/ RecordStep(p)) \/ HandleEvent

LEMMA NextSplit ==
  ASSUME [Next]_vars
  PROVE  Quiet \/ Parse \/ AddToTmpList \/ ReleaseSuccessDocs \/ Writing
<1>1. CASE SyncStep
  BY <1>1 DEF SyncStep, Quiet, Writing, Resends, Storing, Threads
<1>2. CASE EventStep
  BY <1>2 DEF EventStep, Writing, Resends, Threads
<1>3. CASE Refresh
  BY <1>3 DEF Writing, Storing
<1> QED BY <1>1, <1>2, <1>3 DEF Next, Quiet

LEMMA QuietLists ==
  ASSUME Quiet
  PROVE  /\ UNCHANGED <<tmp, mp, call, top>>
         /\ \/ pc' \in {pc, "idle", "received", "retry"} /\ UNCHANGED <<etag, supp>>
            \/ pc \in {"idle", "request"} /\ pc' = "received"
         /\ call["sync"] # NoCall /\ CallPlace => pc' = pc
<1>1. CASE \E b \in Bundles : Fetch(b)
  BY <1>1 DEF Fetch, CallPlace
<1>2. CASE NoBundle \/ ParseFails \/ EndLoop \/ StartFailedDocsRetry \/ NotYetDue
           \/ EndFailedDocsRetry
  BY <1>2 DEF NoBundle, ParseFails, EndLoop, StartFailedDocsRetry, NotYetDue,
     EndFailedDocsRetry, CallPlace
<1>3. CASE TimerStep
  BY <1>3 DEF TimerStep, TimerExpires, TimerCheck
<1>4. CASE ComponentStep
  BY <1>4 DEF ComponentStep, ComponentAccepts, ComponentRefuses, ComponentNeedsTime,
     ComponentRestarts
<1>5. CASE UNCHANGED vars
  BY <1>5 DEF vars
<1> QED BY <1>1, <1>2, <1>3, <1>4, <1>5 DEF Quiet

LEMMA QuietShape == ASSUME TypeOK, ListInv, Quiet PROVE ListInv'
<1>1. UNCHANGED <<tmp, mp, call, top>>
  BY QuietLists
<1>2. Shape(tmp)' /\ CallsSeen'
  BY <1>1 DEF ListInv, CallsSeen
<1>3. pc' = "parsed" => pc = "parsed" /\ UNCHANGED supp
  BY QuietLists
<1>4. Ahead'
  BY <1>1, <1>3 DEF ListInv, Ahead, NewParts, OfThisSync
<1>5. CallPlace'
  BY <1>1, QuietLists DEF ListInv, CallPlace
<1> QED BY <1>2, <1>4, <1>5 DEF ListInv

\* The parts of a new bundle lie behind everything there is.
LEMMA ParseShape == ASSUME TypeOK, ListInv, Parse PROVE ListInv'
<1> DEFINE bundle == cloud[Len(cloud)]
           kept == {a \in DOMAIN mp : ~OfThisSync(mp[a].name)}
           new == [a \in (top + 1)..(top + Len(bundle)) |-> bundle[a - top]]
<1>1. /\ UNCHANGED <<tmp, call, supp>> /\ pc = "received"
      /\ mp' = Join(Only(mp, kept), new) /\ top' = top + Len(bundle)
  BY DEF Parse
<1>2. Len(bundle) \in Nat /\ top \in Nat
  <2>1. cloud \in Seq(Bundles) /\ cloud # <<>>
    BY <1>1 DEF TypeOK
  <2>2. bundle \in Bundles
    BY <2>1
  <2> HIDE DEF bundle
  <2>3. bundle \in Seq([name : Docs, version : Nat \ {0}, ok : BOOLEAN])
    BY <2>2, BundlesAssumption
  <2> QED BY <2>3 DEF TypeOK
<1> HIDE DEF bundle
<1>3. \A b \in DOMAIN mp' : /\ b \in kept => mp'[b] = mp[b]
                            /\ b \notin kept => b \in (top + 1)..(top + Len(bundle))
  BY <1>1 DEF Join, Only
<1>4. \A b \in NewParts' : b > top /\ b \in Nat
  BY <1>1, <1>2, <1>3 DEF NewParts, OfThisSync
<1>5. DOMAIN tmp \subseteq 0..top /\ \A p \in Threads : call[p].node <= top /\ call[p].node \in Nat \cup {Null}
  BY CallKnown DEF ListInv, Ahead, TypeOK
<1>6. Ahead'
  <2>1. \A p \in Threads : call'[p].node <= top'
    BY <1>1, <1>2, <1>5 DEF Null
  <2>2. ASSUME NEW b \in NewParts'
        PROVE  (\A a \in DOMAIN tmp' : a < b) /\ \A p \in Threads : call'[p].node < b
    BY <1>1, <1>2, <1>4, <1>5, <2>2 DEF Null
  <2> QED BY <2>1, <2>2 DEF Ahead
<1>7. CallPlace'
  BY <1>1 DEF ListInv, CallPlace
<1> QED BY <1>1, <1>6, <1>7 DEF ListInv, CallsSeen

LEMMA WritingWrites == ASSUME TypeOK, ListInv, Writing PROVE Writes
<1>1. ASSUME NEW p \in Threads, Resends(p) PROVE Writes
  BY <1>1, RetrySendWrites, RetrySucceedsWrites, RetryFailsWrites DEF Resends
<1> QED BY <1>1, SendDocWrites, DecodeFailsWrites, SetSucceedsWrites, SetFailsWrites,
           RetryNextWrites, StoringWrites, RecordStepWrites, HandleEventWrites DEF Writing

LEMMA NextShape == ASSUME TypeOK, ListInv, [Next]_vars PROVE ListInv'
BY NextSplit, QuietShape, ParseShape, AddToTmpListShape, ReleaseShape, WritingWrites,
   WritesShape

LEMMA InitShape == Init => ListInv
<1> SUFFICES ASSUME Init PROVE ListInv
  OBVIOUS
<1>1. /\ tmp = Empty /\ mp = Empty /\ top = 0 /\ pc = "idle"
      /\ \A p \in Threads : call[p] = NoCall
  BY DEF Init
<1>2. Shape(tmp) /\ CallsSeen
  BY <1>1, ShapeEmpty DEF CallsSeen
<1>3. Ahead /\ CallPlace
  BY <1>1 DEF Ahead, CallPlace, NoCall, Null, Threads
<1> QED BY <1>2, <1>3 DEF ListInv

\* No node that is written to is hidden, and none that is hidden is anything
\* but a document nobody has worked on.
THEOREM ListInvariant == Spec => []ListInv
<1>1. Init => ListInv
  BY InitShape
<1>2. TypeOK /\ ListInv /\ [Next]_vars => ListInv'
  BY NextShape
<1> QED BY <1>1, <1>2, TypeCorrect, PTL DEF Spec

-----------------------------------------------------------------------------
(* What the threads work on. A document is the business of one thread: the   *)
(* sync thread marks only scalar documents as applied, and the event thread  *)
(* only the others.                                                          *)

Working == {"check", "sent", "unsent", "valid", "refused", "marked"}
\* Events, timers and requests are about blobs.
BlobEvents ==
  /\ \A i \in 1..Len(events) : events[i].doc \notin ScalarDocs
  /\ \A d \in ScalarDocs : requests[d] = <<>> /\ timer[d] = NoTrans
  /\ expiring \notin ScalarDocs
CallNamed(p) ==
  call[p].node # Null =>
    /\ call[p].node # 0 /\ call[p].doc \in Docs
    /\ p = "event" => call[p].doc \notin ScalarDocs
    /\ call[p].node \in DOMAIN tmp => tmp[call[p].node].name = call[p].doc
CallState(p) ==
  call[p].state \in Working =>
    /\ call[p].node # Null
    /\ p = "sync" => /\ call[p].state \notin {"valid", "refused"}
                     /\ call[p].state = "marked" => call[p].doc \in ScalarDocs
\* failedDocsRetry finds no root node.
RootClean(t) == \A a \in DOMAIN t : t[a].name = Root => t[a].code = 0
CallsInv == RootClean(tmp) /\ BlobEvents /\ \A p \in Threads : CallNamed(p) /\ CallState(p)

\* A call goes on for the same node, or begins for a node that is not hidden.
GoesOnAt(q) ==
  /\ call'[q].node = call[q].node /\ call'[q].doc = call[q].doc
  /\ call'[q].state \in Working => call[q].state \in Working
BeginsAt(q) ==
  /\ call'[q].node \in Front(tmp) /\ tmp[call'[q].node].name = call'[q].doc
  /\ call'[q].doc \in Docs
  /\ q = "event" => call'[q].doc \notin ScalarDocs
Moves(q) ==
  /\ \/ call'[q].node = Null /\ call'[q].state \notin Working
     \/ GoesOnAt(q) \/ BeginsAt(q)
  /\ CallState(q)'

LEMMA MovesSelf ==
  ASSUME CallsInv, NEW q \in Threads, call'[q] = call[q] PROVE Moves(q)
BY DEF CallsInv, CallState, Moves, GoesOnAt

LEMMA OthersMove ==
  ASSUME TypeOK, CallsInv, NEW p \in Threads, NEW r, call' = [call EXCEPT ![p] = r], Moves(p)
  PROVE  \A q \in Threads : Moves(q)
<1> SUFFICES ASSUME NEW q \in Threads, q # p PROVE Moves(q)
  OBVIOUS
<1>1. call'[q] = call[q]
  BY DEF TypeOK
<1> QED BY <1>1, MovesSelf

\* A thread goes on with its next step.
LEMMA GoesMoves ==
  ASSUME TypeOK, CallsInv, NEW p \in Threads, NEW s, Goes(p, s),
         s \in Working => /\ call[p].state \in Working
                          /\ s = "marked" /\ (p = "sync" => call[p].doc \in ScalarDocs)
  PROVE  \A q \in Threads : Moves(q)
<1>1. PICK r : call' = [call EXCEPT ![p] = r]
  BY GoesWhere
<1>2. CASE s = "none"
  <2>1. call'[p].node = Null /\ call'[p].state = "none"
    <3>1. call'[p] = NoCall
      BY <1>2, GoesNode
    <3> QED BY <3>1 DEF NoCall
  <2>2. Moves(p)
    BY <2>1 DEF Moves, Working, CallState
  <2> QED BY <1>1, <2>2, OthersMove
<1>3. CASE s # "none"
  <2>1. call'[p] = [call[p] EXCEPT !.state = s]
    BY <1>3, GoesNode
  <2>2. call'[p].node = call[p].node /\ call'[p].doc = call[p].doc /\ call'[p].state = s
    BY <2>1 DEF TypeOK, CallType
  <2>3. Moves(p)
    BY <2>2 DEF Moves, GoesOnAt, CallState, CallsInv
  <2> QED BY <1>1, <2>3, OthersMove
<1> QED BY <1>2, <1>3

LEMMA EndsMoves ==
  ASSUME TypeOK, CallsInv, NEW p \in Threads, call' = [call EXCEPT ![p] = NoCall]
  PROVE  \A q \in Threads : Moves(q)
<1>1. call'[p] = NoCall
  BY DEF TypeOK
<1>2. Moves(p)
  BY <1>1 DEF Moves, NoCall, Working, CallState
<1> QED BY <1>2, OthersMove

\* A thread begins with a node, or sends it.
LEMMA BeginsMoves ==
  ASSUME TypeOK, CallsInv, NEW p \in Threads, NEW r, call' = [call EXCEPT ![p] = r],
         r.state \in {"check", "sent", "unsent", "valid", "refused"},
         p = "sync" => r.state \notin {"valid", "refused"},
         r.node # Null,
         \/ /\ r.node \in Front(tmp) /\ tmp[r.node].name = r.doc /\ r.doc \in Docs
            /\ p = "event" => r.doc \notin ScalarDocs
         \/ r.node = call[p].node /\ r.doc = call[p].doc /\ call[p].state \in Working
  PROVE  \A q \in Threads : Moves(q)
<1>1. call'[p] = r
  BY DEF TypeOK
<1>2. CallState(p)'
  BY <1>1 DEF CallState
<1>3. GoesOnAt(p) \/ BeginsAt(p)
  BY <1>1 DEF GoesOnAt, BeginsAt
<1>4. Moves(p)
  BY <1>2, <1>3 DEF Moves
<1> QED BY <1>4, OthersMove

LEMMA SendDocMoves ==
  ASSUME TypeOK, ListInv, CallsInv, SendDoc PROVE \A q \in Threads : Moves(q)
<1>1. PICK a \in Applicable, n \in DOMAIN tmp, s \in {"sent", "unsent"} :
           /\ n \in Pointer(tmp, mp[a].name)
           /\ call' = [call EXCEPT !["sync"] = [doc |-> mp[a].name, node |-> n,
                         version |-> mp[a].version, known |-> 0, trans |-> NoTrans, state |-> s]]
  BY SendDocEdits
<1>2. mp[a].name \in Docs /\ tmp[n].name = mp[a].name
  BY <1>1, ApplicableNode DEF TypeOK, PartType
<1>3. n # Null /\ n \in Front(tmp)
  BY <1>1, TypeList, PointerFront DEF Null
<1> DEFINE r == [doc |-> mp[a].name, node |-> n, version |-> mp[a].version,
                 known |-> 0, trans |-> NoTrans, state |-> s]
<1>4. call' = [call EXCEPT !["sync"] = r] /\ r.node = n /\ r.doc = mp[a].name /\ r.state = s
  BY <1>1
<1> HIDE DEF r
<1> QED BY <1>2, <1>3, <1>4, BeginsMoves DEF Threads

LEMMA RetryNextMoves ==
  ASSUME TypeOK, ListInv, CallsInv, RetryNext PROVE \A q \in Threads : Moves(q)
<1>1. PICK a \in Retryable : Retry("sync", a, tmp[a].name, 0)
  BY DEF RetryNext
<1>2. a \in DOMAIN tmp /\ tmp[a].code # 0
  BY DEF Retryable, Crash, NotThere
<1>3. a \in Front(tmp) /\ tmp[a].name \in Docs /\ a # Null
  <2>1. a \in Front(tmp)
    BY <1>2 DEF ListInv, Shape
  <2>2. tmp[a].name \in Docs \cup {Root} /\ tmp[a].name # Root
    BY <1>2 DEF TypeOK, NodeType, CallsInv, RootClean
  <2> QED BY <1>2, <2>1, <2>2, TypeList DEF Null
<1>4. \/ UNCHANGED call
      \/ call' = [call EXCEPT !["sync"] = Begun(a, tmp[a].name, 0)]
  BY <1>1, RetryEdits
<1>5. /\ Begun(a, tmp[a].name, 0).doc = tmp[a].name /\ Begun(a, tmp[a].name, 0).node = a
      /\ Begun(a, tmp[a].name, 0).state = "check"
  BY DEF Begun, NoCall
<1> QED BY <1>3, <1>4, <1>5, BeginsMoves, MovesSelf DEF Threads

LEMMA RetrySendMoves ==
  ASSUME TypeOK, ListInv, CallsInv, NEW p \in Threads, RetrySend(p)
  PROVE  \A q \in Threads : Moves(q)
<1> DEFINE V == {call[p].known} \cup {mp[a].version : a \in Named(mp, call[p].doc)}
           r(a, s) == [doc |-> call[p].doc, node |-> call[p].node, version |-> mp[a].version,
                       known |-> call[p].known, trans |-> NoTrans, state |-> s]
<1>1. \/ call' = [call EXCEPT ![p] = NoCall]
      \/ \E a, s : s \in {"sent", "unsent"} /\ call' = [call EXCEPT ![p] = r(a, s)]
  <2>1. /\ p = "event" => call[p].known \in V
        /\ \A a \in Named(mp, call[p].doc) : mp[a].version \in V
    OBVIOUS
  <2> HIDE DEF V
  <2> QED BY <2>1, RetrySendEdits
<1>2. call[p].state = "check"
  BY DEF RetrySend
<1>3. call[p].node # Null
  BY <1>2 DEF CallsInv, CallState, Working
<1>4. \A a, s : r(a, s).node = call[p].node /\ r(a, s).doc = call[p].doc /\ r(a, s).state = s
  OBVIOUS
<1> HIDE DEF r
<1>5. ASSUME NEW a, NEW s \in {"sent", "unsent"}, call' = [call EXCEPT ![p] = r(a, s)]
      PROVE  \A q \in Threads : Moves(q)
  <2> DEFINE k == r(a, s)
  <2>1. /\ k.state \in {"check", "sent", "unsent", "valid", "refused"}
        /\ k.state \notin {"valid", "refused"}
    BY <1>4
  <2>2. k.node # Null /\ k.node = call[p].node /\ k.doc = call[p].doc
        /\ call[p].state \in Working
    BY <1>2, <1>3, <1>4 DEF Working
  <2>3. call' = [call EXCEPT ![p] = k]
    BY <1>5
  <2> HIDE DEF k
  <2> QED BY <2>1, <2>2, <2>3, BeginsMoves
<1> QED BY <1>1, <1>5, EndsMoves

LEMMA HandleEventMoves ==
  ASSUME TypeOK, ListInv, CallsInv, HandleEvent
  PROVE  (\A q \in Threads : Moves(q)) /\ call'["sync"] = call["sync"]
         /\ Head(events).doc \notin ScalarDocs
<1> DEFINE e == Head(events)
<1>1. e \in EventType
  BY HandleEventKeeps
<1>2. PICK n \in Pointer(tmp, e.doc) :
        \/ UNCHANGED call
        \/ /\ n \in DOMAIN tmp
           /\ \/ call' = [call EXCEPT !["event"] = Begun(n, e.doc, TmpVersion(n))]
              \/ \E s \in {"valid", "refused"} :
                   call' = [call EXCEPT !["event"] = Settling(e, n, s)]
  BY HandleEventKeeps
<1>3. e.doc \in Docs /\ e.doc \notin ScalarDocs
  <2>1. events \in Seq(EventType) /\ events # <<>>
    BY DEF TypeOK, HandleEvent
  <2>2. e = events[1] /\ 1 \in 1..Len(events)
    BY <2>1
  <2>3. e.doc \notin ScalarDocs
    BY <2>2 DEF CallsInv, BlobEvents
  <2> QED BY <1>1, <2>3 DEF EventType
<1> HIDE DEF e
<1>4. ASSUME n \in DOMAIN tmp, NEW r, call' = [call EXCEPT !["event"] = r],
             r.node = n, r.doc = e.doc, r.state \in {"check", "valid", "refused"}
      PROVE  \A q \in Threads : Moves(q)
  <2>1. n \in Front(tmp) /\ tmp[n].name = e.doc /\ n # Null
    BY <1>2, <1>4, TypeList, PointerFront DEF Null
  <2> QED BY <1>3, <1>4, <2>1, BeginsMoves DEF Threads
<1>5. /\ Begun(n, e.doc, TmpVersion(n)).node = n /\ Begun(n, e.doc, TmpVersion(n)).doc = e.doc
      /\ Begun(n, e.doc, TmpVersion(n)).state = "check"
      /\ \A s : /\ Settling(e, n, s).node = n /\ Settling(e, n, s).doc = e.doc
                /\ Settling(e, n, s).state = s
  BY DEF Begun, NoCall, Settling
<1>6. \A q \in Threads : Moves(q)
  <2>1. CASE UNCHANGED call
    BY <2>1, MovesSelf
  <2>2. CASE n \in DOMAIN tmp /\ call' = [call EXCEPT !["event"] = Begun(n, e.doc, TmpVersion(n))]
    BY <1>4, <1>5, <2>2
  <2>3. ASSUME n \in DOMAIN tmp, NEW s \in {"valid", "refused"},
               call' = [call EXCEPT !["event"] = Settling(e, n, s)]
        PROVE  \A q \in Threads : Moves(q)
    BY <1>4, <1>5, <2>3
  <2> QED BY <1>2, <2>1, <2>2, <2>3
<1>7. call'["sync"] = call["sync"]
  BY <1>2 DEF TypeOK, Threads
<1> QED BY <1>3, <1>6, <1>7 DEF e

LEMMA RecordStepMoves ==
  ASSUME TypeOK, CallsInv, NEW p \in Threads, RecordStep(p) PROVE \A q \in Threads : Moves(q)
<1>1. CASE Mark(p)
  <2>1. call[p].state \in {"valid", "refused"} /\ (Goes(p, "marked") \/ Goes(p, "none"))
    BY <1>1 DEF Mark
  <2>2. p # "sync" /\ call[p].state \in Working
    BY <2>1 DEF CallsInv, CallState, Working
  <2>3. "none" \notin Working
    BY DEF Working
  <2> QED BY <2>1, <2>2, <2>3, GoesMoves
<1>2. CASE RecordRoot(p)
  <2> DEFINE r == [call[p] EXCEPT !.version = etag, !.state = "rootdb"]
  <2>1. call' = [call EXCEPT ![p] = r]
    BY <1>2 DEF RecordRoot
  <2>2. r.node = call[p].node /\ r.doc = call[p].doc /\ r.state = "rootdb"
    BY DEF TypeOK, CallType
  <2> HIDE DEF r
  <2>3. call'[p] = r
    BY <2>1 DEF TypeOK
  <2>4. Moves(p)
    BY <2>2, <2>3 DEF Moves, GoesOnAt, CallState, Working
  <2> QED BY <2>1, <2>4, OthersMove
<1>3. CASE Record(p) \/ MarkRoot(p) \/ Save(p) \/ CheckDelete(p) \/ DeleteTmpList(p)
           \/ DeleteMultipart(p)
  <2>1. PICK s \in {"none", "rooted", "save", "saved", "drop", "free"} : Goes(p, s)
    BY <1>3 DEF Record, MarkRoot, Save, CheckDelete, DeleteTmpList, DeleteMultipart,
       AfterDelete
  <2>2. s \notin Working
    BY DEF Working
  <2> QED BY <2>1, <2>2, GoesMoves
<1> QED BY <1>1, <1>2, <1>3 DEF RecordStep

LEMMA PassedMoves ==
  ASSUME TypeOK, CallsInv, NEW b, NEW n, Passed(b, n) PROVE \A q \in Threads : Moves(q)
<1>1. PICK s \in {"none", "drop"} : Goes("sync", s)
  BY DEF Passed
<1>2. s \notin Working /\ "sync" \in Threads
  BY DEF Working, Threads
<1> QED BY <1>1, <1>2, GoesMoves

LEMMA WritingMoves ==
  ASSUME TypeOK, ListInv, CallsInv, Writing PROVE \A q \in Threads : Moves(q)
<1>1. CASE DecodeFails
  BY <1>1, MovesSelf DEF DecodeFails
<1>2. CASE SetSucceeds
  <2>1. CASE call["sync"].doc \in ScalarDocs
    <3>1. Goes("sync", "marked") /\ call["sync"].state \in Working
      BY <1>2, <2>1 DEF SetSucceeds, Applied, Working
    <3> QED BY <2>1, <3>1, GoesMoves DEF Threads
  <2>2. CASE call["sync"].doc \notin ScalarDocs
    BY <1>2, <2>2, PassedMoves DEF SetSucceeds
  <2> QED BY <2>1, <2>2
<1>3. ASSUME NEW code \in FailCodes, SetFails(code) PROVE \A q \in Threads : Moves(q)
  <2>1. PICK s \in {"none", "rooted"} : Goes("sync", s)
    BY <1>3 DEF SetFails
  <2>2. s \notin Working /\ "sync" \in Threads
    BY DEF Working, Threads
  <2> QED BY <2>1, <2>2, GoesMoves
<1>4. CASE Storing
  <2>1. CASE Refresh
    <3>1. PICK v : call' = [call EXCEPT !["sync"] =
                              [NoCall EXCEPT !.version = v, !.state = "derived"]]
      BY <2>1 DEF Refresh
    <3> DEFINE r == [NoCall EXCEPT !.version = v, !.state = "derived"]
    <3>2. r.node = Null /\ r.state = "derived" /\ call' = [call EXCEPT !["sync"] = r]
      BY <3>1 DEF NoCall
    <3> HIDE DEF r
    <3>3. call'["sync"] = r
      BY <3>2 DEF TypeOK, Threads
    <3>4. Moves("sync")
      BY <3>2, <3>3 DEF Moves, CallState, Working
    <3> QED BY <3>2, <3>4, OthersMove DEF Threads
  <2>2. CASE StoreRoot
    <3>1. PICK s \in {"none", "save"} : Goes("sync", s)
      BY <2>2 DEF StoreRoot
    <3>2. s \notin Working /\ "sync" \in Threads
      BY DEF Working, Threads
    <3> QED BY <3>1, <3>2, GoesMoves
  <2>3. CASE LoopRecords
    <3>1. \E b, n : Passed(b, n)
      BY <2>3 DEF LoopRecords
    <3> QED BY <3>1, PassedMoves
  <2> QED BY <1>4, <2>1, <2>2, <2>3 DEF Storing
<1>5. ASSUME NEW p \in Threads, Resends(p) PROVE \A q \in Threads : Moves(q)
  <2>1. CASE \E code \in FailCodes : RetryFails(p, code)
    BY <2>1, EndsMoves DEF RetryFails
  <2>2. CASE RetrySucceeds(p)
    <3>1. call[p].state \in Working /\ "none" \notin Working
      BY <2>2 DEF RetrySucceeds, Working
    <3>2. (Goes(p, "marked") /\ call[p].doc \in ScalarDocs) \/ Goes(p, "none")
      BY <2>2 DEF RetrySucceeds, Applied
    <3> QED BY <3>1, <3>2, GoesMoves
  <2> QED BY <1>5, <2>1, <2>2, RetrySendMoves DEF Resends
<1> QED BY <1>1, <1>2, <1>3, <1>4, <1>5, SendDocMoves, RetryNextMoves, RecordStepMoves,
           HandleEventMoves DEF Writing

\* What one of these steps does to the list.
Written(d, v) ==
  \/ \E n, V : Edits(tmp', tmp, n, d, V)
  \/ \E n : Gives(tmp', tmp, n, d, v, "failed")
Marks(p) ==
  /\ Goes(p, "marked") /\ call[p].state \in {"sent", "valid"}
  /\ Gives(tmp', tmp, call[p].node, call[p].doc, call[p].version, "success")
  /\ p = "sync" => call[p].doc \in ScalarDocs

LEMMA WritingTmp ==
  ASSUME TypeOK, ListInv, CallsInv, Writing
  PROVE  \/ \E d \in Docs : \E v : Written(d, v)
         \/ \E p \in Threads : call[p].node # Null /\ Marks(p)
         \/ \E v \in Nat : tmp' = SetRoot(tmp, v, "success")
         \/ tmp' = Empty
         \/ UNCHANGED tmp
<1>1. \A p \in Threads : call[p].state \in Working => call[p].doc \in Docs /\ call[p].node # Null
  BY DEF CallsInv, CallState, CallNamed
<1>2. CASE SendDoc
  <2>1. PICK a \in Applicable, n \in DOMAIN tmp : Edits(tmp', tmp, n, mp[a].name, {mp[a].version})
    BY <1>2, SendDocEdits
  <2>2. mp[a].name \in Docs
    BY DEF Applicable, TypeOK, PartType
  <2> QED BY <2>1, <2>2 DEF Written
<1>3. CASE DecodeFails
  <2>1. PICK a \in Applicable, n \in DOMAIN tmp : Edits(tmp', tmp, n, mp[a].name, {mp[a].version})
    BY <1>3, DecodeFailsEdits
  <2>2. mp[a].name \in Docs
    BY DEF Applicable, TypeOK, PartType
  <2> QED BY <2>1, <2>2 DEF Written
<1>4. ASSUME NEW p \in Threads, call[p].state = "sent", Applied(p), call[p].doc \in ScalarDocs
      PROVE  call[p].node # Null /\ Marks(p)
  <2>1. Goes(p, "marked")
    BY <1>4 DEF Applied
  <2> QED BY <1>1, <1>4, <2>1, AppliedGives DEF Marks, Working
<1>5. CASE SetSucceeds
  <2>1. (call["sync"].doc \in ScalarDocs /\ Applied("sync")) \/ UNCHANGED tmp
    BY <1>5 DEF SetSucceeds
  <2>2. call["sync"].state = "sent" /\ "sync" \in Threads
    BY <1>5 DEF SetSucceeds, Threads
  <2> QED BY <1>4, <2>1, <2>2
<1>6. ASSUME NEW code \in FailCodes, SetFails(code) PROVE \E d \in Docs : \E v : Written(d, v)
  <2>1. call["sync"].state \in Working /\ "sync" \in Threads
    BY <1>6 DEF SetFails, MayFail, Working, Threads
  <2>2. Gives(tmp', tmp, call["sync"].node, call["sync"].doc, call["sync"].version, "failed")
    BY <1>6, SetFailsGives
  <2> QED BY <1>1, <2>1, <2>2 DEF Written
<1>7. CASE RetryNext
  <2>1. PICK a \in Retryable : Retry("sync", a, tmp[a].name, 0)
    BY <1>7 DEF RetryNext
  <2>2. a \in DOMAIN tmp /\ tmp[a].code # 0
    BY DEF Retryable, Crash, NotThere
  <2>3. tmp[a].name \in Docs
    BY <2>2 DEF TypeOK, NodeType, CallsInv, RootClean
  <2>4. Edits(tmp', tmp, a, tmp[a].name, {})
    BY <2>1, RetryEdits
  <2> QED BY <2>3, <2>4 DEF Written
<1>8. CASE Storing
  <2>1. UNCHANGED tmp
    BY <1>8 DEF Storing, Refresh, StoreRoot, LoopRecords
  <2> QED BY <2>1
<1>9. ASSUME NEW p \in Threads, Resends(p)
      PROVE  (\E d \in Docs : \E v : Written(d, v)) \/ (call[p].node # Null /\ Marks(p)) \/ UNCHANGED tmp
  <2>1. CASE RetrySend(p)
    <3> DEFINE V == {call[p].known} \cup {mp[a].version : a \in Named(mp, call[p].doc)}
    <3>1. /\ p = "event" => call[p].known \in V
          /\ \A a \in Named(mp, call[p].doc) : mp[a].version \in V
      OBVIOUS
    <3> HIDE DEF V
    <3>2. Edits(tmp', tmp, call[p].node, call[p].doc, V)
      BY <2>1, <3>1, RetrySendEdits
    <3>3. call[p].doc \in Docs
      BY <1>1, <2>1 DEF RetrySend, Working
    <3> QED BY <3>2, <3>3 DEF Written
  <2>2. CASE RetrySucceeds(p)
    <3>1. call[p].state = "sent" /\ ((call[p].doc \in ScalarDocs /\ Applied(p)) \/ UNCHANGED tmp)
      BY <2>2 DEF RetrySucceeds
    <3> QED BY <1>4, <3>1
  <2>3. ASSUME NEW code \in FailCodes, RetryFails(p, code) PROVE \E d \in Docs : \E v : Written(d, v)
    <3>1. Edits(tmp', tmp, call[p].node, call[p].doc, {call[p].known, call[p].version})
      BY <2>3, RetryFailsEdits
    <3>2. call[p].doc \in Docs
      BY <1>1, <2>3 DEF RetryFails, MayFail, Working
    <3> QED BY <3>1, <3>2 DEF Written
  <2> QED BY <1>9, <2>1, <2>2, <2>3 DEF Resends
<1>10. ASSUME NEW p \in Threads, RecordStep(p)
       PROVE  \/ \E d \in Docs : \E v : Written(d, v)
              \/ call[p].node # Null /\ Marks(p)
              \/ \E v \in Nat : tmp' = SetRoot(tmp, v, "success")
              \/ tmp' = Empty
              \/ UNCHANGED tmp
  <2>1. CASE Mark(p)
    <3>1. call[p].doc \in Docs /\ call[p].node # Null /\ p # "sync"
      BY <1>1, <2>1 DEF Mark, Working, CallsInv, CallState
    <3>2. CASE /\ Gives(tmp', tmp, call[p].node, call[p].doc, call[p].version, "success")
               /\ call[p].state = "valid" /\ Goes(p, "marked")
      BY <3>1, <3>2 DEF Marks
    <3>3. CASE Gives(tmp', tmp, call[p].node, call[p].doc, call[p].version, "failed")
      BY <3>1, <3>3 DEF Written
    <3> QED BY <2>1, <3>2, <3>3, MarkGives
  <2>2. CASE MarkRoot(p)
    <3>1. call[p].version \in Nat
      BY DEF TypeOK, CallType
    <3> QED BY <2>2, <3>1 DEF MarkRoot
  <2>3. CASE Record(p) \/ RecordRoot(p) \/ Save(p) \/ CheckDelete(p) \/ DeleteTmpList(p)
             \/ DeleteMultipart(p)
    BY <2>3 DEF Record, RecordRoot, Save, CheckDelete, DeleteTmpList, DeleteMultipart
  <2> QED BY <1>10, <2>1, <2>2, <2>3 DEF RecordStep
<1>11. CASE HandleEvent
  <2>1. Head(events).doc \in Docs
    BY <1>11, HandleEventKeeps DEF EventType
  <2>2. \E n, V : Edits(tmp', tmp, n, Head(events).doc, V)
    BY <1>11, HandleEventKeeps
  <2> QED BY <2>1, <2>2 DEF Written
<1> QED BY <1>2, <1>3, <1>5, <1>6, <1>7, <1>8, <1>9, <1>10, <1>11 DEF Writing

LEMMA WritingClean == ASSUME TypeOK, ListInv, CallsInv, Writing PROVE RootClean(tmp')
<1>1. CASE \E d \in Docs : \E v : Written(d, v)
  <2>1. PICK d \in Docs : \E v : Written(d, v)
    BY <1>1
  <2>2. PICK v : Written(d, v)
    BY <2>1
  <2> QED BY <2>2, DocsAssumption DEF Written, Edits, Gives, RootClean, CallsInv
<1>2. CASE \E p \in Threads : call[p].node # Null /\ Marks(p)
  <2>1. PICK p \in Threads : call[p].node # Null /\ Marks(p)
    BY <1>2
  <2>2. call[p].doc \in Docs
    BY <2>1 DEF CallsInv, CallNamed
  <2> QED BY <2>1, <2>2, DocsAssumption DEF Marks, Gives, RootClean, CallsInv
<1>3. CASE \E v \in Nat : tmp' = SetRoot(tmp, v, "success")
  <2>1. PICK v \in Nat : tmp' = SetRoot(tmp, v, "success")
    BY <1>3
  <2>2. /\ DOMAIN tmp' = DOMAIN tmp
        /\ \A a \in DOMAIN tmp : tmp[a].name # Root => tmp'[a] = tmp[a]
        /\ \A a \in DOMAIN tmp : a \in Pointer(tmp, Root) => tmp'[a].code = 0
        /\ \A a \in DOMAIN tmp : a \notin Pointer(tmp, Root) => tmp'[a] = tmp[a]
    BY <2>1, TypeList, SetRootRewrites, SetRootOthers
  <2> QED BY <2>2 DEF RootClean, CallsInv
<1>4. CASE tmp' = Empty
  BY <1>4, ShapeEmpty DEF RootClean
<1>5. CASE UNCHANGED tmp
  BY <1>5 DEF RootClean, CallsInv
<1> QED BY <1>1, <1>2, <1>3, <1>4, <1>5, WritingTmp

LEMMA WritingCallNamed ==
  ASSUME TypeOK, ListInv, CallsInv, Writing, NEW p \in Threads PROVE CallNamed(p)' /\ CallState(p)'
<1>1. Moves(p)
  BY WritingMoves
<1>2. DOMAIN tmp' = {} \/ Rewrites(tmp', tmp)
  BY WritingWrites, ShapeEmpty DEF Writes
<1>3. CASE call'[p].node = Null
  BY <1>1, <1>3 DEF CallNamed, Moves
<1>4. CASE GoesOnAt(p)
  BY <1>1, <1>2, <1>4 DEF CallNamed, CallsInv, GoesOnAt, Moves, Rewrites
<1>5. CASE BeginsAt(p)
  <2>1. call'[p].node # 0
    BY <1>5, DocsAssumption DEF BeginsAt, ListInv, Shape, Front
  <2>2. call'[p].node \in DOMAIN tmp' => tmp'[call'[p].node].name = call'[p].doc
    BY <1>2, <1>5 DEF BeginsAt, Rewrites, Front
  <2> QED BY <1>1, <1>5, <2>1, <2>2 DEF CallNamed, BeginsAt, Moves
<1> QED BY <1>1, <1>3, <1>4, <1>5 DEF Moves

\* Where the events come from.
LEMMA SetValuesBlobs ==
  ASSUME TypeOK, BlobEvents, NEW p, NEW d \in Docs, NEW n, NEW m, NEW v, NEW known,
         SetValues(p, d, n, m, v, known), UNCHANGED <<events, timer, expiring>>
  PROVE  BlobEvents'
<1>1. UNCHANGED requests \/ (d \notin ScalarDocs /\ \E x : requests' = [requests EXCEPT ![d] = x])
  BY DEF SetValues
<1>2. \A x \in ScalarDocs : requests'[x] = requests[x]
  BY <1>1, DocsAssumption DEF TypeOK
<1> QED BY <1>2 DEF BlobEvents

LEMMA WritingBlobs ==
  ASSUME TypeOK, ListInv, CallsInv, Writing PROVE BlobEvents'
<1>1. ASSUME UNCHANGED <<events, requests, timer, expiring>> PROVE BlobEvents'
  BY <1>1 DEF CallsInv, BlobEvents
<1>2. CASE SendDoc
  <2>1. PICK a \in Applicable : \E n, m, v : SetValues("sync", mp[a].name, n, m, v, 0)
    BY <1>2 DEF SendDoc
  <2>2. mp[a].name \in Docs
    BY DEF Applicable, TypeOK, PartType
  <2> QED BY <1>2, <2>1, <2>2, SetValuesBlobs DEF SendDoc, CallsInv
<1>3. ASSUME NEW p \in Threads, RetrySend(p) PROVE BlobEvents'
  <2>1. call[p].doc \in Docs
    BY <1>3 DEF RetrySend, CallsInv, CallNamed, CallState, Working
  <2>2. UNCHANGED requests \/ \E n, m, v, known : SetValues(p, call[p].doc, n, m, v, known)
    BY <1>3 DEF RetrySend
  <2>3. UNCHANGED <<events, timer, expiring>>
    BY <1>3 DEF RetrySend
  <2> QED BY <1>1, <2>1, <2>2, <2>3, SetValuesBlobs DEF CallsInv
<1>4. CASE HandleEvent
  <2> DEFINE e == Head(events)
  <2>1. events \in Seq(EventType) /\ events # <<>> /\ events' = Tail(events)
    BY <1>4 DEF TypeOK, HandleEvent
  <2>2. e.doc \notin ScalarDocs
    BY <1>4, HandleEventMoves
  <2>3. \A i \in 1..Len(events') : events'[i].doc \notin ScalarDocs
    <3> HIDE DEF EventType
    <3>1. \A i \in 1..Len(events') : i + 1 \in 1..Len(events) /\ events'[i] = events[i + 1]
      BY <2>1
    <3> QED BY <3>1 DEF CallsInv, BlobEvents
  <2>4. PICK n \in Pointer(tmp, e.doc) :
          \/ HandleAck(e, n) \/ HandleNack(e, n) \/ HandleTimeout(e, n)
          \/ HandleExpire(e, n) \/ HandleInit(e, n)
    BY <1>4 DEF HandleEvent
  <2> HIDE DEF e
  <2>5. UNCHANGED <<requests, expiring>>
    BY <2>4 DEF HandleAck, HandleNack, HandleTimeout, HandleExpire, HandleInit, Retry
  <2>6. \A d \in ScalarDocs : timer'[d] = NoTrans
    <3>1. timer \in [Docs -> Trans] /\ ScalarDocs \subseteq Docs
      BY DocsAssumption DEF TypeOK
    <3>2. UNCHANGED timer \/ \E x : timer' = [timer EXCEPT ![e.doc] = x]
      BY <2>4 DEF HandleAck, HandleNack, HandleTimeout, HandleExpire, HandleInit, StopTimer
    <3>3. \A d \in ScalarDocs : timer'[d] = timer[d]
      BY <2>2, <3>1, <3>2
    <3> QED BY <3>3 DEF CallsInv, BlobEvents
  <2> QED BY <2>3, <2>5, <2>6 DEF BlobEvents, CallsInv
<1>5. CASE DecodeFails \/ SetSucceeds \/ (\E code \in FailCodes : SetFails(code)) \/ Storing
  <2>1. UNCHANGED <<events, requests, timer, expiring>>
    BY <1>5 DEF DecodeFails, SetSucceeds, SetFails, Storing, Refresh, StoreRoot, LoopRecords
  <2> QED BY <1>1, <2>1
<1>6. CASE RetryNext
  <2>1. UNCHANGED <<events, requests, timer, expiring>>
    BY <1>6 DEF RetryNext, Retry
  <2> QED BY <1>1, <2>1
<1>7. ASSUME NEW p \in Threads, Resends(p) \/ RecordStep(p) PROVE BlobEvents'
  <2>1. CASE RecordStep(p)
    <3>1. UNCHANGED <<events, requests, timer, expiring>>
      BY <2>1 DEF RecordStep, Mark, Record, RecordRoot, MarkRoot, Save, CheckDelete,
         DeleteTmpList, DeleteMultipart
    <3> QED BY <1>1, <3>1
  <2>2. CASE RetrySucceeds(p) \/ \E code \in FailCodes : RetryFails(p, code)
    <3>1. UNCHANGED <<events, requests, timer, expiring>>
      BY <2>2 DEF RetrySucceeds, RetryFails
    <3> QED BY <1>1, <3>1
  <2> QED BY <1>3, <1>7, <2>1, <2>2 DEF Resends
<1> QED BY <1>2, <1>4, <1>5, <1>6, <1>7 DEF Writing

LEMMA QuietBlobs ==
  ASSUME TypeOK, BlobEvents, Quiet PROVE BlobEvents'
<1>1. ASSUME UNCHANGED <<events, requests, timer, expiring>> PROVE BlobEvents'
  BY <1>1 DEF BlobEvents
<1>2. CASE (\E b \in Bundles : Fetch(b)) \/ NoBundle \/ ParseFails \/ EndLoop
           \/ StartFailedDocsRetry \/ NotYetDue \/ EndFailedDocsRetry \/ UNCHANGED vars
  <2>1. UNCHANGED <<events, requests, timer, expiring>>
    BY <1>2 DEF Fetch, NoBundle, ParseFails, EndLoop, StartFailedDocsRetry, NotYetDue,
       EndFailedDocsRetry, vars
  <2> QED BY <1>1, <2>1
<1>3. ASSUME NEW e \in EventType, e.doc \notin ScalarDocs, events' = Append(events, e)
      PROVE  \A i \in 1..Len(events') : events'[i].doc \notin ScalarDocs
  <2> HIDE DEF EventType
  <2>1. events \in Seq(EventType)
    BY DEF TypeOK
  <2>2. \A i \in 1..Len(events') : events'[i] = e \/ (i \in 1..Len(events) /\ events'[i] = events[i])
    BY <1>3, <2>1
  <2> QED BY <1>3, <2>2 DEF BlobEvents
<1>4. ASSUME NEW d \in Docs, d \notin ScalarDocs, NEW kind \in Kinds, NEW x \in Trans,
             NEW v \in Nat, NEW code \in Codes, Event(kind, d, x, v, code)
      PROVE  \A i \in 1..Len(events') : events'[i].doc \notin ScalarDocs
  <2> DEFINE r == [kind |-> kind, doc |-> d, trans_id |-> x, version |-> v, code |-> code]
  <2>1. r \in EventType /\ r.doc = d /\ events' = Append(events, r)
    BY <1>4 DEF EventType, Event
  <2> HIDE DEF r
  <2> QED BY <1>3, <1>4, <2>1
<1>5. CASE TimerStep
  <2>1. CASE TimerExpires
    <3>1. expiring \in Docs /\ expiring' = Root /\ UNCHANGED requests /\ Root \notin ScalarDocs
      BY <2>1, DocsAssumption DEF TimerExpires, TypeOK
    <3>2. Event("EXPIRE", expiring, NoTrans, 0, 0)
      BY <2>1 DEF TimerExpires, Event
    <3>3. \A i \in 1..Len(events') : events'[i].doc \notin ScalarDocs
      BY <1>4, <3>1, <3>2, ListedValues DEF BlobEvents, Kinds, Trans, Codes
    <3>4. \A d \in ScalarDocs : timer'[d] = NoTrans
      BY <2>1, DocsAssumption DEF TimerExpires, BlobEvents, TypeOK
    <3> QED BY <3>1, <3>3, <3>4 DEF BlobEvents
  <2>2. ASSUME NEW d \in Docs, TimerCheck(d) PROVE BlobEvents'
    BY <2>2 DEF TimerCheck, BlobEvents
  <2> QED BY <1>5, <2>1, <2>2 DEF TimerStep
<1>6. CASE ComponentStep
  <2>1. PICK d \in Docs : \/ ComponentAccepts(d) \/ ComponentRefuses(d)
                          \/ ComponentNeedsTime(d) \/ ComponentRestarts(d)
    BY <1>6 DEF ComponentStep
  <2>2. d \notin ScalarDocs
    BY <2>1 DEF ComponentAccepts, ComponentRefuses, ComponentNeedsTime, ComponentRestarts,
       BlobEvents
  <2>3. UNCHANGED <<timer, expiring>>
    BY <2>1 DEF ComponentAccepts, ComponentRefuses, ComponentNeedsTime, ComponentRestarts
  <2>4. UNCHANGED requests \/ \E x : requests' = [requests EXCEPT ![d] = x]
    BY <2>1 DEF ComponentAccepts, ComponentRefuses, ComponentNeedsTime, ComponentRestarts
  <2>5. \A x \in ScalarDocs : requests'[x] = requests[x]
    BY <2>2, <2>4, DocsAssumption DEF TypeOK
  <2>6. events' \in Seq(EventType) => \A i \in 1..Len(events') : events'[i].doc \notin ScalarDocs
    <3>1. ASSUME NEW e, e.doc = d, events' = Append(events, e), events' \in Seq(EventType)
          PROVE  \A i \in 1..Len(events') : events'[i].doc \notin ScalarDocs
      <4> HIDE DEF EventType
      <4>1. events \in Seq(EventType)
        BY DEF TypeOK
      <4>2. \A i \in 1..Len(events') : events'[i] = e \/ (i \in 1..Len(events) /\ events'[i] = events[i])
        BY <3>1, <4>1
      <4> QED BY <2>2, <3>1, <4>2 DEF BlobEvents
    <3>2. \E e : e.doc = d /\ events' = Append(events, e)
      <4>1. \E k, x, v, c : Event(k, d, x, v, c)
        BY <2>1 DEF ComponentAccepts, ComponentRefuses, ComponentNeedsTime, ComponentRestarts
      <4>2. PICK k, x, v, c : Event(k, d, x, v, c)
        BY <4>1
      <4> DEFINE r == [kind |-> k, doc |-> d, trans_id |-> x, version |-> v, code |-> c]
      <4>3. r.doc = d /\ events' = Append(events, r)
        BY <4>2 DEF Event
      <4> HIDE DEF r
      <4> QED BY <4>3
    <3> QED BY <3>1, <3>2
  <2>7. events' \in Seq(EventType)
    <3>1. [Next]_vars
      BY <1>6 DEF Next
    <3>2. TypeOK'
      BY <3>1, NextType
    <3> QED BY <3>2 DEF TypeOK
  <2> QED BY <2>3, <2>5, <2>6, <2>7 DEF BlobEvents
<1> QED BY <1>2, <1>5, <1>6 DEF Quiet

\* addToTmpList first updates the node of root.
LEMMA RefreshedNodes ==
  ASSUME TypeOK, ListInv
  PROVE  /\ Rewrites(Refreshed, tmp)
         /\ \A a \in DOMAIN tmp :
              \/ Refreshed[a] = tmp[a] /\ (supp \/ tmp[a].name # Root)
              \/ /\ ~supp /\ Refreshed[a].name = Root /\ tmp[a].name = Root
                 /\ Refreshed[a].version = etag /\ Refreshed[a].code = 0
                 /\ Refreshed[a].status = "pending"
<1>1. CASE supp
  BY <1>1, RewritesSelf DEF Refreshed
<1>2. CASE ~supp
  <2>1. RootVersion = etag /\ etag \in Nat /\ "pending" \in {"pending", "success"}
    BY <1>2 DEF RootVersion, TypeOK
  <2>2. /\ Rewrites(Refreshed, tmp)
        /\ \A a \in DOMAIN tmp : tmp[a].name # Root => Refreshed[a] = tmp[a]
        /\ \A a \in Pointer(tmp, Root) : a \in DOMAIN tmp =>
             /\ Refreshed[a].version = etag /\ Refreshed[a].status = "pending"
             /\ Refreshed[a].code = 0
    BY <1>2, <2>1, SetRootRewrites, TypeList DEF Refreshed
  <2>3. \A a \in DOMAIN tmp : tmp[a].name = Root => a \in Pointer(tmp, Root)
    BY DEF ListInv, Shape, Pointer, Named, IsLeast
  <2> QED BY <1>2, <2>2, <2>3 DEF Rewrites
<1> QED BY <1>1, <1>2

LEMMA AddToTmpListClean == ASSUME TypeOK, ListInv, CallsInv, AddToTmpList PROVE RootClean(tmp')
<1>1. /\ \A a \in DOMAIN Remaining : a \in DOMAIN tmp /\ tmp'[a] = Refreshed[a]
      /\ DOMAIN tmp' = DOMAIN Remaining \cup NewParts
                         \cup (IF Remaining = Empty /\ mp # Empty THEN {0} ELSE {})
      /\ Remaining = Empty /\ mp # Empty => tmp'[0] = Node(Root, RootVersion, "pending")
      /\ \A b \in NewParts : b \notin DOMAIN Remaining =>
            tmp'[b] = Node(mp[b].name, mp[b].version, "pending_apply")
  BY AddToTmpListLists
<1>2. \A x, v, s : Node(x, v, s).code = 0
  BY DEF Node
<1>3. \A a \in DOMAIN tmp : Refreshed[a].name = Root => Refreshed[a].code = 0
  <2>1. CASE supp
    BY <2>1 DEF Refreshed, RootClean, CallsInv
  <2>2. CASE ~supp
    <3>1. Refreshed = SetRoot(tmp, RootVersion, "pending") /\ RootVersion \in Nat
      BY <2>2 DEF Refreshed, RootVersion, TypeOK
    <3>2. /\ DOMAIN Refreshed = DOMAIN tmp
          /\ \A a \in DOMAIN tmp : a \in Pointer(tmp, Root) => Refreshed[a].code = 0
          /\ \A a \in DOMAIN tmp : a \notin Pointer(tmp, Root) => Refreshed[a] = tmp[a]
      BY <3>1, TypeList, SetRootRewrites, SetRootOthers
    <3> QED BY <3>2 DEF RootClean, CallsInv
  <2> QED BY <2>1, <2>2
<1> HIDE DEF Remaining, Refreshed, NewParts
<1> QED BY <1>1, <1>2, <1>3 DEF RootClean

LEMMA NextCalls ==
  ASSUME TypeOK, ListInv, CallsInv, [Next]_vars PROVE CallsInv'
<1>1. CASE Quiet
  <2>1. UNCHANGED <<tmp, call>>
    BY <1>1, QuietLists
  <2>2. BlobEvents'
    BY <1>1, QuietBlobs DEF CallsInv
  <2> QED BY <2>1, <2>2 DEF CallsInv, CallNamed, CallState, RootClean
<1>2. CASE Parse
  BY <1>2 DEF Parse, CallsInv, CallNamed, CallState, BlobEvents, RootClean
<1>3. CASE AddToTmpList
  <2>1. UNCHANGED <<call, events, requests, timer, expiring>>
    BY <1>3 DEF AddToTmpList
  <2>2. ASSUME NEW p \in Threads, call[p].node # Null, call[p].node \in DOMAIN tmp'
        PROVE  tmp'[call[p].node].name = call[p].doc
    <3> DEFINE n == call[p].node
    <3>1. n # 0 /\ (n \in DOMAIN tmp => tmp[n].name = call[p].doc)
      BY <2>2 DEF CallsInv, CallNamed
    <3>2. n \notin NewParts
      <4> SUFFICES ASSUME n \in NewParts PROVE FALSE
        OBVIOUS
      <4>1. pc = "parsed" /\ n \in 1..top
        BY <1>3 DEF AddToTmpList, NewParts, TypeOK
      <4>2. n < n
        BY <4>1 DEF ListInv, Ahead
      <4> QED BY <4>1, <4>2
    <3> HIDE DEF n
    <3>3. n \in DOMAIN Remaining /\ Rewrites(Refreshed, tmp) /\ tmp'[n] = Refreshed[n] /\ n \in DOMAIN tmp
      BY <1>3, <2>2, <3>1, <3>2, AddToTmpListLists DEF n
    <3> QED BY <3>1, <3>3 DEF Rewrites, n
  <2>3. RootClean(tmp')
    BY <1>3, AddToTmpListClean
  <2> QED BY <2>1, <2>2, <2>3 DEF CallsInv, CallNamed, CallState, BlobEvents
<1>4. CASE ReleaseSuccessDocs
  <2>1. UNCHANGED <<call, events, requests, timer, expiring>>
        /\ \A a \in DOMAIN tmp' : a \in DOMAIN tmp /\ tmp'[a] = tmp[a]
    BY <1>4, DeleteEachType, TypeList DEF ReleaseSuccessDocs
  <2> QED BY <2>1 DEF CallsInv, CallNamed, CallState, BlobEvents, RootClean
<1>5. CASE Writing
  BY <1>5, WritingCallNamed, WritingBlobs, WritingClean DEF CallsInv
<1> QED BY <1>1, <1>2, <1>3, <1>4, <1>5, NextSplit

LEMMA InitCalls == Init => CallsInv
<1> SUFFICES ASSUME Init PROVE CallsInv
  OBVIOUS
<1>1. /\ tmp = Empty /\ events = <<>> /\ expiring = Root /\ \A p \in Threads : call[p] = NoCall
      /\ \A d \in Docs : requests[d] = <<>> /\ timer[d] = NoTrans
  BY DEF Init
<1> QED BY <1>1, DocsAssumption, ShapeEmpty DEF CallsInv, BlobEvents, CallNamed, CallState, NoCall, Working, RootClean

\* Each thread works on a node of its own document.
THEOREM CallsInvariant == Spec => []CallsInv
<1>1. Init => CallsInv
  BY InitCalls
<1>2. TypeOK /\ ListInv /\ CallsInv /\ [Next]_vars => CallsInv'
  BY NextCalls
<1> QED BY <1>1, <1>2, TypeCorrect, ListInvariant, PTL DEF Spec

-----------------------------------------------------------------------------
(* What the list shows as applied is in the database. The node a thread       *)
(* works on is the one that its document has applied, if any.                *)

Owned(p) ==
  LET c == call[p] IN
  c.state \in Working /\ (p = "event" \/ c.doc \in ScalarDocs) =>
    \A a \in Named(tmp, c.doc) : tmp[a].status = "success" =>
      /\ a = c.node
      /\ c.state = "marked" => tmp[a].version = c.version
RecordInv == SuccessRecorded /\ \A p \in Threads : Owned(p)

\* u marks no document as applied that t does not.
UnmarkedAt(u, t, a) ==
  u[a].name # Root /\ u[a].status = "success" =>
    /\ a \in DOMAIN t /\ t[a].name = u[a].name
    /\ t[a].status = "success" /\ t[a].version = u[a].version
Unmarked(u, t) == \A a \in DOMAIN u : UnmarkedAt(u, t, a)

LEMMA WrittenUnmarked ==
  ASSUME NEW d \in Docs, NEW v, Written(d, v) PROVE Unmarked(tmp', tmp)
<1> SUFFICES ASSUME NEW a \in DOMAIN tmp' PROVE UnmarkedAt(tmp', tmp, a)
  BY DEF Unmarked
<1>1. ASSUME NEW n, NEW V, Edits(tmp', tmp, n, d, V) PROVE UnmarkedAt(tmp', tmp, a)
  <2>1. a \in DOMAIN tmp
    BY <1>1 DEF Edits
  <2>2. CASE tmp'[a] = tmp[a]
    BY <2>1, <2>2 DEF UnmarkedAt
  <2>3. CASE tmp'[a] # tmp[a]
    BY <1>1, <2>1, <2>3 DEF Edits, Alike, Open, UnmarkedAt
  <2> QED BY <2>2, <2>3
<1>2. ASSUME NEW n, Gives(tmp', tmp, n, d, v, "failed") PROVE UnmarkedAt(tmp', tmp, a)
  <2>1. a \in DOMAIN tmp
    BY <1>2 DEF Gives
  <2>2. CASE a = n /\ tmp[a].name = d
    BY <1>2, <2>1, <2>2 DEF Gives, UnmarkedAt
  <2>3. CASE ~(a = n /\ tmp[a].name = d)
    BY <1>2, <2>1, <2>3 DEF Gives, UnmarkedAt
  <2> QED BY <2>2, <2>3
<1> QED BY <1>1, <1>2 DEF Written

\* Thread p records the document it has marked, or nobody does.
Recorded(p) ==
  /\ call[p].state = "marked" /\ UNCHANGED tmp
  /\ \E s : s \notin Working /\ Goes(p, s)
  /\ \A d \in Docs :
       db'[d] = IF d = call[p].doc /\ IsPrimary(d) THEN call[p].version ELSE db[d]
Unrecorded ==
  /\ \A d \in Docs : db'[d] = db[d]
  /\ \A q \in Threads : \/ call'[q] = call[q]
                        \/ call[q].state # "marked" /\ call'[q].state # "marked"

LEMMA CallUnrecorded ==
  ASSUME TypeOK, NEW p \in Threads, NEW r, call' = [call EXCEPT ![p] = r],
         call[p].state # "marked", r.state # "marked", \A d \in Docs : db'[d] = db[d]
  PROVE  Unrecorded
<1>1. call'[p] = r /\ \A q \in Threads : q # p => call'[q] = call[q]
  BY DEF TypeOK
<1> QED BY <1>1 DEF Unrecorded

LEMMA GoesUnrecorded ==
  ASSUME TypeOK, NEW p \in Threads, NEW s, Goes(p, s), s # "marked",
         call[p].state # "marked", \A d \in Docs : db'[d] = db[d]
  PROVE  Unrecorded
<1>1. call'[p].state = s /\ \A q \in Threads : q # p => call'[q] = call[q]
  BY GoesNode, GoesTo
<1> QED BY <1>1 DEF Unrecorded

\* Recording root concerns no document.
LEMMA RootRecords ==
  ASSUME NEW b, b \in [Docs \cup {Root} -> Nat \cup {Absent}], NEW v
  PROVE  \A d \in Docs : RootToDB(b)[d] = b[d] /\ CheckDBList(b, Root, v)[d] = b[d]
BY DocsAssumption DEF RootToDB, CheckDBList

LEMMA PassedRecords ==
  ASSUME NEW b, b \in [Docs \cup {Root} -> Nat \cup {Absent}], NEW n, Passed(b, n)
  PROVE  /\ \A d \in Docs : db'[d] = b[d]
         /\ \E s : s \in {"drop", "none"} /\ Goes("sync", s)
<1>1. db' = b \/ db' = RootToDB(b)
  BY DEF Passed
<1>2. \E s : s \in {"drop", "none"} /\ Goes("sync", s)
  BY DEF Passed
<1> QED BY <1>1, <1>2, RootRecords

LEMMA RecordedEntry ==
  ASSUME TypeOK, NEW d \in Docs, NEW v \in Nat
  PROVE  /\ CheckDBList(db, d, v) \in [Docs \cup {Root} -> Nat \cup {Absent}]
         /\ \A x \in Docs : CheckDBList(db, d, v)[x] = IF x = d THEN v ELSE db[x]
BY DEF CheckDBList, TypeOK

LEMMA WritingRecords ==
  ASSUME TypeOK, ListInv, CallsInv, Writing
  PROVE  \/ \E p \in Threads : Marks(p) /\ UNCHANGED db
         \/ \E p \in Threads : Recorded(p)
         \/ Unrecorded
<1>1. \A p \in Threads : call[p].state \in Working => call[p].doc \in Docs
  BY DEF CallsInv, CallState, CallNamed
<1>2. UNCHANGED db => \A d \in Docs : db'[d] = db[d]
  OBVIOUS
<1>3. "sync" \in Threads /\ "event" \in Threads
  BY DEF Threads
<1>4. NoCall.state = "none"
  BY DEF NoCall
<1>5. CASE SendDoc
  <2>1. PICK a \in Applicable, n \in DOMAIN tmp, s \in {"sent", "unsent"} :
             call' = [call EXCEPT !["sync"] = [doc |-> mp[a].name, node |-> n,
                         version |-> mp[a].version, known |-> 0, trans |-> NoTrans, state |-> s]]
    BY <1>5, SendDocEdits
  <2> DEFINE r == [doc |-> mp[a].name, node |-> n, version |-> mp[a].version, known |-> 0,
                   trans |-> NoTrans, state |-> s]
  <2>2. r.state # "marked" /\ call' = [call EXCEPT !["sync"] = r]
    BY <2>1
  <2> HIDE DEF r
  <2>3. call["sync"].state # "marked" /\ UNCHANGED db
    BY <1>4, <1>5 DEF SendDoc
  <2> QED BY <1>2, <1>3, <2>2, <2>3, CallUnrecorded
<1>6. CASE DecodeFails
  BY <1>6 DEF DecodeFails, Unrecorded
<1>7. ASSUME NEW p \in Threads, call[p].state = "sent", Applied(p), call[p].doc \in ScalarDocs
      PROVE  Marks(p)
  BY <1>7, AppliedGives DEF Marks, Applied
<1>8. CASE SetSucceeds
  <2>1. call["sync"].state = "sent"
    BY <1>8 DEF SetSucceeds
  <2>2. CASE call["sync"].doc \in ScalarDocs
    <3>1. Applied("sync") /\ UNCHANGED db
      BY <1>8, <2>2 DEF SetSucceeds
    <3> QED BY <1>3, <1>7, <2>1, <2>2, <3>1
  <2>3. CASE call["sync"].doc \notin ScalarDocs
    <3>1. Passed(db, success)
      BY <1>8, <2>3 DEF SetSucceeds
    <3>2. db \in [Docs \cup {Root} -> Nat \cup {Absent}]
      BY DEF TypeOK
    <3> QED BY <1>3, <2>1, <3>1, <3>2, PassedRecords, GoesUnrecorded
  <2> QED BY <2>2, <2>3
<1>9. ASSUME NEW code \in FailCodes, SetFails(code) PROVE Unrecorded
  <2>1. call["sync"].state \in {"sent", "unsent"} /\ UNCHANGED db
    BY <1>9 DEF SetFails, MayFail
  <2>2. \E s : s \in {"rooted", "none"} /\ Goes("sync", s)
    BY <1>9 DEF SetFails
  <2> QED BY <1>2, <1>3, <2>1, <2>2, GoesUnrecorded
<1>10. CASE RetryNext
  <2>1. PICK a \in Retryable : Retry("sync", a, tmp[a].name, 0)
    BY <1>10 DEF RetryNext
  <2>2. call["sync"].state # "marked" /\ UNCHANGED db
    BY <1>4, <1>10 DEF RetryNext
  <2>3. UNCHANGED call \/ call' = [call EXCEPT !["sync"] = Begun(a, tmp[a].name, 0)]
    BY <2>1, RetryEdits
  <2>4. Begun(a, tmp[a].name, 0).state # "marked"
    BY DEF Begun, NoCall
  <2>5. CASE UNCHANGED call
    BY <1>2, <2>2, <2>5 DEF Unrecorded
  <2> QED BY <1>2, <1>3, <2>2, <2>3, <2>4, <2>5, CallUnrecorded
<1>11. CASE Storing
  <2>1. CASE Refresh
    <3>1. PICK v : call' = [call EXCEPT !["sync"] =
                              [NoCall EXCEPT !.version = v, !.state = "derived"]]
      BY <2>1 DEF Refresh
    <3> DEFINE r == [NoCall EXCEPT !.version = v, !.state = "derived"]
    <3>2. r.state # "marked" /\ call' = [call EXCEPT !["sync"] = r]
      BY <3>1 DEF NoCall
    <3> HIDE DEF r
    <3>3. call["sync"].state # "marked" /\ UNCHANGED db
      BY <1>4, <2>1 DEF Refresh
    <3> QED BY <1>2, <1>3, <3>2, <3>3, CallUnrecorded
  <2>2. CASE StoreRoot
    <3>1. call["sync"].state = "derived" /\ \E s : s \in {"save", "none"} /\ Goes("sync", s)
      BY <2>2 DEF StoreRoot
    <3>2. \A d \in Docs : db'[d] = db[d]
      BY <2>2, RootRecords DEF StoreRoot, TypeOK
    <3> QED BY <1>3, <3>1, <3>2, GoesUnrecorded
  <2>3. CASE LoopRecords
    <3> DEFINE c == call["sync"]
    <3>1. c.state = "marked" /\ UNCHANGED tmp /\ c.doc \in Docs /\ c.version \in Nat
      <4>1. c \in CallType
        BY <1>3 DEF TypeOK
      <4> QED BY <1>1, <1>3, <2>3, <4>1 DEF LoopRecords, Working, CallType
    <3>2. PICK b, n : /\ Passed(b, n)
                      /\ b = IF IsPrimary(c.doc) THEN CheckDBList(db, c.doc, c.version) ELSE db
      BY <2>3 DEF LoopRecords
    <3>3. /\ b \in [Docs \cup {Root} -> Nat \cup {Absent}]
          /\ \A d \in Docs : b[d] = IF d = c.doc /\ IsPrimary(d) THEN c.version ELSE db[d]
      <4>1. db \in [Docs \cup {Root} -> Nat \cup {Absent}]
        BY DEF TypeOK
      <4> QED BY <3>1, <3>2, <4>1, RecordedEntry
    <3>4. /\ \A d \in Docs : db'[d] = b[d]
          /\ \E s : s \in {"drop", "none"} /\ Goes("sync", s)
      BY <3>2, <3>3, PassedRecords
    <3>5. \A s : s \in {"drop", "none"} => s \notin Working
      BY DEF Working
    <3> QED BY <1>3, <3>1, <3>3, <3>4, <3>5 DEF Recorded
  <2> QED BY <1>11, <2>1, <2>2, <2>3 DEF Storing
<1>12. ASSUME NEW p \in Threads, Resends(p)
       PROVE  (Marks(p) /\ UNCHANGED db) \/ Unrecorded
  <2>1. UNCHANGED db
    BY <1>12 DEF Resends, RetrySend, RetrySucceeds, RetryFails
  <2>2. CASE RetrySend(p)
    <3> DEFINE V == {call[p].known} \cup {mp[a].version : a \in Named(mp, call[p].doc)}
               r(a, s) == [doc |-> call[p].doc, node |-> call[p].node, version |-> mp[a].version,
                           known |-> call[p].known, trans |-> NoTrans, state |-> s]
    <3>1. /\ p = "event" => call[p].known \in V
          /\ \A a \in Named(mp, call[p].doc) : mp[a].version \in V
      OBVIOUS
    <3> HIDE DEF V
    <3>2. \/ call' = [call EXCEPT ![p] = NoCall]
          \/ \E a, s : s \in {"sent", "unsent"} /\ call' = [call EXCEPT ![p] = r(a, s)]
      BY <2>2, <3>1, RetrySendEdits
    <3>3. \A a, s : r(a, s).state = s
      OBVIOUS
    <3> HIDE DEF r
    <3>4. call[p].state # "marked"
      BY <2>2 DEF RetrySend
    <3>5. ASSUME NEW a, NEW s \in {"sent", "unsent"}, call' = [call EXCEPT ![p] = r(a, s)]
          PROVE  Unrecorded
      <4>1. r(a, s).state # "marked"
        BY <3>3, <3>5
      <4> QED BY <1>2, <2>1, <3>4, <3>5, <4>1, CallUnrecorded
    <3>6. CASE call' = [call EXCEPT ![p] = NoCall]
      BY <1>2, <1>4, <2>1, <3>4, <3>6, CallUnrecorded
    <3> QED BY <3>2, <3>5, <3>6
  <2>3. CASE RetrySucceeds(p)
    <3>1. call[p].state = "sent"
      BY <2>3 DEF RetrySucceeds
    <3>2. CASE call[p].doc \in ScalarDocs
      BY <1>7, <2>1, <2>3, <3>1, <3>2 DEF RetrySucceeds
    <3>3. CASE call[p].doc \notin ScalarDocs
      <4>1. Goes(p, "none")
        BY <2>3, <3>3 DEF RetrySucceeds
      <4> QED BY <1>2, <2>1, <3>1, <4>1, GoesUnrecorded
    <3> QED BY <3>2, <3>3
  <2>4. CASE \E code \in FailCodes : RetryFails(p, code)
    <3>1. call[p].state # "marked" /\ call' = [call EXCEPT ![p] = NoCall]
      BY <2>4 DEF RetryFails, MayFail
    <3> QED BY <1>2, <1>4, <2>1, <3>1, CallUnrecorded
  <2> QED BY <1>12, <2>2, <2>3, <2>4 DEF Resends
<1>13. ASSUME NEW p \in Threads, RecordStep(p)
       PROVE  (Marks(p) /\ UNCHANGED db) \/ Recorded(p) \/ Unrecorded
  <2>1. CASE Mark(p)
    <3>1. UNCHANGED db /\ call[p].state # "marked"
      BY <2>1 DEF Mark
    <3>2. p # "sync"
      BY <2>1 DEF Mark, Working, CallsInv, CallState
    <3>3. CASE /\ Gives(tmp', tmp, call[p].node, call[p].doc, call[p].version, "success")
               /\ call[p].state = "valid" /\ Goes(p, "marked")
      BY <3>1, <3>2, <3>3 DEF Marks
    <3>4. CASE Goes(p, "none")
      BY <1>2, <3>1, <3>4, GoesUnrecorded
    <3> QED BY <2>1, <3>3, <3>4, MarkGives
  <2>2. CASE Record(p)
    <3> DEFINE c == call[p]
    <3>1. c.state = "marked" /\ UNCHANGED tmp /\ c.doc \in Docs /\ c.version \in Nat
      <4>1. c \in CallType
        BY DEF TypeOK
      <4> QED BY <1>1, <2>2, <4>1 DEF Record, Working, CallType
    <3>2. \E s : s \in {"rooted", "save", "saved"} /\ Goes(p, s)
      BY <2>2 DEF Record
    <3>3. \A s : s \in {"rooted", "save", "saved"} => s \notin Working
      BY DEF Working
    <3>4. db' = IF IsPrimary(c.doc) THEN CheckDBList(db, c.doc, c.version) ELSE db
      BY <2>2 DEF Record
    <3>5. \A d \in Docs : db'[d] = IF d = c.doc /\ IsPrimary(d) THEN c.version ELSE db[d]
      BY <3>1, <3>4, RecordedEntry
    <3> QED BY <3>1, <3>2, <3>3, <3>5 DEF Recorded
  <2>3. CASE RecordRoot(p)
    <3> DEFINE r == [call[p] EXCEPT !.version = etag, !.state = "rootdb"]
    <3>1. call' = [call EXCEPT ![p] = r] /\ call[p].state # "marked"
      BY <2>3 DEF RecordRoot
    <3>2. r.state # "marked"
      BY DEF TypeOK, CallType
    <3> HIDE DEF r
    <3>3. \A d \in Docs : db'[d] = db[d]
      BY <2>3, RootRecords DEF RecordRoot, TypeOK
    <3> QED BY <3>1, <3>2, <3>3, CallUnrecorded
  <2>4. CASE MarkRoot(p) \/ Save(p) \/ CheckDelete(p) \/ DeleteTmpList(p) \/ DeleteMultipart(p)
    <3>1. UNCHANGED db /\ call[p].state # "marked"
      BY <2>4 DEF MarkRoot, Save, CheckDelete, DeleteTmpList, DeleteMultipart
    <3>2. \E s : s \in {"none", "save", "saved", "drop", "free"} /\ Goes(p, s)
      BY <2>4 DEF MarkRoot, Save, CheckDelete, DeleteTmpList, DeleteMultipart, AfterDelete
    <3> QED BY <1>2, <3>1, <3>2, GoesUnrecorded
  <2> QED BY <1>13, <2>1, <2>2, <2>3, <2>4 DEF RecordStep
<1>14. CASE HandleEvent
  <2> DEFINE e == Head(events)
  <2>1. /\ call["event"].state # "marked"
        /\ \E n : /\ UNCHANGED stored
                  /\ \/ UNCHANGED call
                     \/ call' = [call EXCEPT !["event"] = Begun(n, e.doc, TmpVersion(n))]
                     \/ \E s \in {"valid", "refused"} :
                          call' = [call EXCEPT !["event"] = Settling(e, n, s)]
    BY <1>4, <1>14, HandleEventKeeps
  <2> HIDE DEF e
  <2>2. PICK n : /\ UNCHANGED db
                 /\ \/ UNCHANGED call
                    \/ call' = [call EXCEPT !["event"] = Begun(n, e.doc, TmpVersion(n))]
                    \/ \E s \in {"valid", "refused"} :
                         call' = [call EXCEPT !["event"] = Settling(e, n, s)]
    BY <2>1
  <2>3. /\ Begun(n, e.doc, TmpVersion(n)).state # "marked"
        /\ \A s \in {"valid", "refused"} : Settling(e, n, s).state # "marked"
    BY DEF Begun, NoCall, Settling
  <2>4. CASE UNCHANGED call
    BY <1>2, <2>2, <2>4 DEF Unrecorded
  <2>5. CASE call' = [call EXCEPT !["event"] = Begun(n, e.doc, TmpVersion(n))]
    BY <1>2, <1>3, <2>1, <2>2, <2>3, <2>5, CallUnrecorded
  <2>6. ASSUME NEW s \in {"valid", "refused"},
               call' = [call EXCEPT !["event"] = Settling(e, n, s)]
        PROVE  Unrecorded
    BY <1>2, <1>3, <2>1, <2>2, <2>3, <2>6, CallUnrecorded
  <2> QED BY <2>2, <2>4, <2>5, <2>6
<1> QED BY <1>5, <1>6, <1>8, <1>9, <1>10, <1>11, <1>12, <1>13, <1>14 DEF Writing

\* A thread works on the first node of its name: of two that are not hidden one
\* would hide the other.
LEMMA FrontApplied ==
  ASSUME TypeOK, ListInv, NEW n \in Front(tmp), NEW a \in Named(tmp, tmp[n].name),
         tmp[a].status = "success"
  PROVE  a = n
<1>1. a \in Front(tmp) /\ a \in DOMAIN tmp /\ n \in DOMAIN tmp /\ tmp[a].name = tmp[n].name
  BY DEF ListInv, Shape, Named, Front
<1> QED BY <1>1, TypeList DEF Front, Behind

LEMMA NothingMarked ==
  ASSUME TypeOK, ListInv, CallsInv, RecordInv, TypeOK', CallsInv', Unmarked(tmp', tmp),
         \A q \in Threads : Moves(q), Unrecorded
  PROVE  RecordInv'
<1>1. ASSUME NEW a \in DOMAIN tmp', tmp'[a].status = "success", tmp'[a].name # Root
      PROVE  /\ a \in DOMAIN tmp /\ tmp[a].name = tmp'[a].name
             /\ tmp[a].status = "success" /\ tmp[a].version = tmp'[a].version
  BY <1>1 DEF Unmarked, UnmarkedAt
<1>2. ASSUME NEW q \in Threads PROVE Owned(q)'
  <2> DEFINE c == call'[q]
  <2> SUFFICES ASSUME c.state \in Working, q = "event" \/ c.doc \in ScalarDocs,
                      NEW a \in DOMAIN tmp', tmp'[a].name = c.doc, tmp'[a].status = "success"
               PROVE  a = c.node /\ (c.state = "marked" => tmp'[a].version = c.version)
    BY DEF Owned, Named
  <2>1. tmp'[a].name # Root /\ c.node # Null
    BY DocsAssumption DEF CallsInv, CallNamed, CallState
  <2>2. /\ a \in Named(tmp, c.doc) /\ tmp[a].status = "success"
        /\ tmp[a].version = tmp'[a].version
    BY <1>1, <2>1 DEF Named
  <2>3. CASE call'[q] = call[q]
    BY <2>2, <2>3 DEF RecordInv, Owned
  <2>4. CASE call'[q] # call[q]
    <3>1. c.state # "marked"
      BY <2>4 DEF Unrecorded
    <3>2. CASE GoesOnAt(q)
      <4>1. Owned(q)
        BY DEF RecordInv
      <4>2. a = call[q].node
        BY <2>2, <3>2, <4>1 DEF Owned, GoesOnAt
      <4> QED BY <3>1, <3>2, <4>2 DEF GoesOnAt
    <3>3. CASE BeginsAt(q)
      <4>1. a = c.node
        BY <2>2, <3>3, FrontApplied DEF BeginsAt
      <4> QED BY <3>1, <4>1
    <3> QED BY <2>1, <3>2, <3>3 DEF Moves
  <2> QED BY <2>3, <2>4
<1>3. SuccessRecorded'
  <2> SUFFICES ASSUME NEW a \in DOMAIN tmp', tmp'[a].status = "success", tmp'[a].name # Root,
                      IsPrimary(tmp'[a].name),
                      ~\E p \in Threads : call'[p].state = "marked" /\ call'[p].node = a
               PROVE  db'[tmp'[a].name] = tmp'[a].version
    BY DEF SuccessRecorded
  <2>1. ~\E p \in Threads : call[p].state = "marked" /\ call[p].node = a
    BY DEF Unrecorded
  <2>2. db[tmp[a].name] = tmp[a].version
    BY <1>1, <2>1 DEF RecordInv, SuccessRecorded
  <2>3. tmp'[a].name \in Docs
    BY DEF TypeOK, NodeType
  <2> QED BY <1>1, <2>2, <2>3 DEF Unrecorded
<1> QED BY <1>2, <1>3 DEF RecordInv

\* Thread p marks its document as applied.
LEMMA NewlyMarked ==
  ASSUME TypeOK, ListInv, CallsInv, RecordInv, NEW p \in Threads, Marks(p), UNCHANGED db
  PROVE  RecordInv'
<1> DEFINE c == call[p]
<1>1. \A q \in Threads : q # p => call'[q] = call[q]
  BY GoesNode DEF Marks
<1>2. /\ call'[p].doc = c.doc /\ call'[p].node = c.node /\ call'[p].version = c.version
      /\ call'[p].state = "marked"
  <2>1. c \in CallType /\ call'[p] = [c EXCEPT !.state = "marked"]
    BY GoesNode DEF TypeOK, Marks
  <2> QED BY <2>1 DEF CallType
<1>3. c.doc \in Docs /\ c.state \in Working /\ Owned(p) /\ (p = "event" => c.doc \notin ScalarDocs)
      /\ (p = "event" \/ c.doc \in ScalarDocs)
  BY DEF RecordInv, CallsInv, CallNamed, CallState, Marks, Working, Threads
<1>4. /\ DOMAIN tmp' = DOMAIN tmp
      /\ \A a \in DOMAIN tmp : tmp'[a].name = tmp[a].name
      /\ \A a \in DOMAIN tmp : IF a = c.node /\ tmp[a].name = c.doc
                                 THEN tmp'[a].version = c.version ELSE tmp'[a] = tmp[a]
  BY DEF Gives, Marks
<1>5. ASSUME NEW q \in Threads PROVE Owned(q)'
  <2>1. CASE q = p
    <3>1. ASSUME NEW a \in Named(tmp', c.doc), tmp'[a].status = "success"
          PROVE  a = c.node /\ tmp'[a].version = c.version
      <4>1. a \in Named(tmp, c.doc)
        BY <1>4, <3>1 DEF Named
      <4>2. CASE a = c.node
        BY <1>4, <4>1, <4>2 DEF Named
      <4>3. CASE a # c.node
        BY <1>3, <1>4, <3>1, <4>1, <4>3 DEF Owned, Named
      <4> QED BY <4>2, <4>3
    <3> QED BY <1>2, <2>1, <3>1 DEF Owned
  <2>2. CASE q # p
    <3>1. Owned(q) /\ CallNamed(q) /\ CallState(q)
      BY DEF RecordInv, CallsInv
    <3>2. CASE call[q].state \in Working /\ (q = "event" \/ call[q].doc \in ScalarDocs)
      <4>1. call[q].doc # c.doc
        BY <1>3, <2>2, <3>1, <3>2 DEF CallNamed, CallState, Threads
      <4>2. \A a \in Named(tmp', call[q].doc) : a \in Named(tmp, call[q].doc) /\ tmp'[a] = tmp[a]
        BY <1>4, <4>1 DEF Named
      <4> QED BY <1>1, <2>2, <3>1, <4>2 DEF Owned
    <3>3. CASE ~(call[q].state \in Working /\ (q = "event" \/ call[q].doc \in ScalarDocs))
      BY <1>1, <2>2, <3>3 DEF Owned
    <3> QED BY <3>2, <3>3
  <2> QED BY <2>1, <2>2
<1>6. SuccessRecorded'
  <2> SUFFICES ASSUME NEW a \in DOMAIN tmp', tmp'[a].status = "success", tmp'[a].name # Root,
                      IsPrimary(tmp'[a].name),
                      ~\E q \in Threads : call'[q].state = "marked" /\ call'[q].node = a
               PROVE  db'[tmp'[a].name] = tmp'[a].version
    BY DEF SuccessRecorded
  <2>1. a # c.node
    BY <1>2
  <2>2. ~\E q \in Threads : call[q].state = "marked" /\ call[q].node = a
    BY <1>1 DEF Marks
  <2> QED BY <1>4, <2>1, <2>2 DEF RecordInv, SuccessRecorded
<1> QED BY <1>5, <1>6 DEF RecordInv

\* Thread p records the document it has marked.
LEMMA MarkedRecorded ==
  ASSUME TypeOK, ListInv, CallsInv, RecordInv, NEW p \in Threads, Recorded(p)
  PROVE  RecordInv'
<1> DEFINE c == call[p]
<1>1. call'[p].state \notin Working /\ \A q \in Threads : q # p => call'[q] = call[q]
  <2>1. PICK s : s \notin Working /\ Goes(p, s)
    BY DEF Recorded
  <2> QED BY <2>1, GoesNode, GoesTo
<1>2. /\ c.doc \in Docs /\ Owned(p) /\ c.state \in Working /\ c.state = "marked"
      /\ (p = "event" \/ c.doc \in ScalarDocs)
      /\ c.node \in DOMAIN tmp => tmp[c.node].name = c.doc
  BY DEF RecordInv, CallsInv, CallNamed, CallState, Recorded, Working, Threads
<1>3. ASSUME NEW q \in Threads PROVE Owned(q)'
  BY <1>1 DEF Owned, RecordInv, Recorded, Named
<1>4. SuccessRecorded'
  <2> SUFFICES ASSUME NEW a \in DOMAIN tmp, tmp[a].status = "success", tmp[a].name # Root,
                      IsPrimary(tmp[a].name),
                      ~\E q \in Threads : call'[q].state = "marked" /\ call'[q].node = a
               PROVE  db'[tmp[a].name] = tmp[a].version
    BY DEF SuccessRecorded, Recorded
  <2>1. tmp[a].name \in Docs
    BY DEF TypeOK, NodeType
  <2>2. CASE tmp[a].name = c.doc
    <3>1. tmp[a].version = c.version
      BY <1>2, <2>2 DEF Owned, Named
    <3> QED BY <2>1, <2>2, <3>1 DEF Recorded
  <2>3. CASE tmp[a].name # c.doc
    <3>1. ~\E q \in Threads : call[q].state = "marked" /\ call[q].node = a
      BY <1>1, <1>2, <2>3
    <3> QED BY <2>1, <2>3, <3>1 DEF RecordInv, SuccessRecorded, Recorded
  <2> QED BY <2>2, <2>3
<1> QED BY <1>3, <1>4 DEF RecordInv

LEMMA WritingRecorded ==
  ASSUME TypeOK, ListInv, CallsInv, RecordInv, TypeOK', CallsInv', Writing PROVE RecordInv'
<1>1. ASSUME Unrecorded PROVE Unmarked(tmp', tmp)
  <2>1. ASSUME NEW d \in Docs, NEW v, Written(d, v) PROVE Unmarked(tmp', tmp)
    BY <2>1, WrittenUnmarked
  <2>2. ASSUME NEW p \in Threads, Marks(p) PROVE FALSE
    <3>1. call'[p].state = "marked" /\ call[p].state # "marked"
      BY <2>2, GoesTo DEF Marks
    <3> QED BY <1>1, <3>1 DEF Unrecorded
  <2>3. ASSUME NEW v \in Nat, tmp' = SetRoot(tmp, v, "success") PROVE Unmarked(tmp', tmp)
    <3>1. /\ DOMAIN tmp' = DOMAIN tmp /\ \A a \in DOMAIN tmp : tmp'[a].name = tmp[a].name
          /\ \A a \in DOMAIN tmp : tmp[a].name # Root => tmp'[a] = tmp[a]
      BY <2>3, TypeList, SetRootRewrites DEF Rewrites
    <3> QED BY <3>1 DEF Unmarked, UnmarkedAt
  <2>4. CASE tmp' = Empty
    BY <2>4, ShapeEmpty DEF Unmarked
  <2>5. CASE UNCHANGED tmp
    BY <2>5 DEF Unmarked, UnmarkedAt
  <2> QED BY <2>1, <2>2, <2>3, <2>4, <2>5, WritingTmp
<1>2. CASE Unrecorded
  BY <1>1, <1>2, WritingMoves, NothingMarked
<1> QED BY <1>2, WritingRecords, NewlyMarked, MarkedRecorded

\* The steps that leave the lists and the calls alone record nothing.
LEMMA QuietStored == ASSUME Quiet PROVE UNCHANGED <<tmp, call, db>>
BY DEF Quiet, Fetch, NoBundle, ParseFails, EndLoop, StartFailedDocsRetry, NotYetDue,
   EndFailedDocsRetry, TimerStep, TimerExpires, TimerCheck, ComponentStep, ComponentAccepts,
   ComponentRefuses, ComponentNeedsTime, ComponentRestarts, vars

LEMMA NextRecorded ==
  ASSUME TypeOK, ListInv, CallsInv, RecordInv, TypeOK', CallsInv', [Next]_vars PROVE RecordInv'
<1>1. ASSUME UNCHANGED <<call, db>>, Unmarked(tmp', tmp) PROVE RecordInv'
  <2>1. Unrecorded /\ \A q \in Threads : Moves(q)
    BY <1>1, MovesSelf DEF Unrecorded
  <2> QED BY <1>1, <2>1, NothingMarked
<1>2. CASE Quiet \/ Parse
  <2>1. UNCHANGED <<tmp, call, db>>
    BY <1>2, QuietStored DEF Parse
  <2> QED BY <1>1, <2>1 DEF Unmarked, UnmarkedAt
<1>3. CASE AddToTmpList
  <2>1. /\ \A a \in DOMAIN Remaining : a \in DOMAIN tmp /\ tmp'[a] = Refreshed[a]
        /\ DOMAIN tmp' = DOMAIN Remaining \cup NewParts
                           \cup (IF Remaining = Empty /\ mp # Empty THEN {0} ELSE {})
        /\ Remaining = Empty /\ mp # Empty => tmp'[0] = Node(Root, RootVersion, "pending")
        /\ \A b \in NewParts : b \notin DOMAIN Remaining =>
              tmp'[b] = Node(mp[b].name, mp[b].version, "pending_apply")
    BY <1>3, AddToTmpListLists
  <2>2. \A x, v, s : Node(x, v, s).status = s
    BY DEF Node
  <2>3. \A a \in DOMAIN tmp : /\ Refreshed[a].name = tmp[a].name
                              /\ tmp[a].name # Root => Refreshed[a] = tmp[a]
    <3>1. CASE supp
      BY <3>1 DEF Refreshed
    <3>2. CASE ~supp
      <4>1. Refreshed = SetRoot(tmp, RootVersion, "pending") /\ RootVersion \in Nat
        BY <3>2 DEF Refreshed, RootVersion, TypeOK
      <4> QED BY <4>1, TypeList, SetRootRewrites DEF Rewrites
    <3> QED BY <3>1, <3>2
  <2> HIDE DEF Remaining, Refreshed, NewParts
  <2>4. Unmarked(tmp', tmp)
    <3> SUFFICES ASSUME NEW a \in DOMAIN tmp', tmp'[a].name # Root, tmp'[a].status = "success"
                 PROVE  /\ a \in DOMAIN tmp /\ tmp[a].name = tmp'[a].name
                        /\ tmp[a].status = "success" /\ tmp[a].version = tmp'[a].version
      BY DEF Unmarked, UnmarkedAt
    <3>1. a \in DOMAIN Remaining
      BY <2>1, <2>2
    <3> QED BY <2>1, <2>3, <3>1
  <2> QED BY <1>1, <1>3, <2>4 DEF AddToTmpList
<1>4. CASE ReleaseSuccessDocs
  <2>1. UNCHANGED <<call, db>> /\ \A a \in DOMAIN tmp' : a \in DOMAIN tmp /\ tmp'[a] = tmp[a]
    BY <1>4, DeleteEachType, TypeList DEF ReleaseSuccessDocs
  <2> QED BY <1>1, <2>1 DEF Unmarked, UnmarkedAt
<1>5. CASE Writing
  BY <1>5, WritingRecorded
<1> QED BY <1>2, <1>3, <1>4, <1>5, NextSplit

LEMMA InitRecorded == Init => RecordInv
<1> SUFFICES ASSUME Init PROVE RecordInv
  OBVIOUS
<1>1. tmp = Empty /\ \A p \in Threads : call[p] = NoCall
  BY DEF Init
<1>2. \A p \in Threads : call[p].state = "none"
  BY <1>1 DEF NoCall
<1> QED BY <1>1, <1>2, ShapeEmpty DEF RecordInv, SuccessRecorded, Owned, Working

\* What the tmp list shows as applied is recorded, once the thread that marked
\* it has come to checkDBList.
THEOREM SuccessRecordedCorrect == Spec => []SuccessRecorded
<1>1. Init => RecordInv
  BY InitRecorded
<1>2. /\ TypeOK /\ ListInv /\ CallsInv /\ RecordInv /\ TypeOK' /\ CallsInv' /\ [Next]_vars
      => RecordInv'
  BY NextRecorded
<1>3. RecordInv => SuccessRecorded
  BY DEF RecordInv
<1> QED BY <1>1, <1>2, <1>3, TypeCorrect, ListInvariant, CallsInvariant, PTL DEF Spec

-----------------------------------------------------------------------------
(* No new document is skipped: in a list that root heads, where each         *)
(* document has one node, the loop's position passes no node that is still   *)
(* a new document, unless its part has been taken away. The hypothesis is    *)
(* about the cloud: no bundle names a document twice.                        *)

DistinctNames == \A b \in Bundles : \A i, j \in 1..Len(b) : b[i].name = b[j].name => i = j
OneEach(t) == \A a, b \in DOMAIN t : t[a].name = t[b].name => a = b
Rooted(t) == Named(t, Root) # {}
InLoop(a) ==
  /\ pc = "apply" /\ a \in DOMAIN mp /\ mp[a].name = tmp[a].name
  /\ a >= cursor /\ OfThisSync(tmp[a].name)
NewInLoop ==
  Rooted(tmp) => \A a \in DOMAIN tmp : tmp[a].status = "pending_apply" =>
    \/ Named(mp, tmp[a].name) = {}
    \/ pc = "parsed" /\ OfThisSync(tmp[a].name)
    \/ InLoop(a)
LoopStart == pc \in {"idle", "request", "received", "parsed"} => cursor = 0
Received ==
  pc = "received" => LET b == cloud[Len(cloud)] IN \A i \in 1..Len(b) : OfThisSync(b[i].name)
Names == (Rooted(tmp) => OneEach(tmp)) /\ OneEach(mp) /\ Received
SentInv == Names /\ NewInLoop /\ LoopStart

LEMMA NamedEmpty == \A d : Named(Empty, d) = {}
BY ShapeEmpty DEF Named

LEMMA WritingNames == ASSUME TypeOK, ListInv, SentInv, Writing PROVE Names'
<1>1. Writes
  BY WritingWrites
<1>2. (Rooted(tmp) => OneEach(tmp))'
  <2>1. CASE tmp' = Empty
    BY <2>1, ShapeEmpty DEF OneEach
  <2>2. CASE Rewrites(tmp', tmp)
    <3>1. Named(tmp', Root) = Named(tmp, Root)
      BY <2>2, RewritesPlaces
    <3> QED BY <2>2, <3>1 DEF SentInv, Names, Rooted, OneEach, Rewrites
  <2> QED BY <1>1, <2>1, <2>2 DEF Writes
<1>3. OneEach(mp)'
  BY <1>1, ShapeEmpty DEF SentInv, Names, OneEach, Writes
<1>4. Received'
  <2>1. pc' = "received" => pc = "received"
    BY <1>1 DEF Writes
  <2> QED BY <1>1, <2>1 DEF SentInv, Names, Received, OfThisSync, Writes
<1> QED BY <1>2, <1>3, <1>4 DEF Names

\* A step that leaves the loop where it is, or is not one of it.
LEMMA WritingSent ==
  ASSUME TypeOK, ListInv, SentInv, Writing,
         \/ UNCHANGED <<pc, cursor>>
         \/ pc \notin {"apply", "parsed"} /\ LoopStart'
  PROVE  SentInv'
<1>1. Writes /\ Names'
  BY WritingWrites, WritingNames
<1>2. NewInLoop'
  <2>1. CASE tmp' = Empty
    BY <2>1, ShapeEmpty DEF NewInLoop
  <2>2. CASE mp' = Empty
    BY <2>2, NamedEmpty DEF NewInLoop
  <2>3. CASE Rewrites(tmp', tmp) /\ mp' = mp
    <3>1. Named(tmp', Root) = Named(tmp, Root) /\ UNCHANGED supp
      BY <1>1, <2>3, RewritesPlaces DEF Writes
    <3> SUFFICES ASSUME Rooted(tmp'), NEW a \in DOMAIN tmp', tmp'[a].status = "pending_apply",
                        Named(mp, tmp'[a].name) # {}
                 PROVE  (pc = "parsed" /\ OfThisSync(tmp[a].name))' \/ InLoop(a)'
      BY <2>3 DEF NewInLoop
    <3>2. /\ Rooted(tmp) /\ a \in DOMAIN tmp /\ tmp[a].status = "pending_apply"
          /\ tmp'[a].name = tmp[a].name
      BY <2>3, <3>1 DEF Rooted, Rewrites
    <3>3. (pc = "parsed" /\ OfThisSync(tmp[a].name)) \/ InLoop(a)
      BY <3>2 DEF SentInv, NewInLoop
    <3>4. UNCHANGED <<pc, cursor>>
      BY <3>3 DEF InLoop
    <3> QED BY <2>3, <3>1, <3>2, <3>3, <3>4 DEF InLoop, OfThisSync
  <2> QED BY <1>1, <2>1, <2>2, <2>3 DEF Writes
<1>3. LoopStart'
  BY DEF SentInv, LoopStart
<1> QED BY <1>1, <1>2, <1>3 DEF SentInv

\* The loop finds every new document that lies ahead of it.
LEMMA NewApplicable ==
  ASSUME TypeOK, SentInv, Rooted(tmp), NEW m \in DOMAIN tmp, tmp[m].status = "pending_apply",
         Named(mp, tmp[m].name) # {}, pc = "apply"
  PROVE  m \in Applicable /\ mp[m].name = tmp[m].name /\ m \in Pointer(tmp, tmp[m].name)
<1>1. m \in DOMAIN mp /\ mp[m].name = tmp[m].name /\ m >= cursor
  BY DEF SentInv, NewInLoop, InLoop
<1>2. Named(tmp, tmp[m].name) = {m} /\ m \in Nat
  BY TypeList DEF SentInv, Names, OneEach, Named
<1>3. m \in Pointer(tmp, tmp[m].name) /\ m # Null
  BY <1>2 DEF Pointer, IsLeast, Null
<1> QED BY <1>1, <1>3 DEF Applicable

\* The loop goes on to the next part.
LEMMA PassedSent ==
  ASSUME TypeOK, ListInv, SentInv, Writing, pc = "apply", UNCHANGED <<pc, mp>>,
         NEW a \in Applicable, IsLeast(a, Applicable), cursor' = a + 1,
         NEW n \in Pointer(tmp, mp[a].name), n \in DOMAIN tmp, NEW v,
         NEW s \in {"pending", "failed"}, Gives(tmp', tmp, n, mp[a].name, v, s)
  PROVE  SentInv'
<1>1. Writes /\ Names'
  BY WritingWrites, WritingNames
<1>2. LoopStart'
  BY DEF LoopStart
<1>3. NewInLoop'
  <2> SUFFICES ASSUME Rooted(tmp'), NEW m \in DOMAIN tmp', tmp'[m].status = "pending_apply",
                      Named(mp', tmp'[m].name) # {}
               PROVE  InLoop(m)'
    BY DEF NewInLoop
  <2>1. UNCHANGED supp
    BY <1>1 DEF Writes
  <2>2. /\ Rooted(tmp) /\ tmp[n].name = mp[a].name /\ DOMAIN tmp' = DOMAIN tmp
        /\ \A b \in DOMAIN tmp : tmp'[b].name = tmp[b].name
    <3>1. tmp[n].name = mp[a].name
      BY ApplicableNode
    <3>2. DOMAIN tmp' = DOMAIN tmp /\ \A b \in DOMAIN tmp : tmp'[b].name = tmp[b].name
      BY DEF Gives
    <3> QED BY <3>1, <3>2 DEF Rooted, Named
  <2>3. m # n /\ tmp'[m] = tmp[m]
    BY <2>2 DEF Gives
  <2>4. m \in Applicable /\ mp[m].name = tmp[m].name
    BY <2>2, <2>3, NewApplicable
  <2>5. m # a
    BY <2>2, <2>3, <2>4 DEF SentInv, Names, OneEach
  <2>6. a <= m /\ a \in Nat /\ m \in Nat
    BY <2>4 DEF IsLeast, Applicable, TypeOK
  <2>7. m >= cursor'
    BY <2>5, <2>6
  <2>8. InLoop(m)
    BY <2>2, <2>3 DEF SentInv, NewInLoop
  <2> QED BY <2>1, <2>2, <2>3, <2>7, <2>8 DEF InLoop, OfThisSync
<1> QED BY <1>1, <1>2, <1>3 DEF SentInv

LEMMA SendDocSent == ASSUME TypeOK, ListInv, SentInv, SendDoc PROVE SentInv'
<1>1. Writing /\ pc = "apply" /\ UNCHANGED <<pc, mp>>
  BY DEF Writing, SendDoc
<1>2. PICK a \in Applicable, n \in DOMAIN tmp :
           /\ IsLeast(a, Applicable) /\ n \in Pointer(tmp, mp[a].name) /\ cursor' = a + 1
           /\ Gives(tmp', tmp, n, mp[a].name, mp[a].version, "pending")
  BY SendDocEdits
<1> QED BY <1>1, <1>2, PassedSent

LEMMA DecodeFailsSent == ASSUME TypeOK, ListInv, SentInv, DecodeFails PROVE SentInv'
<1>1. Writing /\ pc = "apply" /\ UNCHANGED <<pc, mp>>
  BY DEF Writing, DecodeFails
<1>2. PICK a \in Applicable, n \in DOMAIN tmp :
           /\ IsLeast(a, Applicable) /\ n \in Pointer(tmp, mp[a].name) /\ cursor' = a + 1
           /\ Gives(tmp', tmp, n, mp[a].name, mp[a].version, "failed")
  BY DecodeFailsEdits
<1> QED BY <1>1, <1>2, PassedSent

\* The loop is left early only when no primary document is new.
LEMMA SetFailsSent ==
  ASSUME TypeOK, ListInv, SentInv, NEW code \in FailCodes, SetFails(code) PROVE SentInv'
<1>1. Writing /\ UNCHANGED <<mp, supp, cursor>> /\ pc = "apply"
  BY DEF Writing, SetFails
<1>2. UNCHANGED pc \/ (~supp /\ CheckRootUpdate(tmp') /\ pc' = "leave")
  BY SetFailsGives
<1>3. CASE UNCHANGED pc
  BY <1>1, <1>3, WritingSent
<1>4. CASE ~supp /\ CheckRootUpdate(tmp') /\ pc' = "leave"
  <2>1. Writes /\ Names' /\ ListInv'
    BY <1>1, WritingWrites, WritingNames, WritesShape
  <2>2. ASSUME Rooted(tmp'), NEW m \in DOMAIN tmp', tmp'[m].status = "pending_apply",
               Named(mp, tmp'[m].name) # {}
        PROVE  FALSE
    <3>1. Rewrites(tmp', tmp)
      BY <2>1, <2>2, ShapeEmpty DEF Writes
    <3>2. /\ Rooted(tmp) /\ m \in DOMAIN tmp /\ tmp[m].status = "pending_apply"
          /\ tmp'[m].name = tmp[m].name
      BY <2>2, <3>1, RewritesPlaces DEF Rooted, Rewrites
    <3>3. InLoop(m)
      BY <1>1, <2>2, <3>2 DEF SentInv, NewInLoop
    <3>4. tmp'[m].name # Root /\ IsPrimary(tmp'[m].name)
      BY <1>4, <3>2, <3>3, DocsAssumption DEF TypeOK, PartType, OfThisSync, InLoop
    <3>5. tmp'[m].code = 0
      BY <2>1, <2>2 DEF ListInv, Shape
    <3>6. ~Skipped(tmp'[m]) /\ m \in Subdocs(tmp')
      BY <2>2, <3>4, <3>5 DEF Skipped, NotThere, Subdocs
    <3>7. tmp'[m].status = "success"
      BY <1>4, <3>6 DEF CheckRootUpdate, AllSuccess
    <3> QED BY <2>2, <3>7
  <2>3. NewInLoop' /\ LoopStart'
    BY <1>1, <1>4, <2>2 DEF NewInLoop, LoopStart
  <2> QED BY <2>1, <2>3 DEF SentInv
<1> QED BY <1>2, <1>3, <1>4

LEMMA WritingKeepsSent == ASSUME TypeOK, ListInv, SentInv, Writing PROVE SentInv'
<1>1. ASSUME NEW p \in Threads, Resends(p) PROVE SentInv'
  <2>1. UNCHANGED <<pc, cursor>>
    BY <1>1 DEF Resends, RetrySend, RetrySucceeds, RetryFails
  <2> QED BY <2>1, WritingSent
<1>2. CASE SetSucceeds
  BY <1>2, WritingSent DEF SetSucceeds
<1>3. CASE HandleEvent
  <2>1. UNCHANGED <<pc, cursor>>
    BY <1>3 DEF HandleEvent, HandleAck, HandleNack, HandleTimeout, HandleExpire, HandleInit
  <2> QED BY <2>1, WritingSent
<1>4. CASE RetryNext
  BY <1>4, WritingSent DEF RetryNext, LoopStart
<1>5. CASE Storing
  <2>1. CASE Refresh
    <3>1. pc = "idle" /\ UNCHANGED cursor
      BY <2>1 DEF Refresh
    <3> QED BY <3>1, WritingSent DEF LoopStart, SentInv
  <2>2. CASE StoreRoot \/ LoopRecords
    <3>1. UNCHANGED <<pc, cursor>>
      BY <2>2 DEF StoreRoot, LoopRecords
    <3> QED BY <3>1, WritingSent
  <2> QED BY <1>5, <2>1, <2>2 DEF Storing
<1>6. ASSUME NEW p \in Threads, RecordStep(p) PROVE SentInv'
  <2>1. UNCHANGED <<pc, cursor>> \/ (pc = "leave" /\ cursor' = 0)
    BY <1>6 DEF RecordStep, Mark, Record, RecordRoot, MarkRoot, Save, CheckDelete,
       DeleteTmpList, DeleteMultipart, Leaving
  <2> QED BY <2>1, WritingSent DEF LoopStart
<1> QED BY <1>1, <1>2, <1>3, <1>4, <1>5, <1>6, SendDocSent, DecodeFailsSent, SetFailsSent
        DEF Writing

\* addToTmpList leaves no document of this sync behind in a list that root
\* heads (deleteFromTmpList removes no head there), and every other one.
LEMMA AddToTmpListNodes ==
  ASSUME TypeOK, ListInv, SentInv, AddToTmpList, Rooted(tmp')
  PROVE  /\ pc = "parsed" /\ pc' = "apply" /\ UNCHANGED <<mp, supp, cursor>>
         /\ \A a \in DOMAIN tmp' :
              \/ /\ a = 0 /\ tmp'[a].name = Root
                 /\ supp /\ Rooted(tmp) => tmp'[a] = tmp[a]
              \/ /\ a \in NewParts /\ tmp'[a].name = mp[a].name
                 /\ tmp'[a].status = "pending_apply" /\ tmp'[a].code = 0
              \/ /\ a \in DOMAIN tmp /\ a \notin NewParts /\ Rooted(tmp)
                 /\ tmp'[a] = tmp[a] /\ ~OfThisSync(tmp[a].name)
                 /\ tmp'[a].status = "pending_apply" => Named(mp, tmp[a].name) = {}
                 /\ tmp[a].name # Root
         /\ Rooted(tmp) => \A a \in DOMAIN tmp : ~OfThisSync(tmp[a].name) => a \in DOMAIN tmp'
<1>1. /\ Rewrites(Refreshed, tmp)
      /\ DOMAIN Remaining \subseteq DOMAIN tmp
      /\ \A a \in DOMAIN Remaining : Remaining[a] = Refreshed[a] /\ tmp'[a] = Remaining[a]
      /\ DOMAIN tmp' = DOMAIN Remaining \cup NewParts
                            \cup (IF Remaining = Empty /\ mp # Empty THEN {0} ELSE {})
      /\ Remaining = Empty /\ mp # Empty => tmp'[0] = Node(Root, RootVersion, "pending")
      /\ \A b \in NewParts : b \notin DOMAIN Remaining =>
           tmp'[b] = Node(mp[b].name, mp[b].version, "pending_apply")
  BY AddToTmpListLists
<1>2. pc = "parsed" /\ pc' = "apply" /\ UNCHANGED <<mp, supp, cursor>>
  BY DEF AddToTmpList
<1>3. Shape(tmp) /\ Shape(tmp')
  BY AddToTmpListShape DEF ListInv
<1>4. 0 \in DOMAIN tmp'
  BY <1>3 DEF Rooted, Named, Shape
<1>5. \A b \in NewParts : b # 0 /\ b \notin DOMAIN tmp
  <2>1. \A b \in NewParts : b \in 1..top /\ \A a \in DOMAIN tmp : a < b
    BY <1>2 DEF ListInv, Ahead, NewParts, TypeOK
  <2> QED BY <2>1, TypeList
<1>6. \A b \in NewParts : /\ tmp'[b].name = mp[b].name
                          /\ tmp'[b].status = "pending_apply" /\ tmp'[b].code = 0
  BY <1>1, <1>5 DEF Node
<1>7. \A a \in DOMAIN tmp : \/ Refreshed[a] = tmp[a] /\ (supp \/ tmp[a].name # Root)
                            \/ /\ ~supp /\ Refreshed[a].name = Root /\ tmp[a].name = Root
                               /\ Refreshed[a].status = "pending"
  BY RefreshedNodes
<1>8. CASE Rooted(tmp)
  <2> DEFINE S == {a \in Subdocs(Refreshed) : OfThisSync(Refreshed[a].name)}
  <2>1. DOMAIN Refreshed = DOMAIN tmp /\ \A a \in DOMAIN tmp : Refreshed[a].name = tmp[a].name
    BY <1>1 DEF Rewrites
  <2>2. 0 \in DOMAIN tmp /\ tmp[0].name = Root
    BY <1>3, <1>8 DEF Shape, Rooted, Named
  <2>3. \A a \in S : ~IsLeast(a, DOMAIN Refreshed)
    <3> SUFFICES ASSUME NEW a \in S, a <= 0 PROVE FALSE
      BY <2>1, <2>2 DEF IsLeast
    <3>1. a \in Nat /\ Refreshed[a].name # Root
      BY <2>1, TypeList DEF Subdocs
    <3> QED BY <2>1, <2>2, <3>1
  <2>4. DOMAIN Remaining = DOMAIN tmp \ S
    BY <2>1, <2>3 DEF Remaining, DeleteEach, Only
  <2>5. \A a \in DOMAIN tmp : tmp[a].status = "pending_apply" =>
          OfThisSync(tmp[a].name) \/ Named(mp, tmp[a].name) = {}
    BY <1>2, <1>8 DEF SentInv, NewInLoop, InLoop
  <2>6. 0 \in DOMAIN Remaining /\ Remaining # Empty
    BY <2>1, <2>2, <2>4, ShapeEmpty DEF Subdocs
  <2>7. \A a \in DOMAIN tmp' : a \in NewParts \/ a \in DOMAIN Remaining
    BY <1>1, <2>6
  <2>8. \A a \in DOMAIN Remaining :
          \/ /\ tmp'[a] = tmp[a]
             /\ tmp'[a].status = "pending_apply" =>
                  OfThisSync(tmp[a].name) \/ Named(mp, tmp[a].name) = {}
          \/ tmp[a].name = Root /\ ~supp /\ tmp'[a].name = Root /\ tmp'[a].status = "pending"
    BY <1>1, <1>7, <2>5
  <2>9. \A a \in DOMAIN Remaining : a # 0 => tmp[a].name # Root /\ ~OfThisSync(tmp[a].name)
    BY <1>1, <1>3, <2>1, <2>4 DEF Subdocs, Shape
  <2>10. \A a \in DOMAIN tmp : ~OfThisSync(tmp[a].name) => a \in DOMAIN tmp'
    BY <1>1, <2>1, <2>4
  <2>11. \A a \in DOMAIN Remaining : a = 0 \/ tmp'[a] = tmp[a]
    BY <2>8, <2>9
  <2>12. tmp'[0].name = Root /\ (supp => tmp'[0] = tmp[0])
    BY <2>2, <2>6, <2>8
  <2> QED BY <1>1, <1>2, <1>5, <1>6, <1>8, <2>7, <2>8, <2>9, <2>10, <2>11, <2>12
<1>9. CASE ~Rooted(tmp)
  <2>1. 0 \notin DOMAIN tmp
    BY <1>3, <1>9 DEF Rooted, Named, Shape
  <2>2. Remaining = Empty /\ mp # Empty
    BY <1>1, <1>4, <1>5, <2>1
  <2>3. DOMAIN Remaining = {}
    BY <2>2, ShapeEmpty
  <2>4. tmp'[0].name = Root /\ tmp'[0].status = "pending"
    BY <1>1, <2>2 DEF Node
  <2> QED BY <1>1, <1>2, <1>6, <1>9, <2>2, <2>3, <2>4
<1> QED BY <1>8, <1>9

LEMMA AddToTmpListSent == ASSUME TypeOK, ListInv, SentInv, AddToTmpList PROVE SentInv'
<1>1. ASSUME Rooted(tmp')
      PROVE  OneEach(tmp')
  <2>1. /\ UNCHANGED <<mp, supp, cursor>>
        /\ \A a \in DOMAIN tmp' :
              \/ a = 0 /\ tmp'[a].name = Root
              \/ a \in NewParts /\ tmp'[a].name = mp[a].name
              \/ /\ a \in DOMAIN tmp /\ Rooted(tmp)
                 /\ tmp'[a].name = tmp[a].name /\ ~OfThisSync(tmp[a].name)
                 /\ tmp[a].name # Root
    BY <1>1, AddToTmpListNodes
  <2>2. \A b \in NewParts : b \in DOMAIN mp /\ OfThisSync(mp[b].name) /\ mp[b].name # Root
    BY DocsAssumption DEF NewParts, TypeOK, PartType
  <2>3. \A a, b \in NewParts : mp[a].name = mp[b].name => a = b
    BY <2>2 DEF SentInv, Names, OneEach
  <2>4. Rooted(tmp) => \A a, b \in DOMAIN tmp : tmp[a].name = tmp[b].name => a = b
    BY DEF SentInv, Names, OneEach
  <2> SUFFICES ASSUME NEW a \in DOMAIN tmp', NEW b \in DOMAIN tmp', tmp'[a].name = tmp'[b].name
               PROVE  a = b
    BY DEF OneEach
  <2> QED BY <2>1, <2>2, <2>3, <2>4
<1>2. NewInLoop'
  <2> SUFFICES ASSUME Rooted(tmp'), NEW a \in DOMAIN tmp', tmp'[a].status = "pending_apply",
                      Named(mp', tmp'[a].name) # {}
               PROVE  InLoop(a)'
    BY DEF NewInLoop
  <2>1. /\ pc = "parsed" /\ pc' = "apply" /\ UNCHANGED <<mp, supp, cursor>>
        /\ \/ tmp'[a].name = Root
           \/ a \in NewParts /\ tmp'[a].name = mp[a].name
           \/ tmp'[a] = tmp[a] /\ (tmp'[a].status = "pending_apply" => Named(mp, tmp[a].name) = {})
    BY AddToTmpListNodes
  <2>2. tmp'[a].name # Root
    BY <2>1, DocsAssumption DEF Named, TypeOK, PartType
  <2>3. a \in DOMAIN mp /\ OfThisSync(mp[a].name) /\ a \in Nat /\ tmp'[a].name = mp[a].name
    <3>1. ~(tmp'[a] = tmp[a] /\ (tmp'[a].status = "pending_apply" => Named(mp, tmp[a].name) = {}))
      BY <2>1
    <3>2. a \in NewParts /\ tmp'[a].name = mp[a].name
      BY <2>1, <2>2, <3>1
    <3> QED BY <3>2 DEF NewParts, TypeOK
  <2>4. cursor = 0
    BY <2>1 DEF SentInv, LoopStart
  <2> QED BY <2>1, <2>3, <2>4 DEF InLoop, OfThisSync
<1>3. OneEach(mp)' /\ Received' /\ LoopStart'
  BY DEF AddToTmpList, SentInv, Names, OneEach, Received, LoopStart
<1> QED BY <1>1, <1>2, <1>3 DEF SentInv, Names

LEMMA ReleaseSent == ASSUME TypeOK, ListInv, SentInv, ReleaseSuccessDocs PROVE SentInv'
<1>1. PICK S : tmp' = DeleteEach(tmp, S)
  BY DEF ReleaseSuccessDocs
<1>2. DOMAIN tmp' \subseteq DOMAIN tmp /\ \A a \in DOMAIN tmp' : tmp'[a] = tmp[a]
  BY <1>1, DeleteEachType, TypeList
<1>3. Rooted(tmp') => Rooted(tmp)
  BY <1>2 DEF Rooted, Named
<1>4. UNCHANGED <<mp, syncing, loop>> /\ pc = "idle"
  BY DEF ReleaseSuccessDocs
<1>5. Names'
  BY <1>2, <1>3, <1>4 DEF SentInv, Names, OneEach, Received
<1>6. NewInLoop' /\ LoopStart'
  BY <1>2, <1>3, <1>4 DEF SentInv, NewInLoop, LoopStart, InLoop
<1> QED BY <1>5, <1>6 DEF SentInv

\* A bundle that has been received is there to be parsed.
LEMMA BundleReceived ==
  ASSUME TypeOK, pc = "received"
  PROVE  cloud[Len(cloud)] \in Bundles /\ Len(cloud[Len(cloud)]) \in Nat /\ top \in Nat
<1> DEFINE bundle == cloud[Len(cloud)]
<1>1. cloud \in Seq(Bundles) /\ cloud # <<>>
  BY DEF TypeOK
<1>2. bundle \in Bundles
  BY <1>1
<1> HIDE DEF bundle
<1>3. bundle \in Seq([name : Docs, version : Nat \ {0}, ok : BOOLEAN])
  BY <1>2, BundlesAssumption
<1>4. Len(bundle) \in Nat
  BY <1>3
<1> QED BY <1>2, <1>4 DEF TypeOK, bundle

LEMMA ParseSent == ASSUME TypeOK, ListInv, SentInv, Parse, DistinctNames PROVE SentInv'
<1> DEFINE bundle == cloud[Len(cloud)]
           kept == {a \in DOMAIN mp : ~OfThisSync(mp[a].name)}
           new == [a \in (top + 1)..(top + Len(bundle)) |-> bundle[a - top]]
<1>1. /\ pc = "received" /\ pc' \in {"idle", "parsed"} /\ UNCHANGED <<tmp, cloud, supp, cursor>>
      /\ mp' = Join(Only(mp, kept), new) /\ (pc' = "idle" => mp' = Empty)
  BY DEF Parse
<1>2. bundle \in Bundles /\ Len(bundle) \in Nat /\ top \in Nat
  BY <1>1, BundleReceived
<1>3. \A i \in 1..Len(bundle) : OfThisSync(bundle[i].name)
  BY <1>1 DEF SentInv, Names, Received
<1>4. \A i, j \in 1..Len(bundle) : bundle[i].name = bundle[j].name => i = j
  BY <1>2 DEF DistinctNames
<1> HIDE DEF bundle
<1>5. \A a \in DOMAIN mp' :
        \/ a \in kept /\ mp'[a] = mp[a]
        \/ /\ a - top \in 1..Len(bundle) /\ a \in Int
           /\ mp'[a] = bundle[a - top]
  BY <1>1, <1>2 DEF Join, Only
<1>6. OneEach(mp')
  <2> SUFFICES ASSUME NEW a \in DOMAIN mp', NEW b \in DOMAIN mp', mp'[a].name = mp'[b].name
               PROVE  a = b
    BY DEF OneEach
  <2>1. CASE a \in kept /\ mp'[a] = mp[a] /\ b \in kept /\ mp'[b] = mp[b]
    BY <2>1 DEF SentInv, Names, OneEach
  <2>2. ASSUME NEW x, NEW y, x \in kept, mp'[x] = mp[x], y - top \in 1..Len(bundle),
               mp'[y] = bundle[y - top], mp'[x].name = mp'[y].name
        PROVE  FALSE
    BY <1>3, <2>2
  <2>3. CASE /\ a - top \in 1..Len(bundle) /\ a \in Int /\ mp'[a] = bundle[a - top]
             /\ b - top \in 1..Len(bundle) /\ b \in Int /\ mp'[b] = bundle[b - top]
    <3>1. a - top = b - top
      BY <1>4, <2>3
    <3> QED BY <1>2, <2>3, <3>1
  <2> QED BY <1>5, <2>1, <2>2, <2>3
<1>7. Names'
  BY <1>1, <1>6 DEF SentInv, Names, OneEach, Received
<1>8. NewInLoop'
  <2>1. CASE pc' = "idle"
    BY <1>1, <2>1, NamedEmpty DEF NewInLoop
  <2>2. CASE pc' = "parsed"
    <3> SUFFICES ASSUME Rooted(tmp), NEW a \in DOMAIN tmp, tmp[a].status = "pending_apply",
                        NEW b \in Named(mp', tmp[a].name)
                 PROVE  OfThisSync(tmp[a].name)'
      BY <1>1, <2>2 DEF NewInLoop
    <3>1. Named(mp, tmp[a].name) = {}
      BY <1>1 DEF SentInv, NewInLoop, InLoop
    <3>2. b \notin kept \/ mp'[b] # mp[b]
      BY <3>1 DEF Named
    <3>3. OfThisSync(mp'[b].name) /\ mp'[b].name = tmp[a].name
      BY <1>3, <1>5, <3>2 DEF Named
    <3> QED BY <1>1, <3>3 DEF OfThisSync
  <2> QED BY <1>1, <2>1, <2>2
<1>9. LoopStart'
  BY <1>1 DEF SentInv, LoopStart
<1> QED BY <1>7, <1>8, <1>9 DEF SentInv

\* All parts of a bundle are of one kind.
LEMMA FetchSent == ASSUME TypeOK, ListInv, SentInv, NEW b \in Bundles, Fetch(b) PROVE SentInv'
<1>1. /\ pc \in {"idle", "request"} /\ pc' = "received" /\ UNCHANGED <<tmp, mp, cursor>>
      /\ cloud' = Append(cloud, b)
      /\ \A i \in 1..Len(b) : b[i].name \in SuppDocs <=> supp'
  BY DEF Fetch
<1>2. cloud'[Len(cloud')] = b
  <2>1. cloud \in Seq(Bundles)
    BY DEF TypeOK
  <2> QED BY <1>1, <2>1
<1>3. supp' \in BOOLEAN
  BY DEF Fetch
<1>4. \A i \in 1..Len(b) : OfThisSync(b[i].name)'
  BY <1>1, <1>3 DEF OfThisSync, IsPrimary
<1>5. Received'
  BY <1>2, <1>4 DEF Received
<1>6. (Rooted(tmp) => OneEach(tmp))' /\ OneEach(mp)' /\ LoopStart'
  BY <1>1 DEF SentInv, Names, LoopStart
<1>7. NewInLoop'
  BY <1>1 DEF SentInv, NewInLoop, InLoop
<1> QED BY <1>5, <1>6, <1>7 DEF SentInv, Names

LEMMA QuietSent == ASSUME TypeOK, ListInv, SentInv, Quiet PROVE SentInv'
<1> DEFINE NoneNew ==
      Rooted(tmp) => \A a \in DOMAIN tmp :
        tmp[a].status = "pending_apply" => Named(mp, tmp[a].name) = {}
<1>1. CASE \E b \in Bundles : Fetch(b)
  BY <1>1, FetchSent
<1>2. ASSUME UNCHANGED <<tmp, mp, cloud, supp>>, pc' \in {"idle", "retry"}, NoneNew,
             pc' = "idle" => cursor' = 0
      PROVE  SentInv'
  BY <1>2 DEF SentInv, Names, NewInLoop, LoopStart, Received
<1>3. pc \notin {"apply", "parsed"} => NoneNew
  BY DEF SentInv, NewInLoop, InLoop
<1>4. CASE NoBundle \/ ParseFails \/ StartFailedDocsRetry \/ NotYetDue \/ EndFailedDocsRetry
  <2>1. UNCHANGED <<tmp, mp, cloud, supp>> /\ pc' \in {"idle", "retry"} /\ pc \notin {"apply", "parsed"}
    BY <1>4 DEF NoBundle, ParseFails, StartFailedDocsRetry, NotYetDue, EndFailedDocsRetry
  <2>2. pc' = "idle" => cursor' = 0
    BY <1>4 DEF NoBundle, ParseFails, StartFailedDocsRetry, NotYetDue, EndFailedDocsRetry,
       SentInv, LoopStart
  <2> HIDE DEF NoneNew
  <2>3. NoneNew
    BY <1>3, <2>1
  <2> QED BY <1>2, <2>1, <2>2, <2>3
<1>5. CASE EndLoop
  <2>1. NoneNew
    BY <1>5, NewApplicable DEF EndLoop
  <2> QED BY <1>2, <1>5, <2>1 DEF EndLoop
<1>6. ASSUME UNCHANGED <<tmp, mp, cloud, supp, pc, cursor>> PROVE SentInv'
  BY <1>6 DEF SentInv, Names, NewInLoop, LoopStart, Received, OfThisSync, InLoop
<1>7. CASE TimerStep
  BY <1>6, <1>7 DEF TimerStep, TimerExpires, TimerCheck
<1>8. CASE ComponentStep
  BY <1>6, <1>8 DEF ComponentStep, ComponentAccepts, ComponentRefuses, ComponentNeedsTime,
     ComponentRestarts
<1>9. CASE UNCHANGED vars
  BY <1>6, <1>9 DEF vars
<1> QED BY <1>1, <1>4, <1>5, <1>7, <1>8, <1>9 DEF Quiet

LEMMA NextSent ==
  ASSUME TypeOK, ListInv, SentInv, DistinctNames, [Next]_vars PROVE SentInv'
BY NextSplit, QuietSent, ParseSent, AddToTmpListSent, ReleaseSent, WritingKeepsSent

LEMMA InitSent == Init => SentInv
<1> SUFFICES ASSUME Init PROVE SentInv
  OBVIOUS
<1>1. tmp = Empty /\ mp = Empty /\ pc = "idle" /\ cursor = 0
  BY DEF Init
<1> QED BY <1>1, ShapeEmpty DEF SentInv, Names, OneEach, NewInLoop, LoopStart, Received

\* When the sync is over every new document has been sent or given up, in any
\* list that root heads, if no bundle names a document twice.
THEOREM NewDocsAreSentCorrect == DistinctNames => (Spec => []NewDocsAreSent)
<1> SUFFICES ASSUME DistinctNames PROVE Spec => []NewDocsAreSent
  OBVIOUS
<1>1. Init => SentInv
  BY InitSent
<1>2. TypeOK /\ ListInv /\ SentInv /\ [Next]_vars => SentInv'
  BY NextSent
<1>3. SentInv => NewDocsAreSent
  BY DEF SentInv, NewInLoop, NewDocsAreSent, Rooted, InLoop
<1> QED BY <1>1, <1>2, <1>3, TypeCorrect, ListInvariant, PTL DEF Spec

-----------------------------------------------------------------------------
(* Root follows the last document: whoever leaves all the primary documents  *)
(* that count applied goes on to mark root as applied. The sync thread's     *)
(* loop does not, but the document it has marked then is a scalar one.       *)

Follows(t) ==
  CheckRootUpdate(t) /\ {t[a].name : a \in Subdocs(t)} \cap ScalarDocs \subseteq SuppDocs
    => \A a \in Named(t, Root) : t[a].status = "success"
HandAt(p) == \/ call[p].state \in {"rooted", "rootdb"}
             \/ p = "event" /\ call[p].state = "marked" /\ IsPrimary(call[p].doc)
InHand == \E p \in Threads : HandAt(p)
\* Where a primary document is, a primary response has been.
EtagKnown ==
  /\ \A a \in DOMAIN tmp : IsPrimary(tmp[a].name) /\ tmp[a].name # Root => etag # 0
  /\ \A b \in DOMAIN mp : IsPrimary(mp[b].name) => etag # 0
  /\ pc = "received" /\ ~supp => etag # 0
RootKnown == \A p \in Threads : /\ call[p].state = "rooted" => etag # 0
                                /\ call[p].state = "rootdb" => call[p].version # 0
\* What the sync thread works on is still there, if anything is, and the loop
\* of a sync sends documents of its kind.
SyncDoc ==
  call["sync"].state \in Working =>
    /\ DOMAIN tmp = {} \/ Here(tmp, call["sync"].node, call["sync"].doc)
    /\ pc = "apply" /\ Rooted(tmp) => OfThisSync(call["sync"].doc)
FollowInv == EtagKnown /\ RootKnown /\ SyncDoc /\ (InHand \/ Follows(tmp))
FollowStep == RootKnown' /\ (InHand \/ Follows(tmp))'

\* A list whose documents count no better than before, and the same root.
LEMMA FollowsSame ==
  ASSUME NEW t, NEW u, Follows(t), DOMAIN u = DOMAIN t,
         \A a \in DOMAIN t : /\ u[a].name = t[a].name
                             /\ t[a].name = Root => u[a].status = t[a].status,
         CheckRootUpdate(u) => CheckRootUpdate(t)
  PROVE  Follows(u)
<1>1. Subdocs(u) = Subdocs(t) /\ Named(u, Root) = Named(t, Root)
  BY DEF Subdocs, Named
<1>2. {u[a].name : a \in Subdocs(u)} = {t[a].name : a \in Subdocs(t)}
  BY <1>1 DEF Subdocs
<1>3. \A a \in Named(t, Root) : u[a].status = t[a].status
  BY DEF Named
<1> QED BY <1>1, <1>2, <1>3 DEF Follows

\* Documents that count are still applied, or the write has ended that.
LEMMA CountedSame ==
  ASSUME NEW t, NEW u, DOMAIN u = DOMAIN t,
         \A a \in DOMAIN t :
           /\ u[a].name = t[a].name
           /\ \/ u[a].status = t[a].status /\ u[a].code = t[a].code /\ u[a].details = t[a].details
              \/ ~IsPrimary(t[a].name)
              \/ u[a].name # Root /\ u[a].status # "success" /\ ~Skipped(u[a])
  PROVE  CheckRootUpdate(u) => CheckRootUpdate(t)
<1> SUFFICES ASSUME CheckRootUpdate(u) PROVE CheckRootUpdate(t)
  OBVIOUS
<1>1. Subdocs(u) = Subdocs(t)
  BY DEF Subdocs
<1>2. /\ \E a \in Subdocs(u) : ~Skipped(u[a])
      /\ \A a \in Subdocs(u) : ~Skipped(u[a]) => u[a].status = "success"
  BY DEF CheckRootUpdate, AllSuccess
<1>3. \A a \in Subdocs(t) : /\ Skipped(u[a]) <=> Skipped(t[a])
                            /\ ~Skipped(t[a]) => u[a].status = t[a].status
  BY <1>1, <1>2 DEF Subdocs, Skipped
<1>4. /\ \E a \in Subdocs(t) : ~Skipped(t[a])
      /\ \A a \in Subdocs(t) : ~Skipped(t[a]) => t[a].status = "success"
  BY <1>1, <1>2, <1>3
<1> QED BY <1>4 DEF CheckRootUpdate, AllSuccess

LEMMA EditsFollows ==
  ASSUME NEW t, NEW u, Follows(t), NEW n, NEW d \in Docs, NEW V, Edits(u, t, n, d, V)
  PROVE  Follows(u)
<1>1. d # Root
  BY DocsAssumption
<1>2. DOMAIN u = DOMAIN t
      /\ \A a \in DOMAIN t :
           \/ u[a] = t[a]
           \/ t[a].name = d /\ u[a].name = d /\ (Alike(u[a], t[a]) \/ Open(u[a]))
  BY DEF Edits
<1>3. \A a \in DOMAIN t : /\ u[a].name = t[a].name
                          /\ t[a].name = Root => u[a].status = t[a].status
  BY <1>1, <1>2
<1>4. CheckRootUpdate(u) => CheckRootUpdate(t)
  <2>1. ASSUME NEW a \in DOMAIN t
        PROVE  \/ u[a].status = t[a].status /\ u[a].code = t[a].code /\ u[a].details = t[a].details
               \/ ~IsPrimary(t[a].name)
               \/ u[a].name # Root /\ u[a].status # "success" /\ ~Skipped(u[a])
    BY <1>1, <1>2 DEF Alike, Open, Skipped
  <2> QED BY <1>2, <1>3, <2>1, CountedSame
<1> QED BY <1>2, <1>3, <1>4, FollowsSame

\* Writing to a supplementary document changes nothing for root.
LEMMA GivesSuppFollows ==
  ASSUME NEW t, NEW u, Follows(t), NEW n, NEW d, d # Root, ~IsPrimary(d), NEW v, NEW s,
         Gives(u, t, n, d, v, s)
  PROVE  Follows(u)
<1>1. DOMAIN u = DOMAIN t
      /\ \A a \in DOMAIN t : u[a] = t[a] \/ (t[a].name = d /\ u[a].name = d)
  BY DEF Gives
<1>2. \A a \in DOMAIN t : /\ u[a].name = t[a].name
                          /\ t[a].name = Root => u[a].status = t[a].status
  BY <1>1
<1>3. CheckRootUpdate(u) => CheckRootUpdate(t)
  BY <1>1, <1>2, CountedSame
<1> QED BY <1>1, <1>2, <1>3, FollowsSame

\* A list that counts as applied holds a primary document.
LEMMA CountedPrimary ==
  ASSUME NEW t, CheckRootUpdate(t)
  PROVE  \E a \in DOMAIN t : IsPrimary(t[a].name) /\ t[a].name # Root
BY DEF CheckRootUpdate, AllSuccess, Subdocs, Skipped

LEMMA FollowsEmpty == ASSUME NEW t, DOMAIN t = {} PROVE Follows(t)
BY DEF Follows, Named

\* A thread that has not got root in hand does not let go of it.
LEMMA PlainFollows ==
  ASSUME FollowInv, NEW p \in Threads, \A q \in Threads : q # p => call'[q] = call[q],
         ~HandAt(p), call'[p].state \notin {"rooted", "rootdb"}, UNCHANGED etag,
         Follows(tmp) => Follows(tmp')
  PROVE  FollowStep
<1>1. RootKnown'
  BY DEF FollowInv, RootKnown
<1>2. CASE InHand
  <2>1. PICK q \in Threads : HandAt(q)
    BY <1>2 DEF InHand
  <2>2. call'[q] = call[q]
    BY <2>1
  <2>3. HandAt(q)'
    BY <2>1, <2>2 DEF HandAt
  <2> QED BY <1>1, <2>3 DEF FollowStep, InHand
<1>3. CASE ~InHand
  BY <1>1, <1>3 DEF FollowInv, FollowStep
<1> QED BY <1>2, <1>3

\* A thread takes root in hand.
LEMMA InHandFollows ==
  ASSUME FollowInv, NEW p \in Threads, \A q \in Threads : q # p => call'[q] = call[q],
         HandAt(p)', call'[p].state = "rooted" => etag' # 0,
         call'[p].state = "rootdb" => call'[p].version # 0, UNCHANGED etag
  PROVE  FollowStep
<1>1. RootKnown'
  BY DEF FollowInv, RootKnown
<1> QED BY <1>1 DEF FollowStep, InHand

LEMMA GoesPlain ==
  ASSUME TypeOK, FollowInv, NEW p \in Threads, NEW s, Goes(p, s), ~HandAt(p),
         s \notin {"rooted", "rootdb"}, UNCHANGED etag, Follows(tmp) => Follows(tmp')
  PROVE  FollowStep
BY GoesNode, GoesTo, PlainFollows

LEMMA GoesRooted ==
  ASSUME TypeOK, FollowInv, NEW p \in Threads, Goes(p, "rooted"), UNCHANGED etag, etag # 0
  PROVE  FollowStep
<1>1. call'[p].state = "rooted" /\ \A q \in Threads : q # p => call'[q] = call[q]
  BY GoesNode, GoesTo
<1>2. HandAt(p)'
  BY <1>1 DEF HandAt
<1> QED BY <1>1, <1>2, InHandFollows

LEMMA CallPlain ==
  ASSUME TypeOK, FollowInv, NEW p \in Threads, NEW r, call' = [call EXCEPT ![p] = r],
         ~HandAt(p), r.state \notin {"rooted", "rootdb"}, UNCHANGED etag,
         Follows(tmp) => Follows(tmp')
  PROVE  FollowStep
<1>1. call'[p] = r /\ \A q \in Threads : q # p => call'[q] = call[q]
  BY DEF TypeOK
<1> QED BY <1>1, PlainFollows

LEMMA SameCallPlain ==
  ASSUME FollowInv, UNCHANGED <<call, etag>>, Follows(tmp) => Follows(tmp')
  PROVE  FollowStep
BY DEF FollowInv, FollowStep, RootKnown, InHand, HandAt

\* updateRootVersionToDB marks root as applied.
LEMMA RootFollowsMark ==
  ASSUME TypeOK, ListInv, NEW v \in Nat, tmp' = SetRoot(tmp, v, "success")
  PROVE  Follows(tmp')
<1>1. /\ Rewrites(tmp', tmp)
      /\ \A a \in Pointer(tmp, Root) : a \in DOMAIN tmp => tmp'[a].status = "success"
  BY TypeList, SetRootRewrites
<1>2. \A a \in DOMAIN tmp : tmp[a].name = Root => a \in Pointer(tmp, Root)
  BY DEF ListInv, Shape, Pointer, Named, IsLeast
<1>3. Named(tmp', Root) = Named(tmp, Root)
  BY <1>1, RewritesPlaces
<1> QED BY <1>1, <1>2, <1>3 DEF Follows, Named

\* A scalar document is marked by the sync thread.
LEMMA AppliedFollows ==
  ASSUME TypeOK, ListInv, CallsInv, FollowInv, NEW p \in Threads, Applied(p),
         call[p].state = "sent", call[p].doc \in ScalarDocs, UNCHANGED etag
  PROVE  FollowStep
<1> DEFINE c == call[p]
           d == call[p].doc
<1>1. p = "sync" /\ d \in Docs /\ d # Root /\ c.state \in Working
  BY DocsAssumption DEF CallsInv, CallNamed, CallState, Working, Threads
<1>2. Gives(tmp', tmp, c.node, d, c.version, "success") /\ Goes(p, "marked")
  BY AppliedGives DEF Applied
<1>3. DOMAIN tmp = {} \/ Here(tmp, c.node, d)
  BY <1>1 DEF FollowInv, SyncDoc
<1>4. Follows(tmp) => Follows(tmp')
  <2>1. CASE ~IsPrimary(d)
    BY <1>1, <1>2, <2>1, GivesSuppFollows
  <2>2. CASE DOMAIN tmp = {}
    BY <1>2, <2>2, FollowsEmpty DEF Gives
  <2>3. CASE IsPrimary(d) /\ Here(tmp, c.node, d)
    <3>1. c.node \in DOMAIN tmp' /\ tmp'[c.node].name = d
      BY <1>2, <2>3 DEF Gives, Here
    <3>2. c.node \in Subdocs(tmp')
      BY <1>1, <3>1 DEF Subdocs
    <3>3. d \in {tmp'[a].name : a \in Subdocs(tmp')} \cap ScalarDocs /\ d \notin SuppDocs
      BY <2>3, <3>1, <3>2 DEF IsPrimary
    <3> QED BY <3>3 DEF Follows
  <2> QED BY <1>3, <2>1, <2>2, <2>3
<1>5. ~HandAt(p)
  BY <1>1 DEF HandAt
<1> QED BY <1>2, <1>4, <1>5, GoesPlain

LEMMA WritingEtag == ASSUME TypeOK, ListInv, FollowInv, Writing PROVE EtagKnown'
<1>1. Writes /\ (mp' = mp \/ mp' = Empty)
  BY WritingWrites DEF Writes
<1>2. UNCHANGED <<etag, supp>> /\ (pc' = "received" => pc = "received")
  BY <1>1 DEF Writes
<1>3. \A a \in DOMAIN tmp' : a \in DOMAIN tmp /\ tmp'[a].name = tmp[a].name
  BY <1>1, ShapeEmpty DEF Writes, Rewrites
<1>4. \A b \in DOMAIN mp' : b \in DOMAIN mp /\ mp'[b] = mp[b]
  BY <1>1, ShapeEmpty
<1> QED BY <1>2, <1>3, <1>4 DEF FollowInv, EtagKnown

\* Only SendDoc and RetryNext give the sync thread another document.
Ongoing ==
  call'["sync"].state \in Working =>
    /\ call["sync"].state \in Working
    /\ call'["sync"].node = call["sync"].node /\ call'["sync"].doc = call["sync"].doc

LEMMA GoesOngoing ==
  ASSUME TypeOK, NEW p \in Threads, NEW s, Goes(p, s),
         s \in Working => call[p].state \in Working
  PROVE  Ongoing
<1>1. CASE p # "sync"
  <2>1. call'["sync"] = call["sync"]
    BY <1>1, GoesNode DEF Threads
  <2> QED BY <2>1 DEF Ongoing
<1>2. CASE p = "sync" /\ s = "none"
  <2>1. call'["sync"].state = "none"
    BY <1>2, GoesTo
  <2> QED BY <2>1 DEF Ongoing, Working
<1>3. CASE p = "sync" /\ s # "none"
  <2>1. call'[p] = [call[p] EXCEPT !.state = s]
    BY <1>3, GoesNode
  <2>2. call'[p].node = call[p].node /\ call'[p].doc = call[p].doc /\ call'[p].state = s
    BY <2>1 DEF TypeOK, CallType
  <2> QED BY <1>3, <2>2 DEF Ongoing
<1> QED BY <1>1, <1>2, <1>3

LEMMA CallOngoing ==
  ASSUME TypeOK, NEW p \in Threads, NEW r, call' = [call EXCEPT ![p] = r],
         \/ p # "sync"
         \/ r.state \notin Working
         \/ call[p].state \in Working /\ r.node = call[p].node /\ r.doc = call[p].doc
  PROVE  Ongoing
BY DEF TypeOK, Threads, Ongoing

LEMMA WritingOngoing ==
  ASSUME TypeOK, ListInv, CallsInv, Writing, ~SendDoc, ~RetryNext PROVE Ongoing
<1>1. CASE DecodeFails
  BY <1>1 DEF DecodeFails, Ongoing
<1>2. ASSUME NEW p \in Threads, NEW s \in {"none", "rooted", "rootdb", "save", "saved", "drop", "free"},
             Goes(p, s)
      PROVE  Ongoing
  BY <1>2, GoesOngoing DEF Working
<1>3. "sync" \in Threads /\ "event" \in Threads /\ "event" # "sync"
  BY DEF Threads
<1>4. CASE SetSucceeds
  <2>1. call["sync"].state \in Working
    BY <1>4 DEF SetSucceeds, Working
  <2>2. Goes("sync", "marked") \/ Goes("sync", "drop") \/ Goes("sync", "none")
    BY <1>4 DEF SetSucceeds, Applied, Passed
  <2> QED BY <1>2, <1>3, <2>1, <2>2, GoesOngoing
<1>5. ASSUME NEW code \in FailCodes, SetFails(code) PROVE Ongoing
  <2>1. Goes("sync", "rooted") \/ Goes("sync", "none")
    BY <1>5 DEF SetFails
  <2> QED BY <1>2, <1>3, <2>1
<1>6. CASE Storing
  <2>1. CASE Refresh
    <3>1. PICK v : call' = [call EXCEPT !["sync"] =
                              [NoCall EXCEPT !.version = v, !.state = "derived"]]
      BY <2>1 DEF Refresh
    <3> DEFINE r == [NoCall EXCEPT !.version = v, !.state = "derived"]
    <3>2. r.state = "derived" /\ call' = [call EXCEPT !["sync"] = r]
      BY <3>1 DEF NoCall
    <3> HIDE DEF r
    <3>3. r.state \notin Working
      BY <3>2 DEF Working
    <3> QED BY <1>3, <3>2, <3>3, CallOngoing
  <2>2. CASE StoreRoot
    <3>1. Goes("sync", "save") \/ Goes("sync", "none")
      BY <2>2 DEF StoreRoot
    <3> QED BY <1>2, <1>3, <3>1
  <2>3. CASE LoopRecords
    <3>1. Goes("sync", "drop") \/ Goes("sync", "none")
      BY <2>3 DEF LoopRecords, Passed
    <3> QED BY <1>2, <1>3, <3>1
  <2> QED BY <1>6, <2>1, <2>2, <2>3 DEF Storing
<1>7. ASSUME NEW p \in Threads, Resends(p) PROVE Ongoing
  <2>1. CASE \E code \in FailCodes : RetryFails(p, code)
    <3>1. call' = [call EXCEPT ![p] = NoCall] /\ NoCall.state \notin Working
      BY <2>1 DEF RetryFails, NoCall, Working
    <3> QED BY <3>1, CallOngoing
  <2>2. CASE RetrySucceeds(p)
    <3>1. call[p].state \in Working /\ (Goes(p, "marked") \/ Goes(p, "none"))
      BY <2>2 DEF RetrySucceeds, Applied, Working
    <3> QED BY <3>1, GoesOngoing
  <2>3. CASE RetrySend(p)
    <3> DEFINE V == {call[p].known} \cup {mp[a].version : a \in Named(mp, call[p].doc)}
               r(a, s) == [doc |-> call[p].doc, node |-> call[p].node, version |-> mp[a].version,
                           known |-> call[p].known, trans |-> NoTrans, state |-> s]
    <3>1. /\ p = "event" => call[p].known \in V
          /\ \A a \in Named(mp, call[p].doc) : mp[a].version \in V
      OBVIOUS
    <3> HIDE DEF V
    <3>2. \/ call' = [call EXCEPT ![p] = NoCall]
          \/ \E a, s : call' = [call EXCEPT ![p] = r(a, s)]
      BY <2>3, <3>1, RetrySendEdits
    <3>3. \A a, s : r(a, s).node = call[p].node /\ r(a, s).doc = call[p].doc
      OBVIOUS
    <3> HIDE DEF r
    <3>4. call[p].state \in Working /\ NoCall.state \notin Working
      BY <2>3 DEF RetrySend, Working, NoCall
    <3>5. ASSUME NEW a, NEW s, call' = [call EXCEPT ![p] = r(a, s)] PROVE Ongoing
      BY <3>3, <3>4, <3>5, CallOngoing
    <3> QED BY <3>2, <3>4, <3>5, CallOngoing
  <2> QED BY <1>7, <2>1, <2>2, <2>3 DEF Resends
<1>8. ASSUME NEW p \in Threads, RecordStep(p) PROVE Ongoing
  <2>1. CASE Mark(p)
    <3>1. call[p].state \in Working /\ (Goes(p, "marked") \/ Goes(p, "none"))
      BY <2>1 DEF Mark, Working
    <3> QED BY <3>1, GoesOngoing
  <2>2. CASE RecordRoot(p)
    <3> DEFINE r == [call[p] EXCEPT !.version = etag, !.state = "rootdb"]
    <3>1. call' = [call EXCEPT ![p] = r]
      BY <2>2 DEF RecordRoot
    <3>2. r.state = "rootdb"
      BY DEF TypeOK, CallType
    <3> HIDE DEF r
    <3>3. r.state \notin Working
      BY <3>2 DEF Working
    <3> QED BY <3>1, <3>3, CallOngoing
  <2>3. CASE Record(p) \/ MarkRoot(p) \/ Save(p) \/ CheckDelete(p) \/ DeleteTmpList(p)
             \/ DeleteMultipart(p)
    <3>1. \E s \in {"none", "rooted", "save", "saved", "drop", "free"} : Goes(p, s)
      BY <2>3 DEF Record, MarkRoot, Save, CheckDelete, DeleteTmpList, DeleteMultipart,
         AfterDelete
    <3> QED BY <1>2, <3>1
  <2> QED BY <1>8, <2>1, <2>2, <2>3 DEF RecordStep
<1>9. CASE HandleEvent
  <2>1. call'["sync"] = call["sync"]
    BY <1>9, HandleEventMoves
  <2> QED BY <2>1 DEF Ongoing
<1> QED BY <1>1, <1>4, <1>5, <1>6, <1>7, <1>8, <1>9 DEF Writing

LEMMA WritingSyncDoc ==
  ASSUME TypeOK, ListInv, CallsInv, SentInv, FollowInv, Writing PROVE SyncDoc'
<1>1. Writes /\ Moves("sync")
  BY WritingWrites, WritingMoves DEF Threads
<1>2. CASE tmp' = Empty
  BY <1>2, ShapeEmpty DEF SyncDoc, Rooted, Named
<1>3. CASE Rewrites(tmp', tmp)
  <2>1. UNCHANGED supp /\ (pc' = "apply" => pc = "apply") /\ (Rooted(tmp') => Rooted(tmp))
    BY <1>1, <1>3, RewritesPlaces DEF Writes, Rooted
  <2> SUFFICES ASSUME call'["sync"].state \in Working
               PROVE  /\ DOMAIN tmp' = {} \/ Here(tmp', call'["sync"].node, call'["sync"].doc)
                      /\ pc' = "apply" /\ Rooted(tmp') => OfThisSync(call'["sync"].doc)
    BY <2>1 DEF SyncDoc, OfThisSync
  <2>2. CASE Ongoing
    <3>1. /\ DOMAIN tmp = {} \/ Here(tmp, call'["sync"].node, call'["sync"].doc)
          /\ pc = "apply" /\ Rooted(tmp) => OfThisSync(call'["sync"].doc)
      BY <2>2 DEF Ongoing, FollowInv, SyncDoc
    <3> QED BY <1>3, <2>1, <3>1 DEF Rewrites, Here, OfThisSync
  <2>3. CASE SendDoc
    <3>1. PICK a \in Applicable, n \in DOMAIN tmp, s \in {"sent", "unsent"} :
               /\ n \in Pointer(tmp, mp[a].name)
               /\ call' = [call EXCEPT !["sync"] = [doc |-> mp[a].name, node |-> n,
                             version |-> mp[a].version, known |-> 0, trans |-> NoTrans, state |-> s]]
      BY <2>3, SendDocEdits
    <3>2. call'["sync"].doc = mp[a].name /\ call'["sync"].node = n /\ tmp[n].name = mp[a].name
      BY <3>1, ApplicableNode DEF TypeOK, Threads
    <3>3. Here(tmp', call'["sync"].node, call'["sync"].doc)
      BY <1>3, <3>2 DEF Rewrites, Here
    <3>4. ASSUME Rooted(tmp) PROVE OfThisSync(mp[a].name)
      <4>1. PICK k \in Pointer(tmp, mp[a].name) : k # Null /\ tmp[k].status = "pending_apply"
        BY DEF Applicable
      <4>2. k \in DOMAIN tmp /\ tmp[k].name = mp[a].name /\ a \in DOMAIN mp
        BY <4>1, PointerType DEF Applicable
      <4>3. Named(mp, tmp[k].name) # {} /\ pc = "apply"
        BY <2>3, <4>2 DEF Named, SendDoc
      <4>4. InLoop(k)
        BY <3>4, <4>1, <4>2, <4>3 DEF SentInv, NewInLoop
      <4> QED BY <4>2, <4>4 DEF InLoop
    <3> QED BY <2>1, <3>2, <3>3, <3>4 DEF OfThisSync
  <2>4. CASE RetryNext
    <3>1. pc' = "retry"
      BY <2>4 DEF RetryNext
    <3>2. CASE GoesOnAt("sync")
      <4>1. DOMAIN tmp = {} \/ Here(tmp, call'["sync"].node, call'["sync"].doc)
        BY <3>2 DEF GoesOnAt, FollowInv, SyncDoc
      <4> QED BY <1>3, <3>1, <4>1 DEF Rewrites, Here
    <3>3. CASE BeginsAt("sync")
      <4>1. call'["sync"].node \in DOMAIN tmp /\ tmp[call'["sync"].node].name = call'["sync"].doc
        BY <3>3 DEF BeginsAt, Front
      <4> QED BY <1>3, <3>1, <4>1 DEF Rewrites, Here
    <3> QED BY <1>1, <3>2, <3>3 DEF Moves
  <2> QED BY <2>2, <2>3, <2>4, WritingOngoing
<1> QED BY <1>1, <1>2, <1>3 DEF Writes

LEMMA WrittenFollows ==
  ASSUME NEW d \in Docs, NEW n, NEW V, Edits(tmp', tmp, n, d, V)
  PROVE  Follows(tmp) => Follows(tmp')
BY EditsFollows

LEMMA SetFailsFollows ==
  ASSUME TypeOK, ListInv, CallsInv, FollowInv, NEW code \in FailCodes, SetFails(code)
  PROVE  FollowStep
<1> DEFINE c == call["sync"]
           d == call["sync"].doc
<1>1. /\ Gives(tmp', tmp, c.node, d, c.version, "failed")
      /\ \/ /\ call' = [call EXCEPT !["sync"] = NoCall]
            /\ (Here(tmp, c.node, d) /\ IsPrimary(d) /\ ~supp /\ d # Root) => ~CheckRootUpdate(tmp')
         \/ CheckRootUpdate(tmp') /\ Goes("sync", "rooted")
  BY SetFailsGives
<1>2. pc = "apply" /\ c.state \in Working /\ c.state \in {"sent", "unsent"} /\ UNCHANGED etag
  BY DEF SetFails, MayFail, Working
<1>3. "sync" \in Threads /\ d \in Docs /\ d # Root
  BY <1>2, DocsAssumption DEF CallsInv, CallNamed, CallState, Threads
<1>4. /\ DOMAIN tmp = {} \/ Here(tmp, c.node, d)
      /\ Rooted(tmp) => OfThisSync(d)
  BY <1>2 DEF FollowInv, SyncDoc
<1>5. DOMAIN tmp' = DOMAIN tmp /\ \A a \in DOMAIN tmp : tmp'[a].name = tmp[a].name
  BY <1>1 DEF Gives
<1>6. CASE CheckRootUpdate(tmp') /\ Goes("sync", "rooted")
  <2>1. etag # 0
    BY <1>5, <1>6, CountedPrimary DEF FollowInv, EtagKnown
  <2> QED BY <1>2, <1>3, <1>6, <2>1, GoesRooted
<1>7. CASE /\ call' = [call EXCEPT !["sync"] = NoCall]
           /\ (Here(tmp, c.node, d) /\ IsPrimary(d) /\ ~supp /\ d # Root) => ~CheckRootUpdate(tmp')
  <2>1. Follows(tmp) => Follows(tmp')
    <3>1. CASE DOMAIN tmp = {}
      BY <1>5, <3>1, FollowsEmpty
    <3>2. CASE ~IsPrimary(d)
      BY <1>1, <1>3, <3>2, GivesSuppFollows
    <3>3. CASE Here(tmp, c.node, d) /\ IsPrimary(d) /\ ~supp
      BY <1>3, <1>7, <3>3 DEF Follows
    <3>4. CASE IsPrimary(d) /\ supp
      <4>1. ~Rooted(tmp)
        BY <1>4, <3>4 DEF OfThisSync
      <4>2. Named(tmp', Root) = {}
        BY <1>5, <4>1 DEF Rooted, Named
      <4> QED BY <4>2 DEF Follows
    <3> QED BY <1>4, <3>1, <3>2, <3>3, <3>4
  <2>2. ~HandAt("sync") /\ NoCall.state \notin {"rooted", "rootdb"}
    BY <1>2 DEF HandAt, NoCall
  <2> QED BY <1>2, <1>3, <1>7, <2>1, <2>2, CallPlain
<1> QED BY <1>1, <1>6, <1>7

LEMMA StoringFollows ==
  ASSUME TypeOK, ListInv, CallsInv, FollowInv, Storing PROVE FollowStep
<1>1. UNCHANGED <<tmp, etag>> /\ "sync" \in Threads
  BY DEF Storing, Refresh, StoreRoot, LoopRecords, Threads
<1>2. Follows(tmp) => Follows(tmp')
  BY <1>1
<1>3. CASE Refresh
  <2>1. PICK v : call' = [call EXCEPT !["sync"] =
                            [NoCall EXCEPT !.version = v, !.state = "derived"]]
    BY <1>3 DEF Refresh
  <2> DEFINE r == [NoCall EXCEPT !.version = v, !.state = "derived"]
  <2>2. r.state \notin {"rooted", "rootdb"} /\ call' = [call EXCEPT !["sync"] = r]
    BY <2>1 DEF NoCall
  <2> HIDE DEF r
  <2>3. ~HandAt("sync")
    BY <1>3 DEF Refresh, HandAt, NoCall
  <2> QED BY <1>1, <1>2, <2>2, <2>3, CallPlain
<1>4. CASE StoreRoot \/ LoopRecords
  <2>1. ~HandAt("sync")
    BY <1>4 DEF StoreRoot, LoopRecords, HandAt
  <2>2. PICK s \in {"none", "save", "drop"} : Goes("sync", s)
    BY <1>4 DEF StoreRoot, LoopRecords, Passed
  <2> QED BY <1>1, <1>2, <2>1, <2>2, GoesPlain
<1> QED BY <1>3, <1>4 DEF Storing

LEMMA RecordStepFollows ==
  ASSUME TypeOK, ListInv, CallsInv, FollowInv, NEW p \in Threads, RecordStep(p)
  PROVE  FollowStep
<1>1. UNCHANGED etag
  BY DEF RecordStep, Mark, Record, RecordRoot, MarkRoot, Save, CheckDelete, DeleteTmpList,
     DeleteMultipart
<1>2. CASE Mark(p)
  <2>1. call[p].state \in {"valid", "refused"} /\ p # "sync" /\ call[p].doc \in Docs
    BY <1>2 DEF Mark, Working, CallsInv, CallState, CallNamed
  <2>2. p = "event" /\ ~HandAt(p) /\ call[p].doc # Root
    BY <2>1, DocsAssumption DEF HandAt, Threads
  <2>3. CASE /\ Gives(tmp', tmp, call[p].node, call[p].doc, call[p].version, "success")
             /\ Goes(p, "marked")
    <3>1. CASE IsPrimary(call[p].doc)
      <4>1. /\ call'[p] = [call[p] EXCEPT !.state = "marked"]
            /\ \A q \in Threads : q # p => call'[q] = call[q]
        BY <2>3, GoesNode
      <4>2. call'[p].doc = call[p].doc /\ call'[p].state = "marked"
        BY <4>1 DEF TypeOK, CallType
      <4>3. HandAt(p)'
        BY <2>2, <3>1, <4>2 DEF HandAt
      <4> QED BY <1>1, <4>1, <4>2, <4>3, InHandFollows
    <3>2. CASE ~IsPrimary(call[p].doc)
      <4>1. Follows(tmp) => Follows(tmp')
        BY <2>2, <2>3, <3>2, GivesSuppFollows
      <4> QED BY <1>1, <2>2, <2>3, <4>1, GoesPlain
    <3> QED BY <3>1, <3>2
  <2>4. CASE Edits(tmp', tmp, call[p].node, call[p].doc, {call[p].version}) /\ Goes(p, "none")
    <3>1. Follows(tmp) => Follows(tmp')
      BY <2>1, <2>4, WrittenFollows
    <3> QED BY <1>1, <2>2, <2>4, <3>1, GoesPlain
  <2> QED BY <1>2, <2>3, <2>4, MarkGives
<1>3. CASE Record(p)
  <2>1. UNCHANGED tmp
    BY <1>3 DEF Record
  <2>2. CASE Goes(p, "rooted") /\ CheckRootUpdate(tmp)
    <3>1. etag # 0
      BY <2>2, CountedPrimary DEF FollowInv, EtagKnown
    <3> QED BY <1>1, <2>2, <3>1, GoesRooted
  <2>3. CASE Goes(p, "save") /\ ~CheckRootUpdate(tmp)
    <3>1. Follows(tmp')
      BY <2>1, <2>3 DEF Follows
    <3>2. call'[p].state = "save" /\ \A q \in Threads : q # p => call'[q] = call[q]
      BY <2>3, GoesNode, GoesTo
    <3>3. RootKnown'
      BY <1>1, <3>2 DEF FollowInv, RootKnown
    <3> QED BY <3>1, <3>3 DEF FollowStep
  <2>4. CASE Goes(p, "saved") /\ ~IsPrimary(call[p].doc)
    <3>1. ~HandAt(p)
      BY <1>3, <2>4 DEF HandAt, Record
    <3> QED BY <1>1, <2>1, <2>4, <3>1, GoesPlain
  <2> QED BY <1>3, <2>2, <2>3, <2>4 DEF Record
<1>4. CASE RecordRoot(p)
  <2> DEFINE r == [call[p] EXCEPT !.version = etag, !.state = "rootdb"]
  <2>1. call' = [call EXCEPT ![p] = r]
    BY <1>4 DEF RecordRoot
  <2>2. r.version = etag /\ r.state = "rootdb"
    BY DEF TypeOK, CallType
  <2> HIDE DEF r
  <2>3. call'[p] = r /\ \A q \in Threads : q # p => call'[q] = call[q]
    BY <2>1 DEF TypeOK
  <2>4. etag # 0
    BY <1>4 DEF RecordRoot, FollowInv, RootKnown
  <2>5. HandAt(p)'
    BY <2>2, <2>3 DEF HandAt
  <2> QED BY <1>1, <2>2, <2>3, <2>4, <2>5, InHandFollows
<1>5. CASE MarkRoot(p)
  <2>1. call[p].version \in Nat /\ call[p].version # 0
    <3>1. call[p].state = "rootdb" /\ call[p] \in CallType
      BY <1>5 DEF MarkRoot, TypeOK
    <3> QED BY <3>1 DEF FollowInv, RootKnown, CallType
  <2>2. Follows(tmp')
    BY <1>5, <2>1, RootFollowsMark DEF MarkRoot
  <2>3. PICK s \in {"save", "saved"} : Goes(p, s)
    BY <1>5 DEF MarkRoot
  <2>4. call'[p].state \in {"save", "saved"} /\ \A q \in Threads : q # p => call'[q] = call[q]
    BY <2>3, GoesNode, GoesTo
  <2>5. RootKnown'
    BY <1>1, <2>4 DEF FollowInv, RootKnown
  <2> QED BY <2>2, <2>5 DEF FollowStep
<1>6. CASE Save(p) \/ CheckDelete(p) \/ DeleteTmpList(p) \/ DeleteMultipart(p)
  <2>1. PICK s \in {"none", "save", "saved", "drop", "free"} : Goes(p, s)
    BY <1>6 DEF Save, CheckDelete, DeleteTmpList, DeleteMultipart, AfterDelete
  <2>2. ~HandAt(p)
    BY <1>6 DEF Save, CheckDelete, DeleteTmpList, DeleteMultipart, HandAt
  <2>3. UNCHANGED tmp \/ tmp' = Empty
    BY <1>6 DEF Save, CheckDelete, DeleteTmpList, DeleteMultipart
  <2>4. Follows(tmp) => Follows(tmp')
    BY <2>3, ShapeEmpty, FollowsEmpty
  <2> QED BY <1>1, <2>1, <2>2, <2>4, GoesPlain
<1> QED BY <1>2, <1>3, <1>4, <1>5, <1>6 DEF RecordStep

LEMMA ResendsFollows ==
  ASSUME TypeOK, ListInv, CallsInv, FollowInv, NEW p \in Threads, Resends(p)
  PROVE  FollowStep
<1>1. UNCHANGED etag /\ call[p].state \in Working /\ call[p].state \in {"check", "sent", "unsent"}
  BY DEF Resends, RetrySend, RetrySucceeds, RetryFails, MayFail, Working
<1>2. call[p].doc \in Docs /\ ~HandAt(p)
  BY <1>1 DEF CallsInv, CallState, CallNamed, HandAt
<1>3. NoCall.state \notin {"rooted", "rootdb"}
  BY DEF NoCall
<1>4. CASE RetrySend(p)
  <2> DEFINE V == {call[p].known} \cup {mp[a].version : a \in Named(mp, call[p].doc)}
             r(a, s) == [doc |-> call[p].doc, node |-> call[p].node, version |-> mp[a].version,
                         known |-> call[p].known, trans |-> NoTrans, state |-> s]
  <2>1. /\ p = "event" => call[p].known \in V
        /\ \A a \in Named(mp, call[p].doc) : mp[a].version \in V
    OBVIOUS
  <2> HIDE DEF V
  <2>2. /\ Edits(tmp', tmp, call[p].node, call[p].doc, V)
        /\ \/ call' = [call EXCEPT ![p] = NoCall]
           \/ \E a, s : s \in {"sent", "unsent"} /\ call' = [call EXCEPT ![p] = r(a, s)]
    BY <1>4, <2>1, RetrySendEdits
  <2>3. \A a, s : r(a, s).state = s
    OBVIOUS
  <2> HIDE DEF r
  <2>4. Follows(tmp) => Follows(tmp')
    BY <1>2, <2>2, WrittenFollows
  <2>5. ASSUME NEW a, NEW s \in {"sent", "unsent"}, call' = [call EXCEPT ![p] = r(a, s)]
        PROVE  FollowStep
    <3>1. r(a, s).state \notin {"rooted", "rootdb"}
      BY <2>3, <2>5
    <3> QED BY <1>1, <1>2, <2>4, <2>5, <3>1, CallPlain
  <2>6. CASE call' = [call EXCEPT ![p] = NoCall]
    BY <1>1, <1>2, <1>3, <2>4, <2>6, CallPlain
  <2> QED BY <2>2, <2>5, <2>6
<1>5. CASE RetrySucceeds(p)
  <2>1. CASE call[p].doc \in ScalarDocs
    BY <1>1, <1>5, <2>1, AppliedFollows DEF RetrySucceeds
  <2>2. CASE call[p].doc \notin ScalarDocs
    <3>1. Goes(p, "none") /\ UNCHANGED tmp
      BY <1>5, <2>2 DEF RetrySucceeds
    <3> QED BY <1>1, <1>2, <3>1, GoesPlain
  <2> QED BY <2>1, <2>2
<1>6. ASSUME NEW code \in FailCodes, RetryFails(p, code) PROVE FollowStep
  <2>1. Edits(tmp', tmp, call[p].node, call[p].doc, {call[p].known, call[p].version})
    BY <1>6, RetryFailsEdits
  <2>2. Follows(tmp) => Follows(tmp')
    BY <1>2, <2>1, WrittenFollows
  <2> QED BY <1>1, <1>2, <1>3, <1>6, <2>2, CallPlain DEF RetryFails
<1> QED BY <1>4, <1>5, <1>6 DEF Resends

LEMMA WritingFollows ==
  ASSUME TypeOK, ListInv, CallsInv, FollowInv, Writing PROVE FollowStep
<1>1. UNCHANGED etag /\ "sync" \in Threads /\ "event" \in Threads
  BY WritingWrites DEF Writes, Threads
<1>2. \A p \in Threads : call[p] = NoCall => ~HandAt(p)
  BY DEF HandAt, NoCall
<1>3. CASE SendDoc
  <2>1. PICK a \in Applicable, n \in DOMAIN tmp, s \in {"sent", "unsent"} :
             /\ Edits(tmp', tmp, n, mp[a].name, {mp[a].version})
             /\ call' = [call EXCEPT !["sync"] = [doc |-> mp[a].name, node |-> n,
                           version |-> mp[a].version, known |-> 0, trans |-> NoTrans, state |-> s]]
    BY <1>3, SendDocEdits
  <2> DEFINE r == [doc |-> mp[a].name, node |-> n, version |-> mp[a].version, known |-> 0,
                   trans |-> NoTrans, state |-> s]
  <2>2. mp[a].name \in Docs
    BY DEF Applicable, TypeOK, PartType
  <2>3. Follows(tmp) => Follows(tmp')
    BY <2>1, <2>2, WrittenFollows
  <2>4. r.state \notin {"rooted", "rootdb"} /\ call' = [call EXCEPT !["sync"] = r]
    BY <2>1
  <2> HIDE DEF r
  <2>5. call["sync"] = NoCall
    BY <1>3 DEF SendDoc
  <2> QED BY <1>1, <1>2, <2>3, <2>4, <2>5, CallPlain
<1>4. CASE DecodeFails
  <2>1. PICK a \in Applicable, n \in DOMAIN tmp : Edits(tmp', tmp, n, mp[a].name, {mp[a].version})
    BY <1>4, DecodeFailsEdits
  <2>2. mp[a].name \in Docs
    BY DEF Applicable, TypeOK, PartType
  <2>3. Follows(tmp) => Follows(tmp')
    BY <2>1, <2>2, WrittenFollows
  <2> QED BY <1>1, <1>4, <2>3, SameCallPlain DEF DecodeFails
<1>5. CASE SetSucceeds
  <2>1. call["sync"].state = "sent"
    BY <1>5 DEF SetSucceeds
  <2>2. CASE call["sync"].doc \in ScalarDocs
    BY <1>1, <1>5, <2>1, <2>2, AppliedFollows DEF SetSucceeds
  <2>3. CASE call["sync"].doc \notin ScalarDocs
    <3>1. UNCHANGED tmp
      BY <1>5, <2>3 DEF SetSucceeds
    <3>2. PICK s \in {"none", "drop"} : Goes("sync", s)
      BY <1>5, <2>3 DEF SetSucceeds, Passed
    <3>3. ~HandAt("sync")
      BY <2>1 DEF HandAt
    <3> QED BY <1>1, <3>1, <3>2, <3>3, GoesPlain
  <2> QED BY <2>2, <2>3
<1>6. CASE RetryNext
  <2>1. PICK a \in Retryable : Retry("sync", a, tmp[a].name, 0)
    BY <1>6 DEF RetryNext
  <2>2. a \in DOMAIN tmp /\ tmp[a].code # 0
    BY DEF Retryable, Crash, NotThere
  <2>3. tmp[a].name \in Docs
    BY <2>2 DEF TypeOK, NodeType, CallsInv, RootClean
  <2>4. /\ Edits(tmp', tmp, a, tmp[a].name, {})
        /\ \/ UNCHANGED call
           \/ call' = [call EXCEPT !["sync"] = Begun(a, tmp[a].name, 0)]
    BY <2>1, RetryEdits
  <2>5. Follows(tmp) => Follows(tmp')
    BY <2>3, <2>4, WrittenFollows
  <2>6. Begun(a, tmp[a].name, 0).state \notin {"rooted", "rootdb"}
    BY DEF Begun, NoCall
  <2>7. call["sync"] = NoCall
    BY <1>6 DEF RetryNext
  <2> QED BY <1>1, <1>2, <2>4, <2>5, <2>6, <2>7, CallPlain, SameCallPlain
<1>7. CASE HandleEvent
  <2> DEFINE e == Head(events)
  <2>1. e \in EventType /\ call["event"] = NoCall
    BY <1>7, HandleEventKeeps
  <2>2. PICK n : /\ \E V : Edits(tmp', tmp, n, e.doc, V)
                 /\ \/ UNCHANGED call
                    \/ call' = [call EXCEPT !["event"] = Begun(n, e.doc, TmpVersion(n))]
                    \/ \E s \in {"valid", "refused"} :
                         call' = [call EXCEPT !["event"] = Settling(e, n, s)]
    BY <1>7, HandleEventKeeps
  <2>3. e.doc \in Docs
    BY <2>1 DEF EventType
  <2> HIDE DEF e
  <2>4. Follows(tmp) => Follows(tmp')
    BY <2>2, <2>3, WrittenFollows
  <2>5. /\ Begun(n, e.doc, TmpVersion(n)).state \notin {"rooted", "rootdb"}
        /\ \A s \in {"valid", "refused"} : Settling(e, n, s).state \notin {"rooted", "rootdb"}
    BY DEF Begun, NoCall, Settling
  <2>6. CASE UNCHANGED call
    BY <1>1, <2>4, <2>6, SameCallPlain
  <2>7. CASE call' = [call EXCEPT !["event"] = Begun(n, e.doc, TmpVersion(n))]
    BY <1>1, <1>2, <2>1, <2>4, <2>5, <2>7, CallPlain
  <2>8. ASSUME NEW s \in {"valid", "refused"}, call' = [call EXCEPT !["event"] = Settling(e, n, s)]
        PROVE  FollowStep
    BY <1>1, <1>2, <2>1, <2>4, <2>5, <2>8, CallPlain
  <2> QED BY <2>2, <2>6, <2>7, <2>8
<1> QED BY <1>3, <1>4, <1>5, <1>6, <1>7, SetFailsFollows, StoringFollows, RecordStepFollows,
        ResendsFollows DEF Writing

LEMMA AddToTmpListFollows ==
  ASSUME TypeOK, ListInv, SentInv, FollowInv, AddToTmpList PROVE FollowInv'
<1>1. UNCHANGED <<call, etag, supp, mp>> /\ call["sync"] = NoCall /\ pc' = "apply"
  BY DEF AddToTmpList, ListInv, CallPlace
<1>2. SyncDoc' /\ RootKnown'
  BY <1>1 DEF SyncDoc, NoCall, Working, RootKnown, FollowInv
<1>3. EtagKnown'
  <2>1. \A a \in DOMAIN tmp' : \/ a \in DOMAIN tmp /\ tmp'[a].name = tmp[a].name
                               \/ tmp'[a].name = Root
                               \/ a \in DOMAIN mp /\ tmp'[a].name = mp[a].name
    <3>1. /\ Rewrites(Refreshed, tmp)
          /\ DOMAIN Remaining \subseteq DOMAIN tmp
          /\ \A a \in DOMAIN Remaining : Remaining[a] = Refreshed[a] /\ tmp'[a] = Remaining[a]
          /\ DOMAIN tmp' = DOMAIN Remaining \cup NewParts
                            \cup (IF Remaining = Empty /\ mp # Empty THEN {0} ELSE {})
          /\ Remaining = Empty /\ mp # Empty => tmp'[0] = Node(Root, RootVersion, "pending")
          /\ \A b \in NewParts : b \notin DOMAIN Remaining =>
               tmp'[b] = Node(mp[b].name, mp[b].version, "pending_apply")
      BY AddToTmpListLists
    <3>2. \A a \in DOMAIN Remaining : a \in DOMAIN tmp /\ tmp'[a].name = tmp[a].name
      BY <3>1 DEF Rewrites
    <3>3. ASSUME NEW a \in NewParts, a \notin DOMAIN Remaining
          PROVE  a \in DOMAIN mp /\ tmp'[a].name = mp[a].name
      <4>1. tmp'[a] = Node(mp[a].name, mp[a].version, "pending_apply")
        BY <3>1, <3>3
      <4> QED BY <4>1 DEF NewParts, Node
    <3>4. Remaining = Empty /\ mp # Empty => tmp'[0].name = Root
      BY <3>1 DEF Node
    <3> QED BY <3>1, <3>2, <3>3, <3>4
  <2> QED BY <1>1, <2>1 DEF FollowInv, EtagKnown
<1>4. CASE InHand
  <2>1. InHand'
    BY <1>1, <1>4 DEF InHand, HandAt
  <2> QED BY <1>2, <1>3, <2>1 DEF FollowInv
<1>5. ASSUME Follows(tmp) PROVE Follows(tmp')
  <2> SUFFICES ASSUME CheckRootUpdate(tmp'), Rooted(tmp'),
                      {tmp'[a].name : a \in Subdocs(tmp')} \cap ScalarDocs \subseteq SuppDocs
               PROVE  \A a \in Named(tmp', Root) : tmp'[a].status = "success"
    BY DEF Follows, Rooted
  <2>1. /\ \A a \in DOMAIN tmp' :
              \/ /\ a = 0 /\ tmp'[a].name = Root
                 /\ supp /\ Rooted(tmp) => tmp'[a] = tmp[a]
              \/ /\ a \in NewParts /\ tmp'[a].name = mp[a].name
                 /\ tmp'[a].status = "pending_apply" /\ tmp'[a].code = 0
              \/ /\ a \in DOMAIN tmp /\ a \notin NewParts /\ Rooted(tmp)
                 /\ tmp'[a] = tmp[a] /\ ~OfThisSync(tmp[a].name)
                 /\ tmp[a].name # Root
        /\ Rooted(tmp) => \A a \in DOMAIN tmp : ~OfThisSync(tmp[a].name) => a \in DOMAIN tmp'
    BY AddToTmpListNodes
  <2>2. /\ \E a \in Subdocs(tmp') : ~Skipped(tmp'[a])
        /\ \A a \in Subdocs(tmp') : ~Skipped(tmp'[a]) => tmp'[a].status = "success"
    BY DEF CheckRootUpdate, AllSuccess
  <2>3. \A b \in NewParts : mp[b].name \in Docs /\ mp[b].name # Root /\ OfThisSync(mp[b].name)
    BY DocsAssumption DEF NewParts, TypeOK, PartType
  <2>4. supp
    <3> SUFFICES ASSUME ~supp PROVE FALSE
      OBVIOUS
    <3>1. PICK a \in Subdocs(tmp') : ~Skipped(tmp'[a])
      BY <2>2
    <3>2. IsPrimary(tmp'[a].name) /\ tmp'[a].name # Root /\ a \in DOMAIN tmp'
      BY <3>1 DEF Skipped, Subdocs
    <3>3. a \in NewParts /\ tmp'[a].status = "pending_apply"
      BY <2>1, <3>2 DEF OfThisSync
    <3> QED BY <2>2, <3>1, <3>3
  <2>5. \A a \in Subdocs(tmp') : IsPrimary(tmp'[a].name) =>
          a \in DOMAIN tmp /\ tmp'[a] = tmp[a] /\ Rooted(tmp)
    BY <2>1, <2>3, <2>4 DEF OfThisSync, Subdocs
  <2>6. Rooted(tmp)
    BY <2>2, <2>5 DEF Skipped
  <2>7. \A a \in DOMAIN tmp : IsPrimary(tmp[a].name) => a \in DOMAIN tmp'
    BY <2>1, <2>4, <2>6 DEF OfThisSync
  <2>8. \A a \in Subdocs(tmp) : IsPrimary(tmp[a].name) =>
          a \in Subdocs(tmp') /\ tmp'[a] = tmp[a]
    <3> SUFFICES ASSUME NEW a \in DOMAIN tmp, tmp[a].name # Root, IsPrimary(tmp[a].name)
                 PROVE  a \in Subdocs(tmp') /\ tmp'[a] = tmp[a]
      BY DEF Subdocs
    <3>1. a \in DOMAIN tmp' /\ a # 0 /\ a \notin NewParts
      <4>1. a # 0
        BY DEF ListInv, Shape
      <4>2. \A b \in NewParts : b \notin DOMAIN tmp
        <5>1. \A b \in NewParts : b \in 1..top /\ \A k \in DOMAIN tmp : k < b
          BY DEF AddToTmpList, ListInv, Ahead, NewParts, TypeOK
        <5> QED BY <5>1, TypeList
      <4> QED BY <2>7, <4>1, <4>2
    <3> QED BY <2>1, <3>1 DEF Subdocs
  <2>9. CheckRootUpdate(tmp)
    <3>1. \A a \in Subdocs(tmp') : ~Skipped(tmp'[a]) => a \in Subdocs(tmp) /\ tmp'[a] = tmp[a]
      BY <2>5 DEF Skipped, Subdocs
    <3>2. \A a \in Subdocs(tmp) : ~Skipped(tmp[a]) => a \in Subdocs(tmp') /\ tmp'[a] = tmp[a]
      BY <2>8 DEF Skipped
    <3>3. /\ \E a \in Subdocs(tmp) : ~Skipped(tmp[a])
          /\ \A a \in Subdocs(tmp) : ~Skipped(tmp[a]) => tmp[a].status = "success"
      BY <2>2, <3>1, <3>2
    <3> QED BY <3>3 DEF CheckRootUpdate, AllSuccess
  <2>10. {tmp[a].name : a \in Subdocs(tmp)} \cap ScalarDocs \subseteq SuppDocs
    <3> SUFFICES ASSUME NEW a \in Subdocs(tmp), tmp[a].name \in ScalarDocs, IsPrimary(tmp[a].name)
                 PROVE  FALSE
      BY DEF IsPrimary
    <3>1. a \in Subdocs(tmp') /\ tmp'[a] = tmp[a]
      BY <2>8
    <3> QED BY <3>1 DEF IsPrimary
  <2>11. \A a \in Named(tmp, Root) : tmp[a].status = "success"
    BY <1>5, <2>9, <2>10 DEF Follows
  <2>12. \A a \in Named(tmp', Root) : a \in Named(tmp, Root) /\ tmp'[a] = tmp[a]
    <3> SUFFICES ASSUME NEW a \in DOMAIN tmp', tmp'[a].name = Root
                 PROVE  a \in Named(tmp, Root) /\ tmp'[a] = tmp[a]
      BY DEF Named
    <3>1. a = 0 /\ tmp'[a] = tmp[a]
      BY <2>1, <2>3, <2>4, <2>6
    <3>2. 0 \in DOMAIN tmp
      BY <2>6 DEF Rooted, Named, ListInv, Shape
    <3> QED BY <3>1, <3>2 DEF Named
  <2> QED BY <2>11, <2>12
<1> QED BY <1>2, <1>3, <1>4, <1>5 DEF FollowInv

\* Releasing what has been applied leaves root only while it is not, and then
\* no document that has been applied.
LEMMA ReleaseFollows ==
  ASSUME TypeOK, ListInv, FollowInv, ReleaseSuccessDocs PROVE FollowInv'
<1> DEFINE S == {a \in DOMAIN tmp : tmp[a].status = "success"}
<1>1. tmp' = DeleteEach(tmp, S) /\ UNCHANGED <<mp, syncing, loop, call>> /\ pc = "idle"
  BY DEF ReleaseSuccessDocs
<1>2. DOMAIN tmp' \subseteq DOMAIN tmp /\ \A a \in DOMAIN tmp' : tmp'[a] = tmp[a]
  BY <1>1, DeleteEachType, TypeList
<1>3. EtagKnown' /\ SyncDoc' /\ RootKnown'
  <2>1. call["sync"] = NoCall
    BY <1>1 DEF ListInv, CallPlace
  <2> QED BY <1>1, <1>2, <2>1 DEF FollowInv, EtagKnown, SyncDoc, RootKnown, NoCall, Working
<1>4. Follows(tmp')
  <2> SUFFICES ASSUME CheckRootUpdate(tmp'), NEW r \in Named(tmp', Root), r \notin S
               PROVE  FALSE
    BY <1>2 DEF Follows, Named
  <2>1. r = 0 /\ r \in DOMAIN tmp
    BY <1>2 DEF Named, ListInv, Shape
  <2>2. \A a \in S : ~IsLeast(a, DOMAIN tmp)
    <3> SUFFICES ASSUME NEW a \in S, a <= 0 PROVE FALSE
      BY <2>1 DEF IsLeast
    <3>1. a \in Nat
      BY TypeList
    <3> QED BY <2>1, <3>1
  <2>3. DOMAIN tmp' = DOMAIN tmp \ S
    BY <1>1, <2>2 DEF DeleteEach, Only
  <2>4. PICK a \in Subdocs(tmp') : tmp'[a].status = "success"
    BY DEF CheckRootUpdate, AllSuccess
  <2> QED BY <1>2, <2>3, <2>4 DEF Subdocs
<1> QED BY <1>3, <1>4 DEF FollowInv

LEMMA ParseFollows == ASSUME TypeOK, ListInv, SentInv, FollowInv, Parse PROVE FollowInv'
<1> DEFINE bundle == cloud[Len(cloud)]
           kept == {a \in DOMAIN mp : ~OfThisSync(mp[a].name)}
           new == [a \in (top + 1)..(top + Len(bundle)) |-> bundle[a - top]]
<1>1. /\ pc = "received" /\ pc' \in {"idle", "parsed"} /\ UNCHANGED <<tmp, etag, supp, call>>
      /\ mp' = Join(Only(mp, kept), new)
  BY DEF Parse
<1>2. Len(bundle) \in Nat /\ top \in Nat
  <2>1. cloud \in Seq(Bundles) /\ cloud # <<>>
    BY <1>1 DEF TypeOK
  <2>2. bundle \in Bundles
    BY <2>1
  <2> HIDE DEF bundle
  <2>3. bundle \in Seq([name : Docs, version : Nat \ {0}, ok : BOOLEAN])
    BY <2>2, BundlesAssumption
  <2> QED BY <2>3 DEF TypeOK
<1>3. \A i \in 1..Len(bundle) : OfThisSync(bundle[i].name)
  BY <1>1 DEF SentInv, Names, Received
<1> HIDE DEF bundle
<1>4. \A a \in DOMAIN mp' :
        \/ a \in kept /\ mp'[a] = mp[a]
        \/ a - top \in 1..Len(bundle) /\ mp'[a] = bundle[a - top]
  BY <1>1, <1>2 DEF Join, Only
<1>5. \A a \in DOMAIN mp' : IsPrimary(mp'[a].name) => etag # 0
  <2> SUFFICES ASSUME NEW a \in DOMAIN mp', IsPrimary(mp'[a].name) PROVE etag # 0
    OBVIOUS
  <2>1. CASE a \in kept /\ mp'[a] = mp[a]
    BY <2>1 DEF FollowInv, EtagKnown
  <2>2. CASE a - top \in 1..Len(bundle) /\ mp'[a] = bundle[a - top]
    BY <1>1, <1>3, <2>2 DEF FollowInv, EtagKnown, OfThisSync
  <2> QED BY <1>4, <2>1, <2>2
<1>6. call["sync"] = NoCall
  BY <1>1 DEF ListInv, CallPlace
<1> QED BY <1>1, <1>5, <1>6 DEF FollowInv, EtagKnown, SyncDoc, RootKnown, InHand, HandAt,
        NoCall, Working

LEMMA QuietFollows == ASSUME TypeOK, ListInv, FollowInv, Quiet PROVE FollowInv'
<1>1. UNCHANGED <<tmp, mp, call>>
  BY QuietLists
<1>2. SyncDoc' /\ (InHand \/ Follows(tmp))'
  <2>1. (InHand \/ Follows(tmp))'
    BY <1>1 DEF FollowInv, InHand, HandAt
  <2>2. CASE call["sync"] = NoCall
    BY <1>1, <2>1, <2>2 DEF SyncDoc, NoCall, Working
  <2>3. CASE call["sync"] # NoCall
    <3>1. UNCHANGED <<pc, supp>>
      BY <2>3, QuietLists DEF ListInv, CallPlace
    <3> QED BY <1>1, <2>1, <3>1 DEF SyncDoc, FollowInv, OfThisSync
  <2> QED BY <2>2, <2>3
<1>3. CASE \E b \in Bundles : Fetch(b)
  <2>1. PICK b \in Bundles : Fetch(b)
    BY <1>3
  <2>2. Len(cloud') # 0 /\ Len(cloud') \in Nat
    <3>1. cloud \in Seq(Bundles) /\ cloud' = Append(cloud, b)
      BY <2>1 DEF TypeOK, Fetch
    <3> QED BY <3>1
  <2>3. IF supp' THEN etag' = etag ELSE etag' = Len(cloud')
    BY <2>1 DEF Fetch
  <2>4. EtagKnown'
    BY <1>1, <2>2, <2>3 DEF FollowInv, EtagKnown
  <2>5. RootKnown'
    BY <1>1, <2>2, <2>3 DEF FollowInv, RootKnown
  <2> QED BY <1>2, <2>4, <2>5 DEF FollowInv
<1>4. CASE ~\E b \in Bundles : Fetch(b)
  <2>1. UNCHANGED <<etag, supp>> /\ (pc' = "received" => pc = "received")
    <3>1. CASE NoBundle \/ ParseFails \/ EndLoop \/ StartFailedDocsRetry \/ NotYetDue \/ EndFailedDocsRetry
      BY <3>1 DEF NoBundle, ParseFails, EndLoop, StartFailedDocsRetry, NotYetDue, EndFailedDocsRetry
    <3>2. CASE TimerStep
      BY <3>2 DEF TimerStep, TimerExpires, TimerCheck
    <3>3. CASE ComponentStep
      BY <3>3 DEF ComponentStep, ComponentAccepts, ComponentRefuses, ComponentNeedsTime,
         ComponentRestarts
    <3>4. CASE UNCHANGED vars
      BY <3>4 DEF vars
    <3> QED BY <1>4, <3>1, <3>2, <3>3, <3>4 DEF Quiet
  <2> QED BY <1>1, <1>2, <2>1 DEF FollowInv, EtagKnown, RootKnown
<1> QED BY <1>3, <1>4

LEMMA NextFollows ==
  ASSUME TypeOK, ListInv, CallsInv, SentInv, FollowInv, [Next]_vars PROVE FollowInv'
<1>1. CASE Writing
  BY <1>1, WritingEtag, WritingSyncDoc, WritingFollows DEF FollowInv, FollowStep
<1> QED BY <1>1, NextSplit, QuietFollows, ParseFollows, AddToTmpListFollows, ReleaseFollows

LEMMA InitFollows == Init => FollowInv
<1> SUFFICES ASSUME Init PROVE FollowInv
  OBVIOUS
<1>1. tmp = Empty /\ mp = Empty /\ pc = "idle" /\ \A p \in Threads : call[p] = NoCall
  BY DEF Init
<1>2. \A p \in Threads : call[p].state = "none"
  BY <1>1 DEF NoCall
<1> QED BY <1>1, <1>2, ShapeEmpty, FollowsEmpty DEF FollowInv, EtagKnown, SyncDoc, RootKnown, Working, Threads

\* Once all the primary documents that count are applied, root is too, or some
\* thread is about to say so, if no bundle names a document twice.
THEOREM RootFollowsCorrect == DistinctNames => (Spec => []RootFollows)
<1> SUFFICES ASSUME DistinctNames PROVE Spec => []RootFollows
  OBVIOUS
<1>1. Init => SentInv /\ FollowInv
  BY InitSent, InitFollows
<1>2. TypeOK /\ ListInv /\ CallsInv /\ (SentInv /\ FollowInv) /\ [Next]_vars
        => (SentInv /\ FollowInv)'
  BY NextSent, NextFollows
<1>3. SentInv /\ FollowInv => RootFollows
  BY DEF FollowInv, Follows, RootFollows, InHand, HandAt
<1> QED BY <1>1, <1>2, <1>3, TypeCorrect, ListInvariant, CallsInvariant, PTL DEF Spec

====
