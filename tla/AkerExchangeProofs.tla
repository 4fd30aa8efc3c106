------------------------- MODULE AkerExchangeProofs --------------------------
(***************************************************************************)
(* Proofs about AkerExchange, for any number of documents, checks and      *)
(* failures: type correctness, and that an aker document which counts as   *)
(* applied has been applied, as long as no answer was overtaken.           *)
(***************************************************************************)
EXTENDS AkerExchange, SequenceTheorems, TLAPS

Msg == [type : {"status"}, code : {"online", "offline"}, ver : {0}]
         \cup [type : {"result"}, code : Codes, ver : Versions]
Ev  == [ver : Versions, trans : Versions, status : {"ACK", "NACK"}]
Nodes == [ver : Versions, status : {"none", "pending", "failed", "success"}, trans : Versions]
Places == {"idle", "check", "await", "backoff", "apply", "version", "trans", "send", "flag"}

------------------------------------------------------------------------------
(* Type correctness, in parts.                                              *)

NodeType == node \in Nodes
MainType == /\ pc \in Places /\ docs \in Versions
            /\ tries \in 0..(IF pc = "send" THEN Sends - 1 ELSE Checks - 1)
WaitType == wake \in BOOLEAN /\ reply \in {"none", "online", "offline", "freed"}
SentType == sentVer \in Versions /\ sentTrans \in Versions /\ overtaken \in BOOLEAN
ClientType == flag \in BOOLEAN /\ fails \in 0..Failures + 1 /\ falseAlarm \in BOOLEAN
NetType == /\ asked \in 0..MaxAsked /\ blobs \subseteq Versions /\ applied \subseteq Versions
           /\ lost \subseteq Versions /\ inbox \in Seq(Msg)
RestType == /\ events \in Seq(Ev) /\ heard \subseteq Versions /\ client \in BOOLEAN
            /\ shutdown \in BOOLEAN

LEMMA Parts ==
  /\ TypeOK <=> /\ NodeType /\ MainType /\ WaitType /\ SentType /\ ClientType
                /\ NetType /\ RestType
  /\ NodeType' /\ MainType' /\ WaitType' /\ SentType' /\ ClientType'
       /\ NetType' /\ RestType' => TypeOK'
  BY DEF TypeOK, NodeType, MainType, WaitType, SentType, ClientType, NetType, RestType,
     Msg, Ev, Nodes, Places

LEMMA WaitKept == WaitType /\ UNCHANGED waitVars => WaitType'
  BY DEF WaitType, waitVars
LEMMA SentKept == SentType /\ UNCHANGED sentVars => SentType'
  BY DEF SentType, sentVars
LEMMA ClientKept == ClientType /\ UNCHANGED clientVars => ClientType'
  BY DEF ClientType, clientVars
LEMMA NetKept == NetType /\ UNCHANGED netVars => NetType'
  BY DEF NetType, netVars
LEMMA MainKept == MainType /\ UNCHANGED mainVars => MainType'
  BY DEF MainType, mainVars
LEMMA NodeKept == NodeType /\ node' = node => NodeType'
  BY DEF NodeType
LEMMA MainFrameKept == ClientType /\ RestType /\ MainFrame => ClientType' /\ RestType'
  BY ClientKept DEF MainFrame, RestType

\* A node with a version, and one that has failed.
LEMMA NodeTypes ==
  /\ \A v \in Versions, s \in {"none", "pending", "failed", "success"}, t \in Versions :
       Node(v, s, t) \in Nodes
  /\ \A n \in Nodes, s \in {"failed", "success"} :
       /\ [n EXCEPT !.status = "failed", !.trans = 0] \in Nodes
       /\ [n EXCEPT !.status = s] \in Nodes
<1>1. 0 \in Versions
  BY ConstantsAssumption DEF Versions
<1> QED
  BY <1>1 DEF Node, Nodes

LEMMA Numbers ==
  /\ 0 \in Versions /\ 0 \in 0..(Checks - 1) /\ 0 \in 0..(Sends - 1)
  /\ \A v \in Versions : v \in Nat
  BY ConstantsAssumption DEF Versions, Sends

LEMMA LeaveType == MainType /\ Leave => MainType'
  BY Numbers DEF MainType, Leave, Places

LEMMA NotReadyType ==
  ASSUME NodeType, MainType, pc # "send", NotReady
  PROVE  NodeType' /\ MainType'
<1>1. docs \in Versions /\ 0 \in Versions
  BY Numbers DEF MainType
<1>2. NodeType'
  BY <1>1, NodeTypes DEF NotReady, NodeType, Leave
<1>3. CASE tries = Checks - 1
  <2>1. Leave
    BY <1>3 DEF NotReady
  <2> QED
    BY <1>2, <2>1, LeaveType
<1>4. CASE tries # Checks - 1
  <2>1. pc' = "backoff" /\ tries' = tries + 1 /\ docs' = docs
    BY <1>4 DEF NotReady
  <2>2. tries \in 0..(Checks - 1) /\ docs \in Versions
    BY DEF MainType
  <2>3. tries' \in 0..(Checks - 1)
    BY <1>4, <2>1, <2>2, ConstantsAssumption
  <2> QED
    BY <1>2, <2>1, <2>2, <2>3 DEF MainType, Places
<1> QED
  BY <1>2, <1>3, <1>4

LEMMA InitType == Init => TypeOK
<1> SUFFICES ASSUME Init PROVE TypeOK
  OBVIOUS
<1>1. NodeType
  BY Numbers, NodeTypes DEF Init, NodeType
<1>2. MainType
  BY Numbers DEF Init, MainType, Places
<1>3. WaitType /\ SentType
  BY Numbers DEF Init, WaitType, SentType
<1>4. ClientType
  <2>1. 0 \in 0..Failures + 1
    BY ConstantsAssumption
  <2> QED
    BY <2>1 DEF Init, ClientType
<1>5. NetType
  <2>1. <<>> \in Seq(Msg) /\ 0 \in 0..MaxAsked
    BY ConstantsAssumption
  <2> QED
    BY <2>1 DEF Init, NetType
<1>6. RestType
  <2>1. <<>> \in Seq(Ev)
    OBVIOUS
  <2> QED
    BY <2>1 DEF Init, RestType
<1> QED
  BY <1>1, <1>2, <1>3, <1>4, <1>5, <1>6, Parts

\* One counter counts the checks of aker and then the sends; in between it is zero.
Counted == pc \in {"apply", "version", "trans"} => tries = 0

LEMMA NextCounted == Counted /\ [Next]_vars => Counted'
<1> SUFFICES ASSUME Counted, [Next]_vars PROVE Counted'
  OBVIOUS
<1>1. CASE Document \/ Ask \/ Awake \/ AwaitTimesOut \/ Backoff
  BY <1>1 DEF Document, Ask, Awake, AwaitTimesOut, Backoff, NotReady, Ready, Leave, Counted
<1>2. CASE Apply \/ SetVersion \/ SetTrans \/ SendBlob \/ SendFails \/ SetFlag
  BY <1>2 DEF Apply, SetVersion, SetTrans, SendBlob, SendFails, SetFlag, Leave, Counted
<1>3. CASE ClientStep \/ Net \/ Event \/ Shutdown \/ UNCHANGED vars
  <2>1. UNCHANGED mainVars
    BY <1>3 DEF ClientStep, Nothing, ReceiveFails, Receive, ClientLeaves, ClientFrame, Net,
       AnswerStatus, AnswerBlob, NetFrame, Event, Shutdown, vars
  <2> QED
    BY <2>1 DEF mainVars, Counted
<1> QED
  BY <1>1, <1>2, <1>3 DEF Next, MainStep

\* Each step keeps the types.
LEMMA MainStepType == TypeOK /\ Counted /\ (MainStep \/ Document) => TypeOK'
<1> SUFFICES ASSUME TypeOK, Counted, MainStep \/ Document PROVE TypeOK'
  OBVIOUS
<1>0. /\ NodeType /\ MainType /\ WaitType /\ SentType /\ ClientType /\ NetType /\ RestType
      /\ docs \in Versions /\ pc \in Places
  BY Parts DEF MainType
<1>1. CASE Document
  <2>1. docs + 1 \in Versions
    BY <1>0, <1>1, ConstantsAssumption DEF Document, Versions
  <2>2. NodeType'
    BY <2>1, Numbers, NodeTypes, <1>1 DEF Document, NodeType
  <2>3. MainType'
    BY <1>1, <2>1, Numbers DEF Document, MainType, Places
  <2> QED
    BY <1>0, <1>1, <2>2, <2>3, Parts, MainFrameKept, WaitKept, SentKept, NetKept
    DEF Document
<1>2. CASE Ask
  <2>1. WaitType' /\ SentType' /\ ClientType' /\ RestType'
    BY <1>0, <1>2, MainFrameKept, WaitKept, SentKept DEF Ask
  <2>4. NodeType' /\ MainType'
    <3>1. CASE pc' = "await" /\ UNCHANGED <<tries, docs, node>>
      BY <1>0, <1>2, <3>1 DEF Ask, MainType, NodeType, Places
    <3>2. CASE NotReady
      BY <1>0, <1>2, <3>2, NotReadyType DEF Ask
    <3> QED
      BY <1>2, <3>1, <3>2 DEF Ask
  <2>5. asked' \in 0..MaxAsked
    <3>1. asked \in 0..MaxAsked /\ Len(inbox) \in Nat /\ MaxAsked \in Nat
      BY <1>0, LenProperties, ConstantsAssumption DEF NetType
    <3>2. asked' = asked \/ (asked + Len(inbox) < MaxAsked /\ asked' = asked + 1)
      BY <1>2 DEF Ask
    <3> QED
      BY <3>1, <3>2
  <2>6. NetType'
    BY <1>0, <1>2, <2>5 DEF Ask, NetType
  <2> QED
    BY <2>1, <2>4, <2>6, Parts
<1>3. CASE Awake
  <2>1. NodeType' /\ MainType'
    <3>1. CASE Ready
      BY <1>0, <1>3, <3>1, Numbers DEF Ready, MainType, NodeType, Places
    <3>2. CASE NotReady
      BY <1>0, <1>3, <3>2, NotReadyType DEF Awake
    <3> QED
      BY <1>3, <3>1, <3>2 DEF Awake
  <2>2. WaitType'
    BY <1>0, <1>3 DEF Awake, WaitType
  <2> QED
    BY <1>0, <1>3, <2>1, <2>2, Parts, MainFrameKept, SentKept, NetKept DEF Awake
<1>4. CASE AwaitTimesOut
  BY <1>0, <1>4, Parts, MainFrameKept, NotReadyType, WaitKept, SentKept, NetKept
  DEF AwaitTimesOut
<1>5. CASE Backoff
  <2>1. MainType'
    <3>1. CASE Leave
      BY <1>0, <3>1, LeaveType
    <3>2. CASE pc' = "check" /\ UNCHANGED <<tries, docs>>
      BY <1>0, <1>5, <3>2 DEF Backoff, MainType, Places
    <3> QED
      BY <1>5, <3>1, <3>2 DEF Backoff
  <2> QED
    BY <1>0, <1>5, <2>1, Parts, MainFrameKept, NodeKept, WaitKept, SentKept, NetKept
    DEF Backoff
<1>6. CASE Apply
  <2>1. NodeType'
    BY <1>0, <1>6, Numbers, NodeTypes DEF Apply, NodeType
  <2>2. MainType'
    <3>1. CASE Leave
      BY <1>0, <3>1, LeaveType
    <3>2. CASE pc' = "version" /\ UNCHANGED <<tries, docs>>
      BY <1>0, <1>6, <3>2 DEF Apply, MainType, Places
    <3> QED
      BY <1>6, <3>1, <3>2 DEF Apply
  <2> QED
    BY <1>0, <1>6, <2>1, <2>2, Parts, MainFrameKept, WaitKept, SentKept, NetKept DEF Apply
<1>7. CASE SetVersion
  <2>1. MainType'
    BY <1>0, <1>7 DEF SetVersion, MainType, Places
  <2>2. overtaken' \in BOOLEAN
    BY <1>0, <1>7, Zenon DEF SetVersion, SentType
  <2>3. SentType'
    BY <1>0, <1>7, <2>2 DEF SetVersion, SentType
  <2> QED
    BY <1>0, <1>7, <2>1, <2>3, Parts, MainFrameKept, NodeKept, WaitKept, NetKept
    DEF SetVersion
<1>8. CASE SetTrans
  <2>1. MainType'
    BY <1>0, <1>8, Numbers DEF SetTrans, MainType, Places, Counted
  <2>2. SentType'
    BY <1>0, <1>8 DEF SetTrans, SentType
  <2> QED
    BY <1>0, <1>8, <2>1, <2>2, Parts, MainFrameKept, NodeKept, WaitKept, NetKept
    DEF SetTrans
<1>9. CASE SendBlob
  <2>1. MainType'
    BY <1>0, <1>9, Numbers DEF SendBlob, MainType, Places
  <2>2. NetType'
    BY <1>0, <1>9 DEF SendBlob, NetType
  <2> QED
    BY <1>0, <1>9, <2>1, <2>2, Parts, MainFrameKept, NodeKept, WaitKept, SentKept
    DEF SendBlob
<1>10. CASE SendFails
  <2>1. NodeType'
    BY <1>0, <1>10, Numbers, NodeTypes DEF SendFails, NodeType
  <2>2. MainType'
    <3>1. CASE Leave
      BY <1>0, <3>1, LeaveType
    <3>2. CASE tries < Sends - 1 /\ tries' = tries + 1 /\ UNCHANGED <<pc, docs>>
      <4>1. tries \in 0..(Sends - 1) /\ Sends = 4
        BY <1>0, <1>10 DEF SendFails, MainType, Sends
      <4>2. tries' \in 0..(Sends - 1)
        BY <3>2, <4>1
      <4> QED
        BY <1>0, <1>10, <3>2, <4>2 DEF SendFails, MainType
    <3> QED
      BY <1>10, <3>1, <3>2 DEF SendFails
  <2> QED
    BY <1>0, <1>10, <2>1, <2>2, Parts, MainFrameKept, WaitKept, SentKept, NetKept
    DEF SendFails
<1>11. CASE SetFlag
  <2>1. MainType'
    BY <1>0, <1>11, LeaveType DEF SetFlag
  <2>2. ClientType' /\ RestType'
    BY <1>0, <1>11 DEF SetFlag, ClientType, RestType
  <2> QED
    BY <1>0, <1>11, <2>1, <2>2, Parts, NodeKept, WaitKept, SentKept, NetKept DEF SetFlag
<1> QED
  BY <1>1, <1>2, <1>3, <1>4, <1>5, <1>6, <1>7, <1>8, <1>9, <1>10, <1>11 DEF MainStep

LEMMA SeqOfEvents ==
  ASSUME NEW S, NEW s \in Seq(S), NEW e \in S
  PROVE  /\ Append(s, e) \in Seq(S)
         /\ s # <<>> => Head(s) \in S /\ Tail(s) \in Seq(S)
  BY AppendProperties, HeadTailProperties

LEMMA HeadOfInbox ==
  ASSUME NetType, inbox # <<>>
  PROVE  Head(inbox) \in Msg /\ Tail(inbox) \in Seq(Msg)
  BY HeadTailProperties DEF NetType

LEMMA NetStepType == TypeOK /\ Net => TypeOK'
<1> SUFFICES ASSUME TypeOK, Net PROVE TypeOK'
  OBVIOUS
<1>0. NodeType /\ MainType /\ WaitType /\ SentType /\ ClientType /\ NetType /\ RestType
  BY Parts
<1>1. NodeType' /\ MainType' /\ WaitType' /\ SentType' /\ ClientType' /\ RestType'
  <2>1. NetFrame
    BY DEF Net, AnswerStatus, AnswerBlob
  <2> QED
    BY <1>0, <2>1, NodeKept, MainKept, WaitKept, SentKept, ClientKept DEF NetFrame, RestType
<1>2. CASE AnswerStatus
  <2>1. asked' \in 0..MaxAsked
    BY <1>0, <1>2, ConstantsAssumption DEF AnswerStatus, NetType
  <2>2. \A s \in {"online", "offline"} : Status(s) \in Msg
    BY Numbers DEF Status, Msg
  <2>3. inbox' \in Seq(Msg)
    BY <1>0, <1>2, <2>2, SeqOfEvents DEF AnswerStatus, NetType
  <2> QED
    BY <1>0, <1>1, <1>2, <2>1, <2>3, Parts DEF AnswerStatus, NetType
<1>3. ASSUME NEW v \in 1..MaxDocs, AnswerBlob(v) PROVE TypeOK'
  <2>1. v \in Versions
    BY ConstantsAssumption DEF Versions
  <2>2. PICK c \in Codes :
          /\ applied' = IF c \in {"ok", "silent"} THEN applied \cup {v} ELSE applied
          /\ \/ inbox' = Append(inbox, Result(c, v)) /\ UNCHANGED lost
             \/ lost' = lost \cup {v} /\ UNCHANGED inbox
    BY <1>3 DEF AnswerBlob
  <2>3. Result(c, v) \in Msg
    BY <2>1 DEF Result, Msg
  <2>4. inbox' \in Seq(Msg)
    BY <1>0, <2>2, <2>3, SeqOfEvents DEF NetType
  <2> QED
    BY <1>0, <1>1, <1>3, <2>1, <2>2, <2>4, Parts DEF AnswerBlob, NetType
<1> QED
  BY <1>2, <1>3 DEF Net

LEMMA ClientStepType == TypeOK /\ (ClientStep \/ Event \/ Shutdown) => TypeOK'
<1> SUFFICES ASSUME TypeOK, ClientStep \/ Event \/ Shutdown PROVE TypeOK'
  OBVIOUS
<1>0. /\ NodeType /\ MainType /\ WaitType /\ SentType /\ ClientType /\ NetType /\ RestType
      /\ 0 \in 0..Failures + 1
  BY Parts, ConstantsAssumption
<1>1. CASE Nothing
  <2>1. ClientType'
    BY <1>0, <1>1 DEF Nothing, ClientType
  <2>2. RestType' /\ NetType'
    BY <1>0, <1>1 DEF Nothing, ClientFrame, RestType, NetType
  <2> QED
    BY <1>0, <1>1, <2>1, <2>2, Parts, NodeKept, MainKept, WaitKept, SentKept
    DEF Nothing, ClientFrame
<1>2. CASE ReceiveFails
  <2>1. NodeType'
    BY <1>0, <1>2, NodeTypes DEF ReceiveFails, NodeType
  <2>2. fails' \in 0..Failures + 1 /\ flag' \in BOOLEAN
    <3>1. fails \in 0..Failures + 1 /\ fails <= Failures /\ Failures \in Nat
      BY <1>0, <1>2, ConstantsAssumption DEF ReceiveFails, ClientType
    <3>2. fails' \in {0, fails + 1} /\ flag' \in {flag, FALSE}
      BY <1>2 DEF ReceiveFails
    <3>3. fails' \in 0..Failures + 1
      BY <3>1, <3>2
    <3>4. flag' \in BOOLEAN
      BY <1>0, <3>2 DEF ClientType
    <3> QED
      BY <3>3, <3>4
  <2>3. falseAlarm' \in BOOLEAN
    BY <1>0, <1>2, Zenon DEF ReceiveFails, ClientType
  <2>4. RestType' /\ NetType'
    BY <1>0, <1>2 DEF ReceiveFails, ClientFrame, RestType, NetType
  <2> QED
    BY <1>0, <1>2, <2>1, <2>2, <2>3, <2>4, Parts, MainKept, WaitKept, SentKept
    DEF ReceiveFails, ClientFrame, ClientType
<1>3. CASE Receive
  <2> DEFINE m == Head(inbox)
  <2>1. m \in Msg /\ inbox' \in Seq(Msg)
    BY <1>0, <1>3, HeadOfInbox DEF Receive
  <2>2. m.ver \in Versions
    BY <2>1, Numbers DEF Msg
  <2>3. NodeType'
    BY <1>0, <1>3, NodeTypes DEF Receive, NodeType
  <2>4. ClientType'
    BY <1>0, <1>3 DEF Receive, ClientType
  <2>5. WaitType'
    <3>1. CASE UNCHANGED waitVars
      BY <1>0, <3>1, WaitKept
    <3>2. CASE m.type = "status" /\ wake' = TRUE /\ reply' = m.code
      <4>1. m.code \in {"online", "offline"}
        BY <2>1, <3>2 DEF Msg
      <4> QED
        BY <3>2, <4>1 DEF WaitType
    <3> QED
      BY <1>3, <3>1, <3>2 DEF Receive
  <2>6. NetType'
    BY <1>0, <1>3, <2>1, <2>2 DEF Receive, ClientFrame, NetType
  <2>7. RestType'
    <3>1. \A c : [ver |-> sentVer, trans |-> sentTrans, status |-> Outcome(c)] \in Ev
      BY <1>0 DEF Outcome, Ev, SentType
    <3>2. events' \in Seq(Ev)
      BY <1>0, <1>3, <3>1, SeqOfEvents DEF Receive, RestType
    <3> QED
      BY <1>0, <1>3, <2>2, <3>2 DEF Receive, ClientFrame, RestType
  <2> QED
    BY <1>0, <1>3, <2>3, <2>4, <2>5, <2>6, <2>7, Parts, MainKept, SentKept
    DEF Receive, ClientFrame
<1>4. CASE ClientLeaves
  <2>1. ClientType'
    BY <1>0, <1>4 DEF ClientLeaves, ClientType
  <2>2. RestType' /\ NetType'
    BY <1>0, <1>4 DEF ClientLeaves, ClientFrame, RestType, NetType
  <2> QED
    BY <1>0, <1>4, <2>1, <2>2, Parts, NodeKept, MainKept, WaitKept, SentKept
    DEF ClientLeaves, ClientFrame
<1>5. CASE Event
  <2>1. NodeType'
    BY <1>0, <1>5, NodeTypes DEF Event, NodeType
  <2>2. events' \in Seq(Ev)
    BY <1>0, <1>5, HeadTailProperties DEF Event, RestType
  <2>3. RestType'
    BY <1>0, <1>5, <2>2 DEF Event, RestType
  <2> QED
    BY <1>0, <1>5, <2>1, <2>3, Parts, MainKept, WaitKept, SentKept, ClientKept, NetKept
    DEF Event
<1>6. CASE Shutdown
  <2>1. RestType'
    BY <1>0, <1>6 DEF Shutdown, RestType
  <2> QED
    BY <1>0, <1>6, <2>1, Parts, NodeKept, MainKept, WaitKept, SentKept, ClientKept, NetKept
    DEF Shutdown
<1> QED
  BY <1>1, <1>2, <1>3, <1>4, <1>5, <1>6 DEF ClientStep

TypeInv == TypeOK /\ Counted

LEMMA NextType == TypeInv /\ [Next]_vars => TypeInv'
<1>1. TypeOK /\ UNCHANGED vars => TypeOK'
  <2> SUFFICES ASSUME TypeOK, UNCHANGED vars PROVE TypeOK'
    OBVIOUS
  <2>1. /\ UNCHANGED mainVars /\ UNCHANGED waitVars /\ UNCHANGED sentVars
        /\ UNCHANGED clientVars /\ UNCHANGED netVars
        /\ UNCHANGED <<node, events, heard, client, shutdown>>
    BY DEF vars
  <2>2. RestType'
    BY <2>1, Parts DEF RestType
  <2> QED
    BY <2>1, <2>2, Parts, NodeKept, MainKept, WaitKept, SentKept, ClientKept, NetKept
<1> QED
  BY <1>1, NextCounted, MainStepType, NetStepType, ClientStepType DEF TypeInv, Next

LEMMA AlwaysTypeInv == Spec => []TypeInv
<1>1. Init => TypeInv
  BY InitType DEF Init, TypeInv, Counted
<1> QED
  BY <1>1, NextType, PTL DEF Spec

\* Each variable of the exchange has its type in every state, for all bounds: a counter
\* of tries is never past its last check or send.
THEOREM TypeCorrect == Spec => []TypeOK
<1>1. TypeInv => TypeOK
  BY DEF TypeInv
<1> QED
  BY <1>1, AlwaysTypeInv, PTL

------------------------------------------------------------------------------
(* An applied document has been applied by aker. While no answer has been  *)
(* overtaken, every answer that is due is one to the document sent last,   *)
(* and none is due from the time at which the globals begin to name the    *)
(* next document until it is sent.                                         *)

OkResults == \A i \in 1..Len(inbox) :
  inbox[i].type = "result" /\ inbox[i].code = "ok" => inbox[i].ver \in applied
LastSent ==
  /\ pc \in {"trans", "send"} => Due = {} /\ sentVer = docs
  /\ Due \subseteq {sentVer}
AckEvents == \A i \in 1..Len(events) : events[i].status = "ACK" => events[i].ver \in applied
Acked == node.status = "success" => node.ver \in applied

Sound == OkResults /\ (~overtaken => LastSent /\ AckEvents /\ Acked)

LEMMA InitSound == Init => Sound
  BY DEF Init, Sound, OkResults, LastSent, AckEvents, Acked, Due, Node

\* Only a blob that is sent makes an answer due.
LEMMA DueOfMain ==
  ASSUME UNCHANGED inbox
  PROVE  /\ blobs' = blobs => Due' = Due
         /\ \A v : blobs' = blobs \cup {v} => Due' = Due \cup {v}
  BY DEF Due

LEMMA DueOfNet == ASSUME TypeOK, Net PROVE Due' \subseteq Due /\ (OkResults => OkResults')
<1>0. inbox \in Seq(Msg)
  BY Parts DEF NetType
<1>1. CASE AnswerStatus
  <2>1. blobs' = blobs /\ applied' = applied
    BY <1>1 DEF AnswerStatus
  <2>2. CASE UNCHANGED inbox
    BY <2>1, <2>2 DEF Due, OkResults
  <2>3. ASSUME NEW s, inbox' = Append(inbox, Status(s))
        PROVE  Due' \subseteq Due /\ (OkResults => OkResults')
    <3>1. /\ Len(inbox) \in Nat /\ Len(inbox') = Len(inbox) + 1
          /\ \A i \in 1..Len(inbox) : inbox'[i] = inbox[i]
          /\ inbox'[Len(inbox) + 1] = Status(s)
      BY <1>0, <2>3
    <3>2. inbox'[Len(inbox) + 1].type # "result"
      BY <3>1 DEF Status
    <3> QED
      BY <2>1, <3>1, <3>2 DEF Due, OkResults
  <2> QED
    BY <1>1, <2>2, <2>3 DEF AnswerStatus
<1>2. ASSUME NEW v \in 1..MaxDocs, AnswerBlob(v)
      PROVE  Due' \subseteq Due /\ (OkResults => OkResults')
  <2>1. PICK c \in Codes :
          /\ applied' = IF c \in {"ok", "silent"} THEN applied \cup {v} ELSE applied
          /\ \/ inbox' = Append(inbox, Result(c, v)) /\ UNCHANGED lost
             \/ lost' = lost \cup {v} /\ UNCHANGED inbox
    BY <1>2 DEF AnswerBlob
  <2>2. v \in blobs /\ blobs' = blobs \ {v} /\ applied \subseteq applied'
    BY <1>2, <2>1 DEF AnswerBlob
  <2>3. CASE UNCHANGED inbox
    BY <2>2, <2>3 DEF Due, OkResults
  <2>4. CASE inbox' = Append(inbox, Result(c, v))
    <3>1. /\ Len(inbox) \in Nat /\ Len(inbox') = Len(inbox) + 1
          /\ \A i \in 1..Len(inbox) : inbox'[i] = inbox[i]
          /\ inbox'[Len(inbox) + 1] = Result(c, v)
      BY <1>0, <2>4
    <3>2. Result(c, v).ver = v /\ Result(c, v).code = c
      BY DEF Result
    <3>3. Due' \subseteq Due
      BY <2>2, <3>1, <3>2 DEF Due
    <3>4. c = "ok" => v \in applied'
      BY <2>1
    <3>5. OkResults => OkResults'
      BY <2>2, <3>1, <3>2, <3>4 DEF OkResults
    <3> QED
      BY <3>3, <3>5
  <2> QED
    BY <2>1, <2>3, <2>4
<1> QED
  BY <1>1, <1>2 DEF Net

LEMMA DueOfReceive ==
  ASSUME TypeOK, inbox # <<>>, inbox' = Tail(inbox), UNCHANGED <<blobs, applied>>
  PROVE  /\ Due' \subseteq Due /\ (OkResults => OkResults')
         /\ Head(inbox).type = "result" => Head(inbox).ver \in Due
         /\ OkResults /\ Head(inbox).type = "result" /\ Head(inbox).code = "ok" =>
              Head(inbox).ver \in applied
<1>1. /\ inbox \in Seq(Msg) /\ Len(inbox) \in Nat /\ Len(inbox) # 0
      /\ Head(inbox) = inbox[1] /\ Len(inbox') = Len(inbox) - 1
      /\ \A i \in 1..Len(inbox') : inbox'[i] = inbox[i + 1]
  BY Parts, HeadTailProperties DEF NetType
<1>2. \A i \in 1..Len(inbox') : i + 1 \in 1..Len(inbox)
  BY <1>1
<1>3. 1 \in 1..Len(inbox)
  BY <1>1
<1>4. Due' \subseteq Due
  BY <1>1, <1>2 DEF Due
<1>5. OkResults => OkResults'
  BY <1>1, <1>2 DEF OkResults
<1>6. Head(inbox).type = "result" => Head(inbox).ver \in Due
  BY <1>1, <1>3 DEF Due
<1> QED
  BY <1>1, <1>3, <1>4, <1>5, <1>6 DEF OkResults

LEMMA MainStepSound == TypeOK /\ Sound /\ (MainStep \/ Document) => Sound'
<1> SUFFICES ASSUME TypeOK, Sound, MainStep \/ Document PROVE Sound'
  OBVIOUS
<1>1. UNCHANGED <<inbox, applied, events>>
  BY DEF MainStep, MainFrame, netVars, Document, Ask, Awake, AwaitTimesOut, Backoff, Apply,
     SetVersion, SetTrans, SendBlob, SendFails, SetFlag
<1>2. OkResults' /\ (~overtaken => AckEvents')
  BY <1>1 DEF Sound, OkResults, AckEvents
<1>3. overtaken => overtaken'
  BY DEF MainStep, sentVars, Document, Ask, Awake, AwaitTimesOut, Backoff, Apply,
     SetVersion, SetTrans, SendBlob, SendFails, SetFlag
<1>4. node' = node \/ node'.status \in {"pending", "failed"}
  BY DEF MainStep, Document, Ask, Awake, AwaitTimesOut, Backoff, Apply, NotReady, Ready,
     SetVersion, SetTrans, SendBlob, SendFails, SetFlag, Node
<1>5. ~overtaken => Acked'
  BY <1>1, <1>4 DEF Sound, Acked
<1>6. ASSUME ~overtaken' PROVE LastSent'
  <2>1. LastSent
    BY <1>3, <1>6 DEF Sound
  <2>2. CASE SetVersion
    <3>1. Due' = Due /\ Due = {} /\ sentVer' = docs /\ docs' = docs
      BY <1>1, <1>6, <2>2, DueOfMain DEF SetVersion, netVars
    <3> QED
      BY <3>1 DEF LastSent
  <2>3. CASE SendBlob
    <3>1. Due' = Due \cup {docs} /\ Due = {} /\ sentVer' = docs /\ pc' = "flag"
      BY <1>1, <2>1, <2>3, DueOfMain DEF SendBlob, sentVars, LastSent
    <3> QED
      BY <3>1 DEF LastSent
  <2>4. CASE SetTrans \/ SendFails
    <3>1. Due' = Due /\ sentVer' = sentVer /\ docs' = docs /\ pc \in {"trans", "send"}
      BY <1>1, <2>4, DueOfMain DEF SetTrans, SendFails, sentVars, netVars, Leave
    <3> QED
      BY <2>1, <3>1 DEF LastSent
  <2>5. CASE Document \/ Ask \/ Awake \/ AwaitTimesOut \/ Backoff \/ Apply \/ SetFlag
    <3>1. blobs' = blobs /\ sentVer' = sentVer /\ pc' \notin {"trans", "send"}
      BY <2>5 DEF Document, Ask, Awake, AwaitTimesOut, Backoff, Apply, SetFlag, NotReady,
         Ready, Leave, sentVars, netVars
    <3> QED
      BY <1>1, <2>1, <3>1, DueOfMain DEF LastSent
  <2> QED
    BY <2>2, <2>3, <2>4, <2>5 DEF MainStep
<1> QED
  BY <1>2, <1>3, <1>5, <1>6 DEF Sound

\* A step of another thread or of the network that only lets answers go.
LEMMA LastSentKept ==
  ASSUME LastSent, Due' \subseteq Due, UNCHANGED <<pc, docs, sentVer>>
  PROVE  LastSent'
  BY DEF LastSent

LEMMA NetStepSound == TypeOK /\ Sound /\ Net => Sound'
<1> SUFFICES ASSUME TypeOK, Sound, Net PROVE Sound'
  OBVIOUS
<1>1. Due' \subseteq Due /\ OkResults'
  BY DueOfNet DEF Sound
<1>2. UNCHANGED <<pc, docs, sentVer, overtaken, events, node>> /\ applied \subseteq applied'
  BY DEF Net, AnswerStatus, AnswerBlob, NetFrame, mainVars, sentVars
<1>3. ~overtaken => LastSent' /\ AckEvents' /\ Acked'
  BY <1>1, <1>2, LastSentKept DEF Sound, AckEvents, Acked
<1> QED
  BY <1>1, <1>2, <1>3 DEF Sound

LEMMA ReceiveSound == TypeOK /\ Sound /\ Receive => Sound'
<1> SUFFICES ASSUME TypeOK, Sound, Receive PROVE Sound'
  OBVIOUS
<1> DEFINE m == Head(inbox)
<1>1. UNCHANGED <<pc, docs, sentVer, overtaken, blobs, applied>>
  BY DEF Receive, ClientFrame, mainVars, sentVars
<1>2. /\ Due' \subseteq Due /\ OkResults'
      /\ m.type = "result" => m.ver \in Due
      /\ m.type = "result" /\ m.code = "ok" => m.ver \in applied
  BY <1>1, DueOfReceive DEF Receive, Sound
<1>3. ASSUME ~overtaken PROVE LastSent' /\ AckEvents' /\ Acked'
  <2>1. LastSent /\ AckEvents /\ Acked
    BY <1>3 DEF Sound
  <2>2. LastSent'
    BY <1>1, <1>2, <2>1, LastSentKept
  <2>3. Acked'
    <3>1. node' = node \/ node'.status = "failed"
      <4>1. node \in Nodes
        BY Parts DEF NodeType
      <4> QED
        BY <4>1 DEF Receive, Nodes
    <3> QED
      BY <1>1, <2>1, <3>1 DEF Acked
  <2>4. CASE UNCHANGED events
    BY <1>1, <2>1, <2>2, <2>3, <2>4 DEF AckEvents
  <2>5. CASE /\ m.type = "result" /\ m.code \in {"ok", "rejected"}
             /\ events' = Append(events, [ver |-> sentVer, trans |-> sentTrans,
                                          status |-> Outcome(m.code)])
    <3> DEFINE e == [ver |-> sentVer, trans |-> sentTrans, status |-> Outcome(m.code)]
    <3>1. e.status = "ACK" => e.ver \in applied
      <4>1. m.ver = sentVer
        BY <1>2, <2>1, <2>5 DEF LastSent
      <4> QED
        BY <1>2, <2>5, <4>1 DEF Outcome
    <3> HIDE DEF e
    <3>2. events \in Seq(Ev) /\ events' = Append(events, e)
      BY <2>5, Parts DEF RestType, e
    <3>3. /\ Len(events) \in Nat /\ Len(events') = Len(events) + 1
          /\ \A i \in 1..Len(events) : events'[i] = events[i]
          /\ events'[Len(events) + 1] = e
      BY <3>2
    <3>4. AckEvents'
      BY <1>1, <2>1, <3>1, <3>3 DEF AckEvents
    <3> QED
      BY <2>2, <2>3, <3>4
  <2> QED
    BY <2>4, <2>5 DEF Receive
<1> QED
  BY <1>1, <1>2, <1>3 DEF Sound

LEMMA EventSound == TypeOK /\ Sound /\ Event => Sound'
<1> SUFFICES ASSUME TypeOK, Sound, Event PROVE Sound'
  OBVIOUS
<1>1. UNCHANGED <<pc, docs, sentVer, overtaken, blobs, applied, inbox>>
  BY DEF Event, mainVars, sentVars, netVars
<1>2. Due' = Due /\ OkResults'
  BY <1>1 DEF Due, Sound, OkResults
<1>3. /\ events \in Seq(Ev) /\ node \in Nodes /\ Len(events) \in Nat /\ Len(events) # 0
      /\ Head(events) = events[1] /\ Len(events') = Len(events) - 1
      /\ \A i \in 1..Len(events') : events'[i] = events[i + 1]
  BY Parts, HeadTailProperties DEF RestType, NodeType, Event
<1>4. ASSUME ~overtaken PROVE LastSent' /\ AckEvents' /\ Acked'
  <2>1. LastSent /\ AckEvents /\ Acked
    BY <1>4 DEF Sound
  <2>2. LastSent'
    BY <1>1, <1>2, <2>1, LastSentKept
  <2>3. AckEvents'
    <3>1. \A i \in 1..Len(events') : i + 1 \in 1..Len(events)
      BY <1>3
    <3> QED
      BY <1>1, <1>3, <2>1, <3>1 DEF AckEvents
  <2>4. Head(events).status = "ACK" => Head(events).ver \in applied
    <3>1. 1 \in 1..Len(events)
      BY <1>3
    <3> QED
      BY <1>3, <2>1, <3>1 DEF AckEvents
  <2>5. Acked'
    BY <1>1, <1>3, <2>1, <2>4 DEF Event, Acked, Nodes
  <2> QED
    BY <2>2, <2>3, <2>5
<1> QED
  BY <1>1, <1>2, <1>4 DEF Sound

LEMMA OtherSound ==
  ASSUME TypeOK, Sound, Nothing \/ ReceiveFails \/ ClientLeaves \/ Shutdown \/ UNCHANGED vars
  PROVE  Sound'
<1>1. UNCHANGED <<pc, docs, sentVer, overtaken, blobs, applied, inbox, events>>
  BY DEF Nothing, ReceiveFails, ClientLeaves, Shutdown, ClientFrame, vars, mainVars, sentVars,
     netVars
<1>2. node' = node \/ node'.status = "failed"
  <2>1. node \in Nodes
    BY Parts DEF NodeType
  <2> QED
    BY <2>1 DEF Nothing, ReceiveFails, ClientLeaves, Shutdown, vars, Nodes
<1>3. Due' = Due /\ OkResults'
  BY <1>1 DEF Due, Sound, OkResults
<1>4. ~overtaken => LastSent' /\ AckEvents' /\ Acked'
  BY <1>1, <1>2, <1>3 DEF Sound, LastSent, AckEvents, Acked
<1> QED
  BY <1>1, <1>3, <1>4 DEF Sound

\* An aker document counts as applied only when aker has applied that version, as long as
\* no document was sent while the answer to an earlier one was due (AckMeansApplied), for
\* any number of documents and of checks, and whatever is lost.
THEOREM AckMeansAppliedCorrect == Spec => []AckMeansApplied
<1>1. TypeInv /\ Sound /\ [Next]_vars => Sound'
  BY MainStepSound, NetStepSound, ReceiveSound, EventSound, OtherSound
  DEF TypeInv, Next, ClientStep
<1>2. Sound => AckMeansApplied
  BY DEF Sound, Acked, AckMeansApplied
<1> QED
  BY <1>1, <1>2, AlwaysTypeInv, InitSound, PTL DEF Spec

------------------------------------------------------------------------------
(* A document that has been sent is not forgotten: from the send on, the   *)
(* globals name it until the next one, and it is pending under its own id. *)

Known(v) == v \in Due \cup lost \/ EventOf(v) \/ shutdown
Kept ==
  /\ node.status = "pending" => node.ver = docs
  /\ node.status = "pending" /\ pc \in {"version", "trans", "send", "flag"} =>
       node.trans = docs
  /\ pc \in {"trans", "send", "flag"} => sentVer = docs
  /\ pc \in {"send", "flag"} => sentTrans = docs
  /\ node.status = "pending" /\ pc = "idle" =>
       shutdown \/ (node.trans = docs /\ sentVer = docs /\ sentTrans = docs)
  /\ node.status = "pending" /\ pc \in {"flag", "idle"} => Known(docs)

LEMMA InitKept == Init => Kept
  BY DEF Init, Kept, Node

\* An answer on its way stays in what is due until it is received.
LEMMA DueKept ==
  ASSUME TypeOK, Net, NEW v \in Due
  PROVE  v \in (Due \cup lost)'
<1>0. inbox \in Seq(Msg) /\ Len(inbox) \in Nat
  BY Parts DEF NetType
<1>1. CASE AnswerStatus
  <2>1. UNCHANGED <<blobs, lost>>
    BY <1>1 DEF AnswerStatus
  <2>2. CASE UNCHANGED inbox
    BY <2>1, <2>2 DEF Due
  <2>3. ASSUME NEW s, inbox' = Append(inbox, s) PROVE v \in (Due \cup lost)'
    <3>1. /\ Len(inbox') = Len(inbox) + 1
          /\ \A i \in 1..Len(inbox) : inbox'[i] = inbox[i]
      BY <1>0, <2>3
    <3>2. \A i \in 1..Len(inbox) : i \in 1..Len(inbox')
      BY <1>0, <3>1
    <3> QED
      BY <2>1, <3>1, <3>2 DEF Due
  <2> QED
    BY <1>1, <2>2, <2>3 DEF AnswerStatus
<1>2. ASSUME NEW w \in 1..MaxDocs, AnswerBlob(w) PROVE v \in (Due \cup lost)'
  <2>1. blobs' = blobs \ {w} /\ lost \subseteq lost'
    BY <1>2 DEF AnswerBlob
  <2>2. CASE lost' = lost \cup {w} /\ UNCHANGED inbox
    BY <2>1, <2>2 DEF Due
  <2>3. ASSUME NEW c, inbox' = Append(inbox, Result(c, w)) PROVE v \in (Due \cup lost)'
    <3>1. /\ Len(inbox') = Len(inbox) + 1
          /\ \A i \in 1..Len(inbox) : inbox'[i] = inbox[i]
          /\ inbox'[Len(inbox) + 1] = Result(c, w)
      BY <1>0, <2>3
    <3>2. /\ \A i \in 1..Len(inbox) : i \in 1..Len(inbox')
          /\ Len(inbox) + 1 \in 1..Len(inbox')
      BY <1>0, <3>1
    <3>3. Result(c, w).type = "result" /\ Result(c, w).ver = w
      BY DEF Result
    <3>4. v \in Due'
      BY <2>1, <3>1, <3>2, <3>3 DEF Due
    <3> QED
      BY <3>4
  <2> QED
    BY <1>2, <2>2, <2>3 DEF AnswerBlob
<1> QED
  BY <1>1, <1>2 DEF Net

\* Receiving an answer only takes that one out.
LEMMA DueOfOthers ==
  ASSUME TypeOK, inbox # <<>>, inbox' = Tail(inbox), UNCHANGED blobs, NEW v \in Due
  PROVE  v \in Due' \/ (Head(inbox).type = "result" /\ Head(inbox).ver = v)
<1>1. /\ inbox \in Seq(Msg) /\ Len(inbox) \in Nat /\ Len(inbox) # 0
      /\ Head(inbox) = inbox[1] /\ Len(inbox') = Len(inbox) - 1
      /\ \A i \in 1..Len(inbox') : inbox'[i] = inbox[i + 1]
  BY Parts, HeadTailProperties DEF NetType
<1>2. CASE v \in blobs
  BY <1>2 DEF Due
<1>3. ASSUME NEW i \in 1..Len(inbox), inbox[i].type = "result", inbox[i].ver = v, i # 1
      PROVE  v \in Due'
  <2>1. i - 1 \in 1..Len(inbox') /\ (i - 1) + 1 = i
    BY <1>1, <1>3
  <2> QED
    BY <1>1, <1>3, <2>1 DEF Due
<1> QED
  BY <1>1, <1>2, <1>3 DEF Due

LEMMA MainStepKept == TypeOK /\ Kept /\ (MainStep \/ Document) => Kept'
<1> SUFFICES ASSUME TypeOK, Kept, MainStep \/ Document PROVE Kept'
  OBVIOUS
<1>1. UNCHANGED <<inbox, lost, events, shutdown>>
  BY DEF MainStep, MainFrame, netVars, Document, Ask, Awake, AwaitTimesOut, Backoff, Apply,
     SetVersion, SetTrans, SendBlob, SendFails, SetFlag
<1>2. ASSUME NEW v, blobs' = blobs \/ blobs' = blobs \cup {v}, Known(docs) PROVE Known(docs)'
             \/ docs' # docs
  BY <1>1, <1>2, DueOfMain DEF Known, EventOf
<1>3. CASE Document
  BY <1>3 DEF Document, Kept, Node
<1>4. CASE Ask \/ Awake \/ AwaitTimesOut
  BY <1>4 DEF Ask, Awake, AwaitTimesOut, NotReady, Ready, Leave, Kept, Node
<1>5. CASE Backoff
  BY <1>1, <1>5 DEF Backoff, Leave, Kept, Known
<1>6. CASE Apply \/ SetVersion \/ SetTrans
  BY <1>6 DEF Apply, SetVersion, SetTrans, Leave, Kept, Node, sentVars
<1>7. CASE SendBlob
  <2>1. docs \in Due'
    BY <1>1, <1>7, DueOfMain DEF SendBlob
  <2>2. docs' = docs /\ pc = "send" /\ pc' = "flag" /\ UNCHANGED <<node, sentVer, sentTrans>>
    BY <1>7 DEF SendBlob, sentVars
  <2> QED
    BY <2>1, <2>2 DEF Kept, Known
<1>8. CASE SendFails
  BY <1>8 DEF SendFails, Leave, Kept, Node, sentVars
<1>9. CASE SetFlag
  <2>1. /\ docs' = docs /\ pc = "flag" /\ pc' = "idle"
        /\ UNCHANGED <<node, sentVer, sentTrans, blobs>>
    BY <1>9 DEF SetFlag, Leave, sentVars, netVars
  <2> QED
    BY <1>2, <2>1 DEF Kept
<1> QED
  BY <1>3, <1>4, <1>5, <1>6, <1>7, <1>8, <1>9 DEF MainStep

\* A step beside the main thread: the node stays, or is not pending any more.
LEMMA OthersKept ==
  ASSUME Kept, UNCHANGED <<pc, docs, sentVer, sentTrans>>, shutdown => shutdown',
         node' = node \/ node'.status # "pending",
         node.status = "pending" /\ node' = node /\ pc \in {"flag", "idle"}
           /\ Known(docs) => Known(docs)'
  PROVE  Kept'
  BY DEF Kept

LEMMA NetStepKept == TypeOK /\ Kept /\ Net => Kept'
<1> SUFFICES ASSUME TypeOK, Kept, Net PROVE Kept'
  OBVIOUS
<1>1. UNCHANGED <<pc, docs, sentVer, sentTrans, events, node, shutdown>> /\ lost \subseteq lost'
  BY DEF Net, AnswerStatus, AnswerBlob, NetFrame, mainVars, sentVars
<1>2. Known(docs) => Known(docs)'
  BY <1>1, DueKept DEF Known, EventOf
<1> QED
  BY <1>1, <1>2, OthersKept

LEMMA ReceiveKept == TypeOK /\ Kept /\ Receive => Kept'
<1> SUFFICES ASSUME TypeOK, Kept, Receive PROVE Kept'
  OBVIOUS
<1> DEFINE m == Head(inbox)
<1>0. node \in Nodes /\ events \in Seq(Ev) /\ Len(events) \in Nat
  BY Parts DEF NodeType, RestType
<1>1. UNCHANGED <<pc, docs, sentVer, sentTrans, blobs, shutdown>> /\ lost \subseteq lost'
  BY DEF Receive, ClientFrame, mainVars, sentVars
<1>2. node' = node \/ node'.status = "failed"
  BY <1>0 DEF Receive, Nodes
<1>3. docs \in Due => docs \in Due' \/ (m.type = "result" /\ m.ver = docs)
  BY <1>1, DueOfOthers DEF Receive
<1>4. ASSUME node.status = "pending", node' = node, pc \in {"flag", "idle"}, Known(docs)
      PROVE  Known(docs)'
  <2>1. shutdown \/ (sentVer = docs /\ sentTrans = docs)
    BY <1>4 DEF Kept
  <2>2. CASE m.type = "result" /\ m.ver = docs /\ m.code \in {"ok", "rejected"}
             /\ events' = Append(events, [ver |-> sentVer, trans |-> sentTrans,
                                          status |-> Outcome(m.code)])
    <3> DEFINE e == [ver |-> sentVer, trans |-> sentTrans, status |-> Outcome(m.code)]
    <3>1. Len(events') = Len(events) + 1 /\ events'[Len(events) + 1] = e
      BY <1>0, <2>2
    <3>2. Len(events) + 1 \in 1..Len(events')
      BY <1>0, <3>1
    <3>3. e.ver = sentVer /\ e.trans = sentTrans
      OBVIOUS
    <3>4. shutdown' \/ EventOf(docs)'
      BY <1>1, <2>1, <3>1, <3>2, <3>3 DEF EventOf
    <3> QED
      BY <3>4, <1>1 DEF Known
  <2>3. CASE m.type = "result" /\ m.ver = docs /\ m.code \in {"other", "garbled"}
    BY <1>0, <1>4, <2>3 DEF Receive, Nodes
  <2>4. CASE m.type = "result" /\ m.ver = docs /\ lost' = lost \cup {m.ver}
    BY <1>1, <2>4 DEF Known
  <2>5. CASE ~(m.type = "result" /\ m.ver = docs)
    <3>1. EventOf(docs) => EventOf(docs)'
      <4>1. events' = events \/ \E e : events' = Append(events, e)
        BY DEF Receive
      <4>2. \A i \in 1..Len(events) : i \in 1..Len(events') /\ events'[i] = events[i]
        BY <1>0, <4>1
      <4> QED
        BY <1>1, <4>2 DEF EventOf
    <3> QED
      BY <1>1, <1>3, <1>4, <2>5, <3>1 DEF Known
  <2> QED
    BY <2>2, <2>3, <2>4, <2>5 DEF Receive
<1> QED
  BY <1>1, <1>2, <1>4, OthersKept

LEMMA EventKept == TypeOK /\ Kept /\ Event => Kept'
<1> SUFFICES ASSUME TypeOK, Kept, Event PROVE Kept'
  OBVIOUS
<1>1. /\ UNCHANGED <<pc, docs, sentVer, sentTrans, inbox, blobs, lost, shutdown>>
      /\ Due' = Due
  BY DEF Event, mainVars, sentVars, netVars, Due
<1>2. /\ node \in Nodes /\ Len(events) \in Nat /\ Len(events) # 0
      /\ Head(events) = events[1] /\ Len(events') = Len(events) - 1
      /\ \A i \in 1..Len(events') : events'[i] = events[i + 1]
  BY Parts, HeadTailProperties DEF RestType, NodeType, Event
<1>3. node' = node \/ node'.status # "pending"
  BY <1>2 DEF Event, Nodes
<1>4. ASSUME node.status = "pending", node' = node, pc \in {"flag", "idle"}, Known(docs)
      PROVE  Known(docs)'
  <2>1. shutdown \/ (node.ver = docs /\ node.trans = docs)
    BY <1>4 DEF Kept
  <2>2. ASSUME NEW i \in 1..Len(events), events[i].ver = docs, events[i].trans = docs
        PROVE  Known(docs)'
    <3>1. CASE i = 1
      <4>1. node.ver = docs /\ node.trans = docs => node'.status # "pending"
        BY <1>2, <2>2, <3>1 DEF Event, Nodes
      <4> QED
        BY <1>1, <1>4, <2>1, <4>1 DEF Known
    <3>2. CASE i # 1
      <4>1. i - 1 \in 1..Len(events') /\ events'[i - 1] = events[i]
        BY <1>2, <2>2, <3>2
      <4> QED
        BY <1>1, <2>2, <4>1 DEF Known, EventOf
    <3> QED
      BY <3>1, <3>2
  <2> QED
    BY <1>1, <1>4, <2>2 DEF Known, EventOf
<1> QED
  BY <1>1, <1>3, <1>4, OthersKept

LEMMA OtherKept ==
  ASSUME TypeOK, Kept, Nothing \/ ReceiveFails \/ ClientLeaves \/ Shutdown \/ UNCHANGED vars
  PROVE  Kept'
<1>1. /\ UNCHANGED <<pc, docs, sentVer, sentTrans, inbox, blobs, lost, events>>
      /\ Due' = Due /\ (shutdown => shutdown')
  BY DEF Nothing, ReceiveFails, ClientLeaves, Shutdown, ClientFrame, vars, mainVars, sentVars,
     netVars, Due
<1>2. node' = node \/ node'.status # "pending"
  <2>1. node \in Nodes
    BY Parts DEF NodeType
  <2> QED
    BY <2>1 DEF Nothing, ReceiveFails, ClientLeaves, Shutdown, vars, Nodes
<1>3. Known(docs) => Known(docs)'
  BY <1>1 DEF Known, EventOf
<1> QED
  BY <1>1, <1>2, <1>3, OthersKept

\* While a document is pending and the main thread has left it, something about it is
\* still to come, or was lost, or a shutdown has come (NoneForgotten); also when the
\* answers to two documents have crossed.
THEOREM NoneForgottenCorrect == Spec => []NoneForgotten
<1>1. TypeInv /\ Kept /\ [Next]_vars => Kept'
  BY MainStepKept, NetStepKept, ReceiveKept, EventKept, OtherKept DEF TypeInv, Next, ClientStep
<1>2. Kept => NoneForgotten
  BY DEF Kept, Known, NoneForgotten
<1> QED
  BY <1>1, <1>2, AlwaysTypeInv, InitKept, PTL DEF Spec

=============================================================================
