--------------------------- MODULE ForceSyncProofs ---------------------------
(***************************************************************************)
(* Proofs about ForceSync, for any documents, sources of requests and      *)
(* bounds: type correctness, ShutdownNoticed, SyncIsTheRequest, and        *)
(* NoneLost, which rests on the first and the third.                       *)
(***************************************************************************)
EXTENDS ForceSync, SequenceTheorems, TLAPS

USE DEF request, flags, run, switch, Goto

-----------------------------------------------------------------------------
(* Type correctness.                                                        *)

\* What is read from the buffer is a name or nothing.
LEMMA NamesInBuffer ==
  ASSUME NEW s \in Buffers
  PROVE  First(s) \in Names /\ Second(s) \in Names
<1>1. CASE s \in {<<d>> : d \in Docs}
  <2>1. PICK d \in Docs : s = <<d>>
    BY <1>1
  <2>2. First(s) = d /\ Second(s) = NoDoc
    BY <2>1 DEF First, Second
  <2> QED BY <2>1, <2>2 DEF Names
<1>2. CASE s = <<>>
  BY <1>2 DEF First, Second, Names
<1>3. CASE s = <<"root", "telemetry">> \/ s = <<"telemetry", "root">>
  <2>1. First(s) \in {"root", "telemetry"} /\ Second(s) = NoDoc
    BY <1>3 DEF First, Second
  <2> QED BY <2>1, NamesAssumption DEF Names
<1>4. CASE s \in {CutInTwo(b) : b \in Bundles}
  <2>1. s = <<"root", Cut, "telemetry">> \/ s = <<"telemetry", Cut, "root">>
    BY <1>4 DEF CutInTwo, Bundles
  <2>2. First(s) \in {"root", "telemetry"} /\ Second(s) \in {"root", "telemetry"}
    BY <2>1 DEF First, Second
  <2> QED BY <2>2, NamesAssumption DEF Names
<1> QED BY <1>1, <1>2, <1>3, <1>4 DEF Buffers, Texts, Bundles

\* The ids of requests, and of the main loop's own, are ids.
LEMMA IdsAreIds ==
  /\ NoId \in Ids /\ OwnId \in Ids
  /\ \A n \in 0..MaxRequests : n \in Ids
BY EnvironmentAssumption DEF NoId, OwnId, Ids

LEMMA InitType == Init => TypeOK
<1> SUFFICES ASSUME Init PROVE TypeOK
  OBVIOUS
<1>1. queue \in Seq(Entry) /\ text \in Buffers
  BY DEF Init, Buffers
<1>2. pc \in Places
  BY DEF Init, Places
<1>3. head \in Entry /\ transId \in Ids
  BY IdsAreIds DEF Init, NoHead, Entry, Names
<1>4. stage \in [Threads -> Stages] /\ id \in [Threads -> Ids]
  BY IdsAreIds DEF Init, Stages
<1>5. asked \in 0..MaxRequests /\ toggles \in 0..MaxToggles
  BY EnvironmentAssumption DEF Init
<1> QED BY <1>1, <1>2, <1>3, <1>4, <1>5 DEF Init, TypeOK

\* The values the actions assign.
LEMMA Listed ==
  /\ NoId \in Ids /\ OwnId \in Ids /\ (\A n \in 0..MaxRequests : n \in Ids)
  /\ NoDoc \in Names /\ NoHead \in Entry
  /\ <<>> \in Buffers /\ (\A s \in Bundles : CutInTwo(s) \in Buffers)
  /\ <<"root">> \in Texts /\ Texts \subseteq Buffers
  /\ {"webcfg", "cloud"} = Flags
BY IdsAreIds, NamesAssumption
   DEF Names, NoHead, Entry, Buffers, Texts, Flags

\* TypeOK in three parts, for the steps that change few variables.
RequestOK ==
  /\ queue \in Seq(Entry) /\ text \in Buffers
  /\ stage \in [Threads -> Stages] /\ id \in [Threads -> Ids]
  /\ due \subseteq Docs
FlagsOK ==
  /\ poked \in BOOLEAN /\ needed \subseteq Flags /\ started \subseteq Flags
  /\ ready \in BOOLEAN /\ bootSync \in BOOLEAN /\ maintSync \in BOOLEAN
RunOK ==
  /\ supp \in BOOLEAN /\ transId \in Ids
  /\ shutdown \in BOOLEAN /\ rfc \in BOOLEAN /\ signalled \in BOOLEAN
  /\ forced \in BOOLEAN /\ syncDoc \in SuppDocs \cup {NoDoc}
  /\ waitFlag \in BOOLEAN /\ maintDoc \in BOOLEAN /\ head \in Entry
  /\ asked \in 0..MaxRequests /\ toggles \in 0..MaxToggles

LEMMA ByParts ==
  ASSUME RequestOK', FlagsOK', RunOK', pc' \in Places
  PROVE  TypeOK'
BY Zenon DEF TypeOK, RequestOK, FlagsOK, RunOK

\* A request taken from the queue, or none.
LEMMA TakeType ==
  ASSUME TypeOK, NEW p \in Places, Take(p)
  PROVE  TypeOK'
<1>1. queue' \in Seq(Entry) /\ head' \in Entry
  <2>1. CASE queue = <<>>
    BY <2>1, Listed DEF Take, TypeOK
  <2>2. CASE queue # <<>>
    BY <2>2, HeadTailProperties DEF Take, TypeOK
  <2> QED BY <2>1, <2>2
<1> QED BY <1>1 DEF Take, TypeOK

\* A request added to the queue.
LEMMA AppendType ==
  ASSUME TypeOK, NEW t \in Threads, NEW d \in Names, AppendEntry(d, t),
         stage' \in [Threads -> Stages]
  PROVE  TypeOK'
<1>1. queue' \in Seq(Entry)
  <2>1. [val |-> d, id |-> id[t]] \in Entry
    BY DEF TypeOK, Entry
  <2> QED BY <2>1 DEF AppendEntry, TypeOK
<1>2. due' \subseteq Docs
  BY DEF AppendEntry, TypeOK, Names
<1> QED BY <1>1, <1>2 DEF AppendEntry, TypeOK

\* One lemma for the steps of the main loop,
LEMMA MainType ==
  ASSUME TypeOK, LoopStep \/ NoPlaceForStatus
  PROVE  TypeOK'
<1>1. CASE BecomeReady
  <2>1. pc' \in Places
    BY <1>1 DEF BecomeReady, Places
  <2> QED BY <1>1, <2>1 DEF BecomeReady, TypeOK
<1>2. CASE BootSync
  <2>1. pc' \in Places
    BY <1>2 DEF BootSync, Places
  <2>2. due' \subseteq Docs
    BY <1>2 DEF BootSync, TypeOK
  <2> QED BY <1>2, <2>1, <2>2 DEF BootSync, TypeOK
<1>3. CASE BootSupplementary
  <2>1. pc' \in Places
    BY <1>3 DEF BootSupplementary, Places
  <2>2. due' \subseteq Docs
    BY <1>3 DEF BootSupplementary, TypeOK
  <2> QED BY <1>3, <2>1, <2>2 DEF BootSupplementary, TypeOK
<1>4. CASE EndBoot
  <2>1. pc' \in Places
    BY <1>4 DEF EndBoot, Places
  <2> QED BY <1>4, <2>1 DEF EndBoot, TypeOK
<1>5. CASE StartForced
  <2>1. pc' \in Places
    BY <1>5 DEF StartForced, Places
  <2>2. due' \subseteq Docs
    BY <1>5 DEF StartForced, TypeOK
  <2> QED BY <1>5, <2>1, <2>2 DEF StartForced, TypeOK
<1>6. CASE EndForced
  <2>1. pc' \in Places
    BY <1>6 DEF EndForced, Places
  <2>2. syncDoc' \in SuppDocs \cup {NoDoc}
    BY <1>6 DEF EndForced, TypeOK
  <2>3. transId' \in Ids /\ head' \in Entry
    BY <1>6, Listed DEF EndForced
  <2> QED BY <1>6, <2>1, <2>2, <2>3 DEF EndForced, TypeOK
<1>7. CASE ClearText
  <2>1. stage' \in [Threads -> Stages] /\ id' \in [Threads -> Ids]
    BY <1>7, Listed DEF ClearText, TypeOK, Stages
  <2>2. pc' \in Places /\ text' \in Buffers
    BY <1>7, Listed DEF ClearText, Places
  <2> QED BY <1>7, <2>1, <2>2 DEF ClearText, TypeOK
<1>8. CASE EndClear
  <2>1. pc' \in Places
    BY <1>8 DEF EndClear, Places
  <2>2. started' \subseteq Flags /\ supp' \in BOOLEAN
    BY <1>8 DEF EndClear
  <2> QED BY <1>8, <2>1, <2>2 DEF EndClear, TypeOK
<1>9. CASE NotForced
  <2>1. pc' \in Places
    BY <1>9 DEF NotForced, Places
  <2>2. head' \in Entry
    BY <1>9, Listed DEF NotForced
  <2> QED BY <1>9, <2>1, <2>2 DEF NotForced, TypeOK
<1>10. CASE StartMaintenance
  <2>1. pc' \in Places
    BY <1>10 DEF StartMaintenance, Places
  <2> QED BY <1>10, <2>1 DEF StartMaintenance, TypeOK
<1>11. CASE MaintenanceTakes
  BY <1>11, TakeType DEF MaintenanceTakes, Places
<1>12. CASE MaintenanceDrops
  <2>1. needed' \subseteq Flags
    BY <1>12, Listed DEF MaintenanceDrops, LookForMore, TypeOK
  <2>2. transId' \in Ids /\ due' \subseteq Docs /\ pc' \in Places
    BY <1>12 DEF MaintenanceDrops, TypeOK, Entry, Places
  <2> QED BY <1>12, <2>1, <2>2 DEF MaintenanceDrops, TypeOK
<1>13. CASE MaintenanceSync
  <2>1. pc' \in Places
    BY <1>13 DEF MaintenanceSync, Places
  <2>2. due' \subseteq Docs
    BY <1>13 DEF MaintenanceSync, TypeOK
  <2> QED BY <1>13, <2>1, <2>2 DEF MaintenanceSync, TypeOK
<1>14. CASE EndMaintenance
  <2>1. pc' \in Places
    BY <1>14 DEF EndMaintenance, Places
  <2>2. head' \in Entry
    BY <1>14, Listed DEF EndMaintenance
  <2> QED BY <1>14, <2>1, <2>2 DEF EndMaintenance, TypeOK
<1>15. CASE NoMaintenance
  <2>1. pc' \in Places
    BY <1>15 DEF NoMaintenance, Places
  <2> QED BY <1>15, <2>1 DEF NoMaintenance, TypeOK
<1>16. CASE Lock
  <2>1. maintDoc' \in BOOLEAN
    BY <1>16, Zenon DEF Lock, TypeOK
  <2> QED BY <1>16, <2>1 DEF Lock, TypeOK, Places
<1>17. CASE SyncNeeded
  <2>1. pc' \in Places
    BY <1>17 DEF SyncNeeded, Places
  <2> QED BY <1>17, <2>1 DEF SyncNeeded, TypeOK
<1>18. CASE NothingNeeded
  <2>1. pc' \in Places
    BY <1>18 DEF NothingNeeded, Places
  <2> QED BY <1>18, <2>1 DEF NothingNeeded, TypeOK
<1>19. CASE Sleep
  <2>1. pc' \in Places
    BY <1>19 DEF Sleep, Places
  <2>2. RequestOK'
    BY <1>19 DEF Sleep, TypeOK, RequestOK
  <2>3. FlagsOK'
    BY <1>19 DEF Sleep, TypeOK, FlagsOK
  <2>4. RunOK'
    BY <1>19 DEF Sleep, TypeOK, RunOK
  <2> QED BY <2>1, <2>2, <2>3, <2>4, ByParts
<1>20. CASE Wake
  <2>1. pc' \in {"woken", "timedout"} /\ UNCHANGED <<switch, asked>>
    BY <1>20, Zenon DEF Wake
  <2>2. pc' \in Places
    BY <2>1 DEF Places
  <2>3. signalled' = FALSE /\ UNCHANGED <<request, flags, run, supp, transId, due>>
    BY <1>20 DEF Wake
  <2>4. RequestOK'
    BY <2>1, <2>3 DEF TypeOK, RequestOK
  <2>5. FlagsOK'
    BY <2>1, <2>3 DEF TypeOK, FlagsOK
  <2>6. RunOK'
    BY <2>1, <2>3 DEF TypeOK, RunOK
  <2> QED BY <2>2, <2>4, <2>5, <2>6, ByParts
<1>21. CASE TakeFlags
  <2>1. pc' \in Places
    BY <1>21 DEF TakeFlags, Places
  <2>2. started' \subseteq Flags /\ needed' \subseteq Flags
    BY <1>21 DEF TakeFlags, TypeOK
  <2> QED BY <1>21, <2>1, <2>2 DEF TakeFlags, TypeOK
<1>22. CASE TakeRequest
  BY <1>22, TakeType DEF TakeRequest, Places
<1>23. CASE Accept
  <2>1. needed' \subseteq Flags
    BY <1>23, Listed DEF Accept, LookForMore, TypeOK
  <2>2. transId' \in Ids /\ pc' \in Places
    BY <1>23 DEF Accept, TypeOK, Entry, Places
  <2>3. syncDoc' \in SuppDocs \cup {NoDoc}
    BY <1>23 DEF Accept, TypeOK
  <2>4. forced' \in BOOLEAN /\ waitFlag' \in BOOLEAN /\ supp' \in BOOLEAN
    BY <1>23 DEF Accept, TypeOK
  <2> QED BY <1>23, <2>1, <2>2, <2>3, <2>4 DEF Accept, TypeOK
<1>24. CASE AfterTimeout
  <2>1. waitFlag' \in BOOLEAN
    BY <1>24, Zenon DEF AfterTimeout, TypeOK
  <2> QED BY <1>24, <2>1 DEF AfterTimeout, TypeOK, Places
<1>25. CASE LeaveLoop
  <2>1. pc' \in Places
    BY <1>25 DEF LeaveLoop, Places
  <2> QED BY <1>25, <2>1 DEF LeaveLoop, TypeOK
<1>26. CASE ResetFlags
  <2>1. pc' \in Places
    BY <1>26 DEF ResetFlags, Places
  <2>2. needed' \subseteq Flags /\ started' \subseteq Flags
    BY <1>26 DEF ResetFlags
  <2> QED BY <1>26, <2>1, <2>2 DEF ResetFlags, TypeOK
<1>27. CASE ResetQueue
  <2>1. pc' \in Places
    BY <1>27 DEF ResetQueue, Places
  <2>2. queue' \in Seq(Entry) /\ due' \subseteq Docs
    BY <1>27 DEF ResetQueue
  <2> QED BY <1>27, <2>1, <2>2 DEF ResetQueue, TypeOK
<1>28. CASE Exit
  <2>1. pc' \in Places
    BY <1>28 DEF Exit, Places
  <2> QED BY <1>28, <2>1 DEF Exit, TypeOK
<1>29. CASE NoPlaceForStatus
  <2>1. pc' \in Places
    BY <1>29 DEF NoPlaceForStatus, Places
  <2> QED BY <1>29, <2>1 DEF NoPlaceForStatus, TypeOK
<1> QED BY <1>1, <1>2, <1>3, <1>4, <1>5, <1>6, <1>7, <1>8, <1>9, <1>10, <1>11, <1>12, <1>13, <1>14, <1>15, <1>16, <1>17, <1>18, <1>19, <1>20, <1>21, <1>22, <1>23, <1>24, <1>25, <1>26, <1>27, <1>28, <1>29 DEF LoopStep

\* one for those it shares with the callers,
LEMMA RequestType ==
  ASSUME TypeOK, NEW t \in Threads, RequestStep(t)
  PROVE  TypeOK'
<1>1. CASE TestText(t)
  <2>1. stage' \in [Threads -> Stages] /\ id' \in [Threads -> Ids]
    BY <1>1, Listed DEF TestText, Return, TypeOK, Stages
  <2>2. text' \in Buffers /\ poked' \in BOOLEAN
    BY <1>1, Listed DEF TestText, TypeOK
  <2> QED BY <1>1, <2>1, <2>2 DEF TestText, TypeOK
<1>2. CASE UpdateEntry(t)
  <2>1. stage' \in [Threads -> Stages]
    BY <1>2 DEF UpdateEntry, TypeOK, Stages
  <2>2. queue' \in Seq(Entry)
    <3>1. CASE UNCHANGED queue
      BY <3>1 DEF TypeOK
    <3>2. ASSUME NEW i \in 1..Len(queue), queue' = [queue EXCEPT ![i].id = id[t]]
          PROVE  queue' \in Seq(Entry)
      <4>1. queue[i] \in Entry
        BY DEF TypeOK
      <4>2. [queue[i] EXCEPT !.id = id[t]] \in Entry
        BY <4>1 DEF TypeOK, Entry
      <4> QED BY <3>2, <4>2, ExceptSeq DEF TypeOK
    <3> QED BY <1>2, <3>1, <3>2 DEF UpdateEntry
  <2>3. due' \subseteq Docs
    BY <1>2, NamesInBuffer DEF UpdateEntry, TypeOK, Names
  <2> QED BY <1>2, <2>1, <2>2, <2>3 DEF UpdateEntry, TypeOK
<1>3. CASE AddEntry(t)
  <2>1. stage' \in [Threads -> Stages]
    BY <1>3 DEF AddEntry, TypeOK, Stages
  <2>2. AppendEntry(First(text), t) /\ First(text) \in Names
    BY <1>3, NamesInBuffer DEF AddEntry, TypeOK
  <2> QED BY <2>1, <2>2, AppendType
<1>4. CASE DeleteQueue(t)
  <2>1. stage' \in [Threads -> Stages]
    BY <1>4 DEF DeleteQueue, TypeOK, Stages
  <2>2. queue' \in Seq(Entry) /\ due' \subseteq Docs
    BY <1>4 DEF DeleteQueue
  <2> QED BY <1>4, <2>1, <2>2 DEF DeleteQueue, TypeOK
<1>5. CASE AddFirst(t)
  <2>1. stage' \in [Threads -> Stages]
    BY <1>5 DEF AddFirst, TypeOK, Stages
  <2>2. AppendEntry(First(text), t) /\ First(text) \in Names
    BY <1>5, NamesInBuffer DEF AddFirst, TypeOK
  <2> QED BY <2>1, <2>2, AppendType
<1>6. CASE AddSecond(t)
  <2>1. stage' \in [Threads -> Stages]
    BY <1>6 DEF AddSecond, TypeOK, Stages
  <2>2. AppendEntry(Second(text), t) /\ Second(text) \in Names
    BY <1>6, NamesInBuffer DEF AddSecond, TypeOK
  <2> QED BY <2>1, <2>2, AppendType
<1>7. CASE GoAhead(t)
  <2>1. stage' \in [Threads -> Stages]
    BY <1>7 DEF GoAhead, TypeOK, Stages
  <2> QED BY <1>7, <2>1 DEF GoAhead, TypeOK
<1>8. CASE Signal(t)
  <2>1. stage' \in [Threads -> Stages] /\ id' \in [Threads -> Ids]
    BY <1>8, Listed DEF Signal, Return, TypeOK, Stages
  <2>2. signalled' \in BOOLEAN
    BY <1>8 DEF Signal
  <2> QED BY <1>8, <2>1, <2>2 DEF Signal, TypeOK
<1> QED BY <1>1, <1>2, <1>3, <1>4, <1>5, <1>6, <1>7, <1>8 DEF RequestStep



\* and one for those of the callers alone.
LEMMA CallerType ==
  ASSUME TypeOK,
         \/ Poke \/ Disable \/ Enable \/ StartThread
         \/ \E t \in {"rbus", "wan"} : \/ Trigger(t) \/ CopyRoot(t) \/ Ignore(t)
                                      \/ SayLater(t) \/ Postpone(t)
  PROVE  TypeOK'
<1>1. CASE Poke
  <2>1. asked' \in 0..MaxRequests /\ asked' \in Ids
    BY <1>1, Listed, EnvironmentAssumption DEF Poke, TypeOK
  <2>2. stage' \in [Threads -> Stages] /\ id' \in [Threads -> Ids]
    BY <1>1, <2>1 DEF Poke, TypeOK, Stages
  <2>3. text' \in Buffers
    BY <1>1, Listed DEF Poke
  <2> QED BY <1>1, <2>1, <2>2, <2>3 DEF Poke, TypeOK
<1>2. CASE Disable
  <2>1. shutdown' \in BOOLEAN /\ signalled' \in BOOLEAN
    BY <1>2 DEF Disable
  <2>2. rfc' \in BOOLEAN /\ UNCHANGED <<request, flags, run, supp, transId, pc, asked, due>>
    BY <1>2, Zenon DEF Disable
  <2>3. toggles' \in 0..MaxToggles
    BY <1>2, EnvironmentAssumption DEF Disable, TypeOK
  <2> QED BY <2>1, <2>2, <2>3 DEF TypeOK
<1>3. CASE Enable
  <2>1. toggles' \in 0..MaxToggles
    BY <1>3, EnvironmentAssumption DEF Enable, TypeOK
  <2>2. stage' \in [Threads -> Stages]
    BY <1>3 DEF Enable, TypeOK, Stages
  <2>3. RequestOK'
    BY <1>3, <2>2 DEF Enable, TypeOK, RequestOK
  <2>4. FlagsOK'
    BY <1>3 DEF Enable, TypeOK, FlagsOK
  <2>5. RunOK'
    BY <1>3, <2>1 DEF Enable, TypeOK, RunOK
  <2>6. pc' \in Places
    BY <1>3 DEF Enable, TypeOK
  <2> QED BY <2>3, <2>4, <2>5, <2>6, ByParts
<1>4. CASE StartThread
  <2>1. rfc' \in BOOLEAN
    BY <1>4, EnvironmentAssumption, Zenon DEF StartThread
  <2>2. stage' \in [Threads -> Stages]
    BY <1>4 DEF StartThread, TypeOK, Stages
  <2>3. pc' \in Places /\ head' \in Entry /\ syncDoc' \in SuppDocs \cup {NoDoc}
    BY <1>4, Listed DEF StartThread, TypeOK, Places
  <2>4. forced' \in BOOLEAN /\ waitFlag' \in BOOLEAN /\ maintDoc' \in BOOLEAN
    BY <1>4, Zenon DEF StartThread, TypeOK
  <2> QED BY <1>4, <2>1, <2>2, <2>3, <2>4 DEF StartThread, TypeOK
<1>5. ASSUME NEW t \in {"rbus", "wan"},
             \/ Trigger(t) \/ CopyRoot(t) \/ Ignore(t) \/ SayLater(t) \/ Postpone(t)
      PROVE  TypeOK'
  <2>1. CASE Trigger(t)
    <3>1. asked' \in 0..MaxRequests /\ asked' \in Ids
      BY <2>1, Listed, EnvironmentAssumption DEF Trigger, TypeOK
    <3>2. stage' \in [Threads -> Stages] /\ id' \in [Threads -> Ids]
      BY <2>1, <3>1 DEF Trigger, TypeOK, Stages
    <3> QED BY <2>1, <3>1, <3>2, Listed DEF Trigger, TypeOK
  <2>2. CASE CopyRoot(t)
    <3>1. stage' \in [Threads -> Stages]
      BY <2>2 DEF CopyRoot, TypeOK, Stages
    <3>2. text' \in Buffers
      BY <2>2, Listed DEF CopyRoot
    <3> QED BY <2>2, <3>1, <3>2 DEF CopyRoot, TypeOK
  <2>3. CASE Ignore(t)
    <3>1. stage' \in [Threads -> Stages] /\ id' \in [Threads -> Ids]
      BY <2>3, Listed DEF Ignore, Return, TypeOK, Stages
    <3> QED BY <2>3, <3>1 DEF Ignore, TypeOK
  <2>4. CASE SayLater(t)
    <3>1. stage' \in [Threads -> Stages]
      BY <2>4 DEF SayLater, TypeOK, Stages
    <3> QED BY <2>4, <3>1 DEF SayLater, TypeOK
  <2>5. CASE Postpone(t)
    <3>1. stage' \in [Threads -> Stages] /\ id' \in [Threads -> Ids]
      BY <2>5, Listed DEF Postpone, Return, TypeOK, Stages
    <3>2. needed' \subseteq Flags
      BY <2>5, Listed DEF Postpone, TypeOK
    <3> QED BY <2>5, <3>1, <3>2 DEF Postpone, TypeOK
  <2> QED BY <1>5, <2>1, <2>2, <2>3, <2>4, <2>5
<1> QED BY <1>1, <1>2, <1>3, <1>4, <1>5

\* No step takes a variable out of its type.
LEMMA NextType == TypeOK /\ [Next]_vars => TypeOK'
<1> SUFFICES ASSUME TypeOK, [Next]_vars PROVE TypeOK'
  OBVIOUS
<1>1. CASE MainStep
  BY <1>1, MainType, RequestType DEF MainStep, Threads
<1>2. CASE CallerStep
  BY <1>2, CallerType, RequestType, Zenon DEF CallerStep, Threads
<1>3. CASE UNCHANGED vars
  BY <1>3 DEF vars, TypeOK
<1> QED BY <1>1, <1>2, <1>3 DEF Next

\* Every variable keeps its type: the queue is a list of names with ids, the
\* buffer holds a request, whole or cut in two, whoever wrote it last.
THEOREM TypeCorrect == Spec => []TypeOK
<1>1. Init => TypeOK
  BY InitType
<1>2. TypeOK /\ [Next]_vars => TypeOK'
  BY NextType
<1> QED BY <1>1, <1>2, PTL DEF Spec


-----------------------------------------------------------------------------
(* What the steps of the callers do not touch.                              *)

\* The steps that the callers share with the main loop leave the loop alone.
LEMMA RequestsLeaveLoop ==
  ASSUME NEW t, RequestStep(t)
  PROVE  /\ UNCHANGED <<run, supp, transId, pc, switch>>
         /\ UNCHANGED signalled \/ signalled' = (pc = "waiting")
BY DEF RequestStep, TestText, UpdateEntry, AddEntry, DeleteQueue, AddFirst,
       AddSecond, AppendEntry, GoAhead, Signal

\* So do the others, but for the start of the thread.
LEMMA CallersLeaveLoop ==
  ASSUME CallerStep
  PROVE  StartThread \/ UNCHANGED <<run, supp, transId, pc>>
BY RequestsLeaveLoop
   DEF CallerStep, Poke, Disable, Enable, Trigger, CopyRoot, Ignore, SayLater,
       Postpone

-----------------------------------------------------------------------------
(* The end of the thread is not slept through. While sync_mutex is held on  *)
(* the way to the wait, g_shutdown stays as it was found: both its setters  *)
(* take the mutex.                                                          *)

HeldRunning == pc \in {"check", "sleepy"} => ~shutdown
ShutdownInv == HeldRunning /\ ShutdownNoticed

\* The main loop comes to its wait by Lock, NothingNeeded and Sleep only.
LEMMA WayToWait ==
  ASSUME LoopStep \/ NoPlaceForStatus
  PROVE  /\ shutdown' = shutdown
         /\ \/ Lock \/ NothingNeeded \/ Sleep
            \/ pc' \notin {"check", "sleepy", "waiting"}
<1>1. CASE \/ BecomeReady \/ BootSync \/ BootSupplementary \/ EndBoot
           \/ StartForced \/ EndForced \/ ClearText \/ EndClear \/ NotForced
  BY <1>1 DEF BecomeReady, BootSync, BootSupplementary, EndBoot, StartForced,
              EndForced, ClearText, EndClear, NotForced
<1>2. CASE \/ StartMaintenance \/ MaintenanceTakes \/ MaintenanceDrops
           \/ MaintenanceSync \/ EndMaintenance \/ NoMaintenance
  BY <1>2 DEF StartMaintenance, MaintenanceTakes, MaintenanceDrops,
              MaintenanceSync, EndMaintenance, NoMaintenance, Take
<1>3. CASE \/ SyncNeeded \/ TakeFlags \/ TakeRequest \/ Accept \/ AfterTimeout
  BY <1>3 DEF SyncNeeded, TakeFlags, TakeRequest, Accept, AfterTimeout, Take
<1>4. CASE \/ LeaveLoop \/ ResetFlags \/ ResetQueue \/ Exit \/ NoPlaceForStatus
  BY <1>4 DEF LeaveLoop, ResetFlags, ResetQueue, Exit, NoPlaceForStatus
<1>5. CASE Wake
  <2>1. pc' \in {"woken", "timedout"} /\ UNCHANGED switch
    BY <1>5, Zenon DEF Wake
  <2> QED BY <2>1
<1>6. CASE Lock \/ NothingNeeded \/ Sleep
  BY <1>6 DEF Lock, NothingNeeded, Sleep
<1> QED BY <1>1, <1>2, <1>3, <1>4, <1>5, <1>6 DEF LoopStep

LEMMA ShutdownStep == ShutdownInv /\ [Next]_vars => ShutdownInv'
<1> SUFFICES ASSUME ShutdownInv, [Next]_vars PROVE ShutdownInv'
  OBVIOUS
<1> USE DEF ShutdownInv, HeldRunning, ShutdownNoticed
<1>1. CASE LoopStep \/ NoPlaceForStatus
  <2>1. CASE Lock
    BY <2>1 DEF Lock
  <2>2. CASE NothingNeeded
    BY <2>2 DEF NothingNeeded
  <2>3. CASE Sleep
    BY <2>3 DEF Sleep
  <2> QED BY <1>1, <2>1, <2>2, <2>3, WayToWait
<1>2. ASSUME NEW t, RequestStep(t) PROVE ShutdownInv'
  BY <1>2, RequestsLeaveLoop
<1>3. CASE Disable
  BY <1>3 DEF Disable, Holding
<1>4. CASE Enable
  BY <1>4 DEF Enable
<1>5. CASE StartThread
  BY <1>5 DEF StartThread
<1>6. CASE Poke
  BY <1>6 DEF Poke
<1>7. ASSUME NEW t, \/ Trigger(t) \/ CopyRoot(t) \/ Ignore(t) \/ SayLater(t) \/ Postpone(t)
      PROVE  ShutdownInv'
  BY <1>7 DEF Trigger, CopyRoot, Ignore, SayLater, Postpone
<1>8. CASE UNCHANGED vars
  BY <1>8 DEF vars
<1> QED
  BY <1>1, <1>2, <1>3, <1>4, <1>5, <1>6, <1>7, <1>8 DEF Next, MainStep, CallerStep

\* Whoever switches RfcEnable off, and whenever: the main loop never sleeps
\* through it.
THEOREM ShutdownNoticedCorrect == Spec => []ShutdownNoticed
<1>1. Init => ShutdownInv
  BY DEF Init, ShutdownInv, HeldRunning, ShutdownNoticed
<1>2. ShutdownInv /\ [Next]_vars => ShutdownInv'
  BY ShutdownStep
<1>3. ShutdownInv => ShutdownNoticed
  BY DEF ShutdownInv
<1> QED BY <1>1, <1>2, <1>3, PTL DEF Spec


-----------------------------------------------------------------------------
(* A forced sync is the request taken for it. The locals and globals that a *)
(* sync reads are clean whenever none is prepared: only then may the next   *)
(* request leave them as they are.                                          *)

Fits ==
  /\ syncDoc = (IF head.val \in SuppDocs THEN head.val ELSE NoDoc)
  /\ supp <=> syncDoc # NoDoc
  /\ transId = head.id

SyncInv ==
  /\ pc \in {"top", "syncing"} /\ forced => Fits
  /\ pc = "syncing" => forced
  /\ pc \notin {"top", "syncing"} \/ ~forced => syncDoc = NoDoc
  /\ forced => pc \in {"woken", "pop", "popped", "top", "syncing", "joining",
                      "deleting", "exiting", "off"}
  /\ \/ pc \in {"maint", "lock", "check", "sleepy", "waiting", "woken", "pop",
                "popped", "timedout"}
     \/ pc = "top" /\ ~forced
     => ~supp

LEMMA SyncLoop ==
  ASSUME SyncInv, LoopStep \/ NoPlaceForStatus
  PROVE  SyncInv'
<1> USE DEF SyncInv, Fits
<1>1. CASE BecomeReady
  BY <1>1 DEF BecomeReady
<1>2. CASE BootSync
  BY <1>2 DEF BootSync
<1>3. CASE BootSupplementary
  BY <1>3 DEF BootSupplementary
<1>4. CASE EndBoot
  BY <1>4 DEF EndBoot
<1>5. CASE StartForced
  BY <1>5 DEF StartForced
<1>6. CASE EndForced
  BY <1>6 DEF EndForced
<1>7. CASE ClearText
  BY <1>7 DEF ClearText
<1>8. CASE EndClear
  BY <1>8 DEF EndClear
<1>9. CASE NotForced
  BY <1>9 DEF NotForced
<1>10. CASE StartMaintenance
  BY <1>10 DEF StartMaintenance
<1>11. CASE MaintenanceTakes
  BY <1>11 DEF MaintenanceTakes, Take
<1>12. CASE MaintenanceDrops
  BY <1>12 DEF MaintenanceDrops, LookForMore
<1>13. CASE MaintenanceSync
  BY <1>13 DEF MaintenanceSync
<1>14. CASE EndMaintenance
  BY <1>14 DEF EndMaintenance
<1>15. CASE NoMaintenance
  BY <1>15 DEF NoMaintenance
<1>16. CASE Lock
  BY <1>16 DEF Lock
<1>17. CASE SyncNeeded
  BY <1>17 DEF SyncNeeded
<1>18. CASE NothingNeeded
  BY <1>18 DEF NothingNeeded
<1>19. CASE Sleep
  BY <1>19 DEF Sleep
<1>20. CASE Wake
  BY <1>20 DEF Wake
<1>21. CASE TakeFlags
  BY <1>21 DEF TakeFlags
<1>22. CASE TakeRequest
  BY <1>22 DEF TakeRequest, Take
<1>23. CASE Accept
  BY <1>23, NamesAssumption DEF Accept, LookForMore
<1>24. CASE AfterTimeout
  BY <1>24 DEF AfterTimeout
<1>25. CASE LeaveLoop
  BY <1>25 DEF LeaveLoop
<1>26. CASE ResetFlags
  BY <1>26 DEF ResetFlags
<1>27. CASE ResetQueue
  BY <1>27 DEF ResetQueue
<1>28. CASE Exit
  BY <1>28 DEF Exit
<1>29. CASE NoPlaceForStatus
  BY <1>29 DEF NoPlaceForStatus
<1> QED BY <1>1, <1>2, <1>3, <1>4, <1>5, <1>6, <1>7, <1>8, <1>9, <1>10, <1>11, <1>12, <1>13, <1>14, <1>15, <1>16, <1>17, <1>18, <1>19, <1>20, <1>21, <1>22, <1>23, <1>24, <1>25, <1>26, <1>27, <1>28, <1>29 DEF LoopStep

LEMMA SyncStep == SyncInv /\ [Next]_vars => SyncInv'
<1> SUFFICES ASSUME SyncInv, [Next]_vars PROVE SyncInv'
  OBVIOUS
<1>1. CASE UNCHANGED <<run, supp, transId, pc>>
  BY <1>1 DEF SyncInv, Fits
<1>2. CASE StartThread
  BY <1>2 DEF StartThread, SyncInv, Fits
<1>3. CASE MainStep
  BY <1>1, <1>3, SyncLoop, RequestsLeaveLoop DEF MainStep
<1>4. CASE CallerStep
  BY <1>1, <1>2, <1>4, CallersLeaveLoop
<1>5. CASE UNCHANGED vars
  BY <1>1, <1>5 DEF vars
<1> QED BY <1>3, <1>4, <1>5 DEF Next

LEMMA SyncInit == Init => SyncInv
BY DEF Init, SyncInv, Fits, NoHead

\* No forced sync fetches a document left over from the one before, runs as
\* primary or supplementary by mistake, or reports another request's id.
THEOREM SyncIsTheRequestCorrect == Spec => []SyncIsTheRequest
<1>1. Init => SyncInv
  BY SyncInit
<1>2. SyncInv /\ [Next]_vars => SyncInv'
  BY SyncStep
<1>3. SyncInv => SyncIsTheRequest
  BY DEF SyncInv, Fits, SyncIsTheRequest
<1> QED BY <1>1, <1>2, <1>3, PTL DEF Spec


-----------------------------------------------------------------------------
(* No queued request is lost.                                               *)

\* Taking the first request: it is in "head", and the others stay.
LEMMA TakeKeeps ==
  ASSUME TypeOK, NEW p, Take(p), NEW d \in Docs, Queued(d)
  PROVE  (Queued(d))' \/ head'.val = d
<1>1. PICK i \in 1..Len(queue) : queue[i].val = d
  BY DEF Queued
<1>2. queue # <<>> /\ queue \in Seq(Entry)
  BY <1>1 DEF TypeOK
<1>3. head' = queue[1] /\ queue' = Tail(queue)
  BY <1>2 DEF Take
<1>4. CASE i = 1
  BY <1>1, <1>3, <1>4
<1>5. CASE i # 1
  <2>1. i - 1 \in 1..Len(Tail(queue)) /\ Tail(queue)[i - 1] = queue[i]
    BY <1>2, <1>5, HeadTailProperties
  <2> QED BY <1>1, <1>3, <2>1 DEF Queued
<1> QED BY <1>4, <1>5

\* Adding a request: it is queued, and the others stay.
LEMMA AppendKeeps ==
  ASSUME TypeOK, NEW t, NEW x, AppendEntry(x, t)
  PROVE  /\ \A d : Queued(d) => (Queued(d))'
         /\ (Queued(x))'
<1> DEFINE e == [val |-> x, id |-> id[t]]
<1>1. /\ queue' = Append(queue, e)
      /\ Len(queue) \in Nat /\ Len(queue') = Len(queue) + 1
      /\ \A i \in 1..Len(queue) : queue'[i] = queue[i]
      /\ queue'[Len(queue) + 1] = e
  BY DEF AppendEntry, TypeOK
<1>2. e.val = x
  OBVIOUS
<1> HIDE DEF e
<1>3. (Queued(x))'
  BY <1>1, <1>2 DEF Queued
<1>4. ASSUME NEW d, Queued(d) PROVE (Queued(d))'
  BY <1>1, <1>4 DEF Queued
<1> QED BY <1>3, <1>4

\* Updating a request: it was queued, and every name still is.
LEMMA UpdateKeeps ==
  ASSUME TypeOK, NEW t, UpdateEntry(t)
  PROVE  /\ \A d : Queued(d) => (Queued(d))'
         /\ \A d \in due' : d \in due \/ (Queued(d))'
<1>1. CASE UNCHANGED <<queue, due>>
  BY <1>1 DEF Queued
<1>2. ASSUME NEW i \in 1..Len(queue), queue[i].val = First(text),
             queue' = [queue EXCEPT ![i].id = id[t]],
             due' = due \cup ({First(text)} \ {NoDoc})
      PROVE  /\ \A d : Queued(d) => (Queued(d))'
             /\ \A d \in due' : d \in due \/ (Queued(d))'
  <2>1. /\ Len(queue') = Len(queue)
        /\ \A j \in 1..Len(queue) : queue'[j].val = queue[j].val
    BY <1>2 DEF TypeOK, Entry
  <2> QED BY <1>2, <2>1 DEF Queued
<1> QED BY <1>1, <1>2 DEF UpdateEntry

\* A step that leaves the queue and the loop alone, and asks for nothing more.
LEMMA NothingChanges ==
  ASSUME NoneLost, UNCHANGED <<queue, run, pc>>, due' \subseteq due
  PROVE  NoneLost'
BY DEF NoneLost, Queued, NextUp, Fetches

\* Steps of the main loop that start where nothing has been taken out.
LEMMA NothingTaken ==
  ASSUME NoneLost, UNCHANGED queue, due' \subseteq due,
         pc \notin {"popped", "maintTaken", "maintSync"}, ~(pc = "top" /\ forced)
  PROVE  NoneLost'
BY DEF NoneLost, Queued, NextUp

LEMMA NoneLostLoop ==
  ASSUME TypeOK, SyncInv, NoneLost, LoopStep \/ NoPlaceForStatus
  PROVE  NoneLost'
<1>1. CASE StartForced
  BY <1>1 DEF StartForced, NoneLost, Queued, NextUp
<1>2. ASSUME NEW p \in {"maintTaken", "popped"}, Take(p), pc \in {"maintTake", "pop"}
      PROVE  NoneLost'
  <2>1. \A d \in due : Queued(d)
    BY <1>2 DEF NoneLost, NextUp
  <2>2. due' = due /\ due \subseteq Docs /\ pc' = p
    BY <1>2 DEF Take, TypeOK
  <2>3. \A d \in due : (Queued(d))' \/ head'.val = d
    BY <1>2, <2>1, <2>2, TakeKeeps
  <2> QED BY <2>2, <2>3 DEF NoneLost, NextUp
<1>3. CASE MaintenanceDrops
  BY <1>3 DEF MaintenanceDrops, NoneLost, Queued, NextUp
<1>4. CASE MaintenanceSync
  BY <1>4 DEF MaintenanceSync, NoneLost, Queued, NextUp
<1>5. CASE Accept
  <2>1. UNCHANGED <<queue, due, head>> /\ pc' = "top"
    BY <1>5 DEF Accept
  <2>2. ASSUME NEW d \in due, head.val = d
        PROVE  forced' /\ d \in Fetches(syncDoc')
    <3>1. d \in Docs /\ d # NoDoc
      BY NamesAssumption DEF TypeOK, NoDoc
    <3>2. syncDoc = NoDoc
      BY <1>5 DEF Accept, SyncInv
    <3>3. forced' = TRUE /\ syncDoc' = IF d \in SuppDocs THEN d ELSE NoDoc
      BY <1>5, <2>2, <3>1, <3>2 DEF Accept
    <3> QED BY <3>1, <3>3 DEF Fetches
  <2>3. \A d \in due : Queued(d) \/ head.val = d
    BY <1>5 DEF Accept, NoneLost, NextUp
  <2> QED BY <2>1, <2>2, <2>3 DEF NoneLost, Queued, NextUp
<1>6. CASE ResetQueue
  BY <1>6 DEF ResetQueue, NoneLost
<1>7. CASE \/ BecomeReady \/ BootSync \/ BootSupplementary \/ EndBoot
           \/ EndForced \/ ClearText \/ EndClear \/ NotForced
           \/ StartMaintenance \/ EndMaintenance \/ NoMaintenance \/ Lock
           \/ SyncNeeded \/ NothingNeeded \/ Sleep \/ Wake
           \/ TakeFlags \/ AfterTimeout \/ LeaveLoop \/ ResetFlags
           \/ Exit \/ NoPlaceForStatus
  BY <1>7, NothingTaken
     DEF BecomeReady, BootSync, BootSupplementary,
         EndBoot, EndForced, ClearText, EndClear, NotForced, StartMaintenance,
         EndMaintenance, NoMaintenance, Lock, SyncNeeded, NothingNeeded,
         Sleep, Wake, TakeFlags, AfterTimeout, LeaveLoop, ResetFlags, Exit,
         NoPlaceForStatus
<1>8. CASE MaintenanceTakes \/ TakeRequest
  BY <1>2, <1>8 DEF MaintenanceTakes, TakeRequest
<1> QED BY <1>1, <1>3, <1>4, <1>5, <1>6, <1>7, <1>8 DEF LoopStep

LEMMA NoneLostRequest ==
  ASSUME TypeOK, NoneLost, NEW t, RequestStep(t)
  PROVE  NoneLost'
<1>1. UNCHANGED <<run, pc>>
  BY RequestsLeaveLoop
<1>2. CASE TestText(t) \/ GoAhead(t) \/ Signal(t)
  BY <1>1, <1>2, NothingChanges DEF TestText, GoAhead, Signal
<1>3. CASE DeleteQueue(t)
  BY <1>3 DEF DeleteQueue, NoneLost
<1>4. CASE UpdateEntry(t)
  BY <1>1, <1>4, UpdateKeeps DEF NoneLost, NextUp, Fetches
<1>5. ASSUME NEW x, AppendEntry(x, t) PROVE NoneLost'
  <2>1. due' = due \cup ({x} \ {NoDoc})
    BY <1>5 DEF AppendEntry
  <2> QED BY <1>1, <1>5, <2>1, AppendKeeps DEF NoneLost, NextUp, Fetches
<1> QED
  BY <1>2, <1>3, <1>4, <1>5 DEF RequestStep, AddEntry, AddFirst, AddSecond

LEMMA NoneLostStep == TypeOK /\ SyncInv /\ NoneLost /\ [Next]_vars => NoneLost'
<1> SUFFICES ASSUME TypeOK, SyncInv, NoneLost, [Next]_vars PROVE NoneLost'
  OBVIOUS
<1>1. CASE MainStep
  BY <1>1, NoneLostLoop, NoneLostRequest DEF MainStep
<1>2. CASE StartThread
  BY <1>2, NothingTaken, NothingChanges DEF StartThread
<1>3. CASE Poke \/ Disable \/ Enable
  BY <1>3, NothingChanges DEF Poke, Disable, Enable
<1>4. ASSUME NEW t, \/ Trigger(t) \/ CopyRoot(t) \/ Ignore(t) \/ SayLater(t) \/ Postpone(t)
      PROVE  NoneLost'
  BY <1>4, NothingChanges DEF Trigger, CopyRoot, Ignore, SayLater, Postpone
<1>5. CASE UNCHANGED vars
  BY <1>5, NothingChanges DEF vars
<1> QED
  BY <1>1, <1>2, <1>3, <1>4, <1>5, NoneLostRequest DEF Next, CallerStep

\* Whatever the callers and the main loop do to the queue, the flags and the
\* buffer at the same time: what has been asked for is queued until a sync of it
\* begins, unless the maintenance window, a bundle or the end of the thread
\* takes it out.
THEOREM NoneLostCorrect == Spec => []NoneLost
<1>1. Init => TypeOK /\ SyncInv /\ NoneLost
  BY InitType, SyncInit DEF Init, NoneLost
<1>2. TypeOK /\ SyncInv /\ NoneLost /\ [Next]_vars => (TypeOK /\ SyncInv /\ NoneLost)'
  BY NextType, SyncStep, NoneLostStep
<1> QED BY <1>1, <1>2, PTL DEF Spec
=============================================================================
