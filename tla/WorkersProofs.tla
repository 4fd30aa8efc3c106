---------------------------- MODULE WorkersProofs ----------------------------
(***************************************************************************)
(* Proofs about Workers, for any number of messages and switches: type     *)
(* correctness, no lost wakeup, no worker left when the lists are deleted, *)
(* and that both queues implement Mailbox.                                 *)
(***************************************************************************)
EXTENDS Workers, SequenceTheorems, TLAPS

States == {"none", "run", "busy", "waiting", "done"}

USE DEF Messages

------------------------------------------------------------------------------
(* Type correctness.                                                        *)

\* A sequence of messages stays one when a message is appended to it or taken.
LEMMA SeqOfMessages ==
  ASSUME NEW s \in Seq(Messages), NEW m \in Messages
  PROVE  /\ Append(s, m) \in Seq(Messages)
         /\ s # <<>> => Head(s) \in Messages /\ Tail(s) \in Seq(Messages)
  BY AppendProperties, HeadTailProperties

LEMMA InitType == Init => TypeOK
<1> SUFFICES ASSUME Init PROVE TypeOK
  OBVIOUS
<1>1. <<>> \in Seq(Messages)
  BY EmptySeq
<1>2. at \in [Workers -> States]
  BY DEF Init, States
<1>3. queue \in [Consumers -> Seq(Messages)] /\ taken \in [Consumers -> Seq(Messages)]
  BY <1>1 DEF Init
<1>4. /\ shutdown \in BOOLEAN /\ rfc \in BOOLEAN /\ main = "starting" /\ rbus = "idle"
      /\ signalled \subseteq Consumers
  BY DEF Init
<1>5. posted \in 0..MaxMessages /\ toggles \in 0..MaxToggles
  BY BoundsAssumption DEF Init
<1> QED
  BY <1>2, <1>3, <1>4, <1>5 DEF TypeOK, States

LEMMA PostType ==
  ASSUME TypeOK, NEW c \in Consumers, Post(c)
  PROVE  TypeOK'
<1>1. posted + 1 \in Messages /\ posted' \in 0..MaxMessages
  BY BoundsAssumption DEF TypeOK, Post
<1>2. queue' \in [Consumers -> Seq(Messages)]
  <2>1. Append(queue[c], posted + 1) \in Seq(Messages)
    BY <1>1, SeqOfMessages DEF TypeOK
  <2> QED
    BY <2>1 DEF Post, TypeOK
<1>3. signalled' \subseteq Consumers
  BY DEF Post, Signalled, TypeOK
<1>4. taken' = taken /\ UNCHANGED mainVars /\ at' = at
  BY DEF Post
<1> QED
  BY <1>1, <1>2, <1>3, <1>4 DEF TypeOK, mainVars

LEMMA TakeType ==
  ASSUME TypeOK, NEW c \in Consumers, Take(c)
  PROVE  TypeOK'
<1>1. Head(queue[c]) \in Messages /\ Tail(queue[c]) \in Seq(Messages)
  BY SeqOfMessages, HeadTailProperties DEF TypeOK, Take
<1>2. Append(taken[c], Head(queue[c])) \in Seq(Messages)
  BY <1>1, SeqOfMessages DEF TypeOK
<1>3. queue' \in [Consumers -> Seq(Messages)]
  BY <1>1 DEF Take, TypeOK
<1>4. taken' \in [Consumers -> Seq(Messages)]
  BY <1>2 DEF Take, TypeOK
<1>5. at' \in [Workers -> States]
  BY DEF Take, TypeOK, States, Consumers, Workers
<1>6. UNCHANGED mainVars /\ signalled' = signalled /\ posted' = posted
  BY DEF Take
<1> QED
  BY <1>3, <1>4, <1>5, <1>6 DEF TypeOK, mainVars, States

LEMMA OwnStepType ==
  ASSUME TypeOK, NEW c \in Consumers, Handled(c) \/ Leave(c) \/ Wait(c) \/ Wake(c)
  PROVE  TypeOK'
<1>1. at' \in [Workers -> States]
  BY DEF TypeOK, States, Workers, Handled, Leave, Wait, Wake
<1>2. signalled' \subseteq Consumers
  BY DEF TypeOK, Handled, Leave, Wait, Wake
<1>3. UNCHANGED <<mainVars, queueVars>>
  BY DEF Handled, Leave, Wait, Wake
<1> QED
  BY <1>1, <1>2, <1>3 DEF TypeOK, mainVars, queueVars, States

LEMMA ProducerType ==
  ASSUME TypeOK,
         TimerSleeps \/ TimerWakes \/ ClientReceives \/ ClientReturns
  PROVE  TypeOK'
<1>1. at' \in [Workers -> States]
  BY DEF TypeOK, States, Workers, TimerSleeps, TimerWakes, ClientReceives,
         ClientReturns
<1>2. UNCHANGED <<mainVars, signalled, queueVars>>
  BY DEF TimerSleeps, TimerWakes, ClientReceives, ClientReturns
<1> QED
  BY <1>1, <1>2 DEF TypeOK, mainVars, queueVars, States

LEMMA MainType ==
  ASSUME TypeOK, MainStep
  PROVE  TypeOK'
<1> USE DEF Workers, Consumers
<1>1. at' \in [Workers -> States]
  <2>1. CASE StartNotify \/ StartClient \/ StartEvents
    BY <2>1 DEF TypeOK, States, StartNotify, StartClient, StartEvents, Create
  <2>2. CASE LeaveLoop \/ WakeNotify \/ WakeProcess \/ Exit
    BY <2>2 DEF TypeOK, States, LeaveLoop, WakeNotify, WakeProcess, Exit, Signals
  <2>3. CASE JoinProcess \/ JoinTimer \/ JoinNotify \/ JoinClient
    BY <2>3 DEF TypeOK, States, JoinProcess, JoinTimer, JoinNotify, JoinClient, Join
  <2> QED
    BY <2>1, <2>2, <2>3 DEF MainStep
<1>2. signalled' \subseteq Consumers
  BY DEF TypeOK, MainStep, StartNotify, StartClient, StartEvents, Create, LeaveLoop,
         WakeNotify, WakeProcess, Exit, Signals, JoinProcess, JoinTimer, JoinNotify,
         JoinClient, Join
<1>3. main' \in {"off", "connecting", "connected", "serving", "wakeNotify",
                 "wakeProcess", "joinProcess", "joinTimer", "joinNotify",
                 "joinClient", "cleanup"}
  BY DEF MainStep, StartNotify, StartClient, StartEvents, Create, LeaveLoop,
         WakeNotify, WakeProcess, Exit, Signals, JoinProcess, JoinTimer, JoinNotify,
         JoinClient, Join
<1>4. UNCHANGED <<shutdown, rfc, rbus, toggles, queueVars>>
  BY DEF MainStep, StartNotify, StartClient, StartEvents, Create, LeaveLoop,
         WakeNotify, WakeProcess, Exit, Signals, JoinProcess, JoinTimer, JoinNotify,
         JoinClient, Join
<1> QED
  BY <1>1, <1>2, <1>3, <1>4 DEF TypeOK, queueVars, States

LEMMA SwitchType ==
  ASSUME TypeOK, Disable \/ Enable \/ StartThread
  PROVE  TypeOK'
<1>1. UNCHANGED <<at, signalled, queueVars>>
  BY DEF Disable, Enable, StartThread
<1>2. /\ rbus' \in {"idle", "enable"}
      /\ toggles' \in 0..MaxToggles
  BY BoundsAssumption DEF TypeOK, Disable, Enable, StartThread
<1>3. shutdown' \in BOOLEAN /\ rfc' \in BOOLEAN
  BY DEF TypeOK, Disable, Enable, StartThread
<1>4. main' = main \/ main' = "starting"
  BY DEF Disable, Enable, StartThread
<1> QED
  BY <1>1, <1>2, <1>3, <1>4 DEF TypeOK, queueVars

\* A step is a message posted, a message taken, or leaves queues and histories.
LEMMA Steps ==
  ASSUME Next
  PROVE  \/ \E c \in Consumers : Post(c)
         \/ \E c \in Consumers : Take(c)
         \/ \E c \in Consumers : Handled(c) \/ Leave(c) \/ Wait(c) \/ Wake(c)
         \/ TimerSleeps \/ TimerWakes \/ ClientReceives \/ ClientReturns
         \/ MainStep
         \/ Disable \/ Enable \/ StartThread
<1>1. CASE TimerStep \/ ClientStep
  BY <1>1 DEF TimerStep, ClientStep, TimerExpires, ClientPosts, Consumers
<1>2. CASE ProcessNotifies \/ MainNotifies \/ BusEvent
  BY <1>2 DEF ProcessNotifies, MainNotifies, BusEvent, Consumers
<1>3. CASE \E c \in Consumers : ConsumerStep(c)
  BY <1>3 DEF ConsumerStep
<1> QED
  BY <1>1, <1>2, <1>3 DEF Next

LEMMA NextType ==
  ASSUME TypeOK, [Next]_vars
  PROVE  TypeOK'
<1>1. CASE Next
  BY <1>1, Steps, PostType, TakeType, OwnStepType, ProducerType, MainType, SwitchType
<1>2. CASE UNCHANGED vars
  BY <1>2 DEF vars, mainVars, queueVars, TypeOK
<1> QED
  BY <1>1, <1>2

\* Every variable keeps its type.
THEOREM TypeCorrect == Spec => []TypeOK
<1> QED
  BY InitType, NextType, PTL DEF Spec

------------------------------------------------------------------------------
(* No lost wakeup.                                                          *)

LEMMA NextAwake ==
  ASSUME TypeOK, NoLostWakeup, [Next]_vars
  PROVE  NoLostWakeup'
<1> SUFFICES ASSUME NEW d \in Consumers, at'[d] = "waiting", d \notin signalled'
             PROVE  queue'[d] = <<>>
  BY DEF NoLostWakeup
<1> USE DEF NoLostWakeup
<1>1. ASSUME NEW c \in Consumers, Post(c)
      PROVE  queue'[d] = <<>>
  <2>1. at'[d] = at[d] /\ signalled \subseteq signalled'
    BY <1>1 DEF Post, Signalled
  <2>2. queue[d] = <<>>
    BY <2>1
  <2>3. c # d
    BY <1>1, <2>1, <2>2 DEF Post, Signalled
  <2>4. queue'[d] = queue[d]
    BY <1>1, <2>3 DEF Post, TypeOK
  <2> QED
    BY <2>2, <2>4
<1>2. ASSUME NEW c \in Consumers, Take(c)
      PROVE  queue'[d] = <<>>
  <2>1. c # d
    BY <1>2 DEF Take, TypeOK, Workers
  <2>2. at'[d] = at[d] /\ queue'[d] = queue[d] /\ signalled' = signalled
    BY <1>2, <2>1 DEF Take, TypeOK, Workers
  <2> QED
    BY <2>2
<1>3. ASSUME NEW c \in Consumers, Handled(c) \/ Leave(c) \/ Wait(c) \/ Wake(c)
      PROVE  queue'[d] = <<>>
  <2>1. queue' = queue
    BY <1>3 DEF Handled, Leave, Wait, Wake, queueVars
  <2>2. CASE c = d
    BY <1>3, <2>1, <2>2 DEF Handled, Leave, Wait, Wake, TypeOK, Workers
  <2>3. CASE c # d
    <3>1. at'[d] = at[d] /\ (d \in signalled => d \in signalled')
      BY <1>3, <2>3 DEF Handled, Leave, Wait, Wake, TypeOK, Workers
    <3> QED
      BY <2>1, <3>1
  <2> QED
    BY <2>2, <2>3
<1>4. CASE TimerSleeps \/ TimerWakes \/ ClientReceives \/ ClientReturns
  <2>1. queue' = queue /\ signalled' = signalled
    BY <1>4 DEF TimerSleeps, TimerWakes, ClientReceives, ClientReturns, queueVars
  <2>2. at'[d] = at[d]
    BY <1>4 DEF TimerSleeps, TimerWakes, ClientReceives, ClientReturns, TypeOK,
                Workers, Consumers
  <2> QED
    BY <2>1, <2>2
<1>5. CASE MainStep
  <2>1. queue' = queue /\ signalled \subseteq signalled'
    BY <1>5 DEF MainStep, StartNotify, StartClient, StartEvents, Create, LeaveLoop,
         WakeNotify, WakeProcess, Exit, Signals, JoinProcess, JoinTimer, JoinNotify,
         JoinClient, Join, queueVars
  <2>2. at[d] = "waiting"
    <3>1. CASE StartNotify \/ StartClient \/ StartEvents
      BY <3>1 DEF StartNotify, StartClient, StartEvents, Create, Workers
    <3>2. CASE LeaveLoop \/ WakeNotify \/ WakeProcess \/ Exit
      BY <3>2 DEF LeaveLoop, WakeNotify, WakeProcess, Exit, Signals
    <3>3. CASE JoinProcess \/ JoinTimer \/ JoinNotify \/ JoinClient
      BY <3>3 DEF TypeOK, Workers, JoinProcess, JoinTimer, JoinNotify, JoinClient, Join
    <3> QED
      BY <1>5, <3>1, <3>2, <3>3 DEF MainStep
  <2> QED
    BY <2>1, <2>2
<1>6. CASE Disable \/ Enable \/ StartThread
  BY <1>6 DEF Disable, Enable, StartThread, queueVars
<1>7. CASE UNCHANGED vars
  BY <1>7 DEF vars, queueVars
<1> QED
  BY <1>1, <1>2, <1>3, <1>4, <1>5, <1>6, <1>7, Steps

\* A consumer asleep and unsignalled has nothing to do. NoLostWakeup is inductive
\* as it stands, over TypeOK.
THEOREM NoLostWakeupCorrect == Spec => []NoLostWakeup
<1>1. Init => NoLostWakeup
  BY DEF Init, NoLostWakeup, Consumers, Workers
<1> QED
  BY <1>1, TypeCorrect, NextAwake, PTL DEF Spec

------------------------------------------------------------------------------
(* No worker is left when the lists are deleted.                            *)

\* Which workers do not exist, by the place of the main thread.
Absent ==
  CASE main \in {"cleanup", "off", "starting"} -> Workers
    [] main = "connecting" -> {"process", "timer", "client"}
    [] main = "connected"  -> {"process", "timer"}
    [] main = "joinTimer"  -> {"process"}
    [] main = "joinNotify" -> {"process", "timer"}
    [] main = "joinClient" -> {"process", "timer", "notify"}
    [] OTHER -> {}
AbsentNone == \A w \in Absent : at[w] = "none"

LEMMA NextAbsent ==
  ASSUME TypeOK, AbsentNone, [Next]_vars
  PROVE  AbsentNone'
<1>1. ASSUME main' = main, \A w \in Workers : at[w] = "none" => at'[w] = "none"
      PROVE  AbsentNone'
  BY <1>1 DEF AbsentNone, Absent, Workers, Consumers
<1>2. CASE \E c \in Consumers : Post(c)
  BY <1>1, <1>2 DEF Post, mainVars
<1>3. CASE \E c \in Consumers : Take(c)
  <2>1. main' = main
    BY <1>3 DEF Take, mainVars
  <2>2. \A w \in Workers : at[w] = "none" => at'[w] = "none"
    BY <1>3 DEF Take, TypeOK
  <2> QED
    BY <1>1, <2>1, <2>2
<1>4. CASE \E c \in Consumers : Handled(c) \/ Leave(c) \/ Wait(c) \/ Wake(c)
  <2>1. main' = main
    BY <1>4 DEF Handled, Leave, Wait, Wake, mainVars
  <2>2. \A w \in Workers : at[w] = "none" => at'[w] = "none"
    BY <1>4 DEF Handled, Leave, Wait, Wake, TypeOK
  <2> QED
    BY <1>1, <2>1, <2>2
<1>5. CASE TimerSleeps \/ TimerWakes \/ ClientReceives \/ ClientReturns
  <2>1. main' = main
    BY <1>5 DEF TimerSleeps, TimerWakes, ClientReceives, ClientReturns, mainVars
  <2>2. \A w \in Workers : at[w] = "none" => at'[w] = "none"
    BY <1>5 DEF TimerSleeps, TimerWakes, ClientReceives, ClientReturns, TypeOK
  <2> QED
    BY <1>1, <2>1, <2>2
<1>6. CASE MainStep
  <2> USE DEF AbsentNone, Absent, Workers, Consumers
  <2>1. CASE StartNotify \/ StartClient \/ StartEvents
    BY <2>1 DEF StartNotify, StartClient, StartEvents, Create
  <2>2. CASE LeaveLoop \/ WakeNotify \/ WakeProcess \/ Exit
    BY <2>2 DEF LeaveLoop, WakeNotify, WakeProcess, Exit, Signals
  <2>3. CASE JoinProcess \/ JoinTimer
    BY <2>3 DEF TypeOK, JoinProcess, JoinTimer, Join
  <2>4. CASE JoinNotify \/ JoinClient
    BY <2>4 DEF TypeOK, JoinNotify, JoinClient, Join
  <2> QED
    BY <1>6, <2>1, <2>2, <2>3, <2>4 DEF MainStep
<1>7. CASE Disable \/ Enable \/ StartThread
  BY <1>7 DEF Disable, Enable, StartThread, AbsentNone, Absent
<1>8. CASE UNCHANGED vars
  BY <1>1, <1>8 DEF vars, mainVars
<1> QED
  BY <1>2, <1>3, <1>4, <1>5, <1>6, <1>7, <1>8, Steps

\* Nothing is deleted under a worker, and no worker is started beside another.
\* AbsentNone follows the main thread through start and joins.
THEOREM FreedAloneCorrect == Spec => []FreedAlone
<1>1. Init => AbsentNone
  BY DEF Init, AbsentNone, Absent, Workers, Consumers
<1>2. AbsentNone => FreedAlone
  BY DEF AbsentNone, Absent, FreedAlone
<1> QED
  BY <1>1, <1>2, TypeCorrect, NextAbsent, PTL DEF Spec

------------------------------------------------------------------------------
(* The queues implement the mailbox.                                        *)

\* What a step does to one queue and its history.
LEMMA QueueStep ==
  ASSUME TypeOK, Next, NEW c \in Consumers
  PROVE  \/ /\ \E m \in Messages : queue'[c] = Append(queue[c], m)
            /\ taken'[c] = taken[c] /\ shutdown' = shutdown /\ at' = at
         \/ /\ queue[c] # <<>> /\ queue'[c] = Tail(queue[c])
            /\ taken'[c] = Append(taken[c], Head(queue[c]))
            /\ shutdown' = shutdown /\ at[c] = "run" /\ at'[c] = "busy"
         \/ queue'[c] = queue[c] /\ taken'[c] = taken[c]
<1>1. ASSUME NEW d \in Consumers, Post(d)
      PROVE  \/ /\ \E m \in Messages : queue'[c] = Append(queue[c], m)
                /\ taken'[c] = taken[c] /\ shutdown' = shutdown /\ at' = at
             \/ queue'[c] = queue[c] /\ taken'[c] = taken[c]
  <2>1. taken' = taken /\ shutdown' = shutdown /\ at' = at
    BY <1>1 DEF Post, mainVars
  <2>2. posted + 1 \in Messages
    BY <1>1, BoundsAssumption DEF Post, TypeOK
  <2>3. queue'[c] = IF c = d THEN Append(queue[c], posted + 1) ELSE queue[c]
    BY <1>1 DEF Post, TypeOK
  <2> QED
    BY <2>1, <2>2, <2>3
<1>2. ASSUME NEW d \in Consumers, Take(d)
      PROVE  \/ /\ queue[c] # <<>> /\ queue'[c] = Tail(queue[c])
                /\ taken'[c] = Append(taken[c], Head(queue[c]))
                /\ shutdown' = shutdown /\ at[c] = "run" /\ at'[c] = "busy"
             \/ queue'[c] = queue[c] /\ taken'[c] = taken[c]
  <2>1. CASE c = d
    BY <1>2, <2>1 DEF Take, TypeOK, mainVars, Workers
  <2>2. CASE c # d
    BY <1>2, <2>2 DEF Take, TypeOK
  <2> QED
    BY <2>1, <2>2
<1>3. CASE \/ \E d \in Consumers : Handled(d) \/ Leave(d) \/ Wait(d) \/ Wake(d)
           \/ TimerSleeps \/ TimerWakes \/ ClientReceives \/ ClientReturns
           \/ Disable \/ Enable \/ StartThread
  BY <1>3 DEF Handled, Leave, Wait, Wake, TimerSleeps, TimerWakes, ClientReceives,
              ClientReturns, Disable, Enable, StartThread, queueVars
<1>4. CASE MainStep
  BY <1>4 DEF MainStep, StartNotify, StartClient, StartEvents, Create, LeaveLoop,
         WakeNotify, WakeProcess, Exit, Signals, JoinProcess, JoinTimer, JoinNotify,
         JoinClient, Join, queueVars
<1> QED
  BY <1>1, <1>2, <1>3, <1>4, Steps

LEMMA NotifyStep ==
  ASSUME TypeOK, [Next]_vars
  PROVE  [NotifyBox!Next]_(NotifyBox!vars)
<1> USE DEF NotifyBox!vars, Closed
<1>1. CASE Next
  <2>1. "notify" \in Consumers
    BY DEF Consumers
  <2>2. CASE /\ \E m \in Messages : queue'["notify"] = Append(queue["notify"], m)
             /\ taken'["notify"] = taken["notify"] /\ shutdown' = shutdown /\ at' = at
    BY <2>2 DEF NotifyBox!Next, NotifyBox!Post
  <2>3. CASE /\ queue["notify"] # <<>> /\ queue'["notify"] = Tail(queue["notify"])
             /\ taken'["notify"] = Append(taken["notify"], Head(queue["notify"]))
             /\ shutdown' = shutdown /\ at["notify"] = "run" /\ at'["notify"] = "busy"
    <3>1. Closed("notify")' = Closed("notify")
      BY <2>3
    <3> QED
      BY <2>3, <3>1 DEF NotifyBox!Next, NotifyBox!Deliver
  <2>4. CASE queue'["notify"] = queue["notify"] /\ taken'["notify"] = taken["notify"]
    <3>1. \/ Closed("notify")' = Closed("notify")
          \/ Closed("notify")' = ~Closed("notify")
      OBVIOUS
    <3> QED
      BY <2>4, <3>1 DEF NotifyBox!Next, NotifyBox!OpenOrClose
  <2> QED
    BY <1>1, <2>1, <2>2, <2>3, <2>4, QueueStep
<1>2. CASE UNCHANGED vars
  BY <1>2 DEF vars, mainVars, queueVars
<1> QED
  BY <1>1, <1>2

LEMMA EventStep ==
  ASSUME TypeOK, [Next]_vars
  PROVE  [EventBox!Next]_(EventBox!vars)
<1> USE DEF EventBox!vars, Closed
<1>1. CASE Next
  <2>1. "process" \in Consumers
    BY DEF Consumers
  <2>2. CASE /\ \E m \in Messages : queue'["process"] = Append(queue["process"], m)
             /\ taken'["process"] = taken["process"] /\ shutdown' = shutdown /\ at' = at
    BY <2>2 DEF EventBox!Next, EventBox!Post
  <2>3. CASE /\ queue["process"] # <<>> /\ queue'["process"] = Tail(queue["process"])
             /\ taken'["process"] = Append(taken["process"], Head(queue["process"]))
             /\ shutdown' = shutdown /\ at["process"] = "run" /\ at'["process"] = "busy"
    <3>1. Closed("process")' = Closed("process")
      BY <2>3
    <3> QED
      BY <2>3, <3>1 DEF EventBox!Next, EventBox!Deliver
  <2>4. CASE queue'["process"] = queue["process"] /\ taken'["process"] = taken["process"]
    <3>1. \/ Closed("process")' = Closed("process")
          \/ Closed("process")' = ~Closed("process")
      OBVIOUS
    <3> QED
      BY <2>4, <3>1 DEF EventBox!Next, EventBox!OpenOrClose
  <2> QED
    BY <1>1, <2>1, <2>2, <2>3, <2>4, QueueStep
<1>2. CASE UNCHANGED vars
  BY <1>2 DEF vars, mainVars, queueVars
<1> QED
  BY <1>1, <1>2

\* notifyMsgQ with its condition variable is a mailbox: each message once, in
\* order, across any number of ends and starts of the threads (safety; the run
\* workers adds that every message comes out).
THEOREM NotifyBoxCorrect == Spec => NotifyBox!Spec
<1>1. Init => NotifyBox!Init
  BY DEF Init, NotifyBox!Init, Closed, Consumers, Workers
<1> QED
  BY <1>1, TypeCorrect, NotifyStep, PTL DEF Spec, NotifyBox!Spec

\* The same of eventDataQ.
THEOREM EventBoxCorrect == Spec => EventBox!Spec
<1>1. Init => EventBox!Init
  BY DEF Init, EventBox!Init, Closed, Consumers, Workers
<1> QED
  BY <1>1, TypeCorrect, EventStep, PTL DEF Spec, EventBox!Spec
=============================================================================
