------------------------------- MODULE Workers -------------------------------
(***************************************************************************)
(* The worker threads of webconfig, the two queues between them, and how   *)
(* the main thread starts and ends them.                                   *)
(*                                                                         *)
(*   notify   sends notifications to the cloud (webcfg_notify.c);          *)
(*   process  handles component events (webcfg_event.c), and notifies;     *)
(*   timer    turns expired timers into events (webcfg_event.c);           *)
(*   client   receives from parodus (webcfg_client.c), and posts to both.  *)
(*                                                                         *)
(* A producer appends to a list under its mutex and signals only when the  *)
(* list was empty; the consumer takes, ends or waits in one critical       *)
(* section. At the end (webcfg.c:414) the main thread signals both         *)
(* consumers and joins all four threads. RfcEnable may be switched at any  *)
(* moment, also while it joins.                                            *)
(*                                                                         *)
(* A message is its number in the order of posting. What a message does    *)
(* when it is handled is the subject of SubdocApply; when the main loop    *)
(* looks at g_shutdown, that of ForceSync.                                 *)
(***************************************************************************)
EXTENDS Integers, Sequences

CONSTANTS
  MaxMessages,   \* bound: messages posted
  MaxToggles     \* bound: changes of RfcEnable

ASSUME BoundsAssumption == MaxMessages \in Nat /\ MaxToggles \in Nat

Consumers == {"notify", "process"}
Workers   == Consumers \cup {"timer", "client"}
Messages  == 1..MaxMessages

VARIABLES
  shutdown,   \* g_shutdown
  rfc,        \* RfcVal
  main,       \* where the main thread is; "off": g_mpthreadId is NULL
  rbus,       \* the set handler is "idle" or has cleared g_shutdown ("enable")
  at,         \* where each worker is; "none": not created, or joined
  signalled,  \* waiting consumers that have been signalled
  queue,      \* notifyMsgQ ("notify") and eventDataQ ("process")
  taken,      \* history: messages taken from each queue
  posted,     \* number of messages posted
  toggles     \* number of changes of RfcEnable

mainVars  == <<shutdown, rfc, main, rbus, toggles>>
queueVars == <<queue, taken, posted>>
vars      == <<mainVars, at, signalled, queueVars>>

Init ==
  /\ shutdown = FALSE /\ rfc = TRUE /\ main = "starting" /\ rbus = "idle"
  /\ at = [w \in Workers |-> "none"]
  /\ signalled = {}
  /\ queue = [c \in Consumers |-> <<>>] /\ taken = [c \in Consumers |-> <<>>]
  /\ posted = 0 /\ toggles = 0

------------------------------------------------------------------------------
(* The queues.                                                              *)

\* Mutants: signals another condition, or is forgotten.
SignalledOther(c) == signalled \cup {"client"}
SignalledNobody(c) == signalled

\* pthread_cond_signal: lost unless the consumer waits.
Signalled(c) == IF at[c] = "waiting" THEN signalled \cup {c} ELSE signalled

\* Mutant: puts the message at the head of the list.
PostFirst(c) ==
  /\ posted < MaxMessages
  /\ posted' = posted + 1
  /\ queue' = [queue EXCEPT ![c] = <<posted + 1>> \o @]
  /\ signalled' = IF queue[c] = <<>> THEN Signalled(c) ELSE signalled
  /\ UNCHANGED <<mainVars, at, taken>>

\* addWebConfgNotifyMsg, addToEventQueue.
Post(c) ==
  /\ posted < MaxMessages
  /\ posted' = posted + 1
  /\ queue' = [queue EXCEPT ![c] = Append(@, posted + 1)]
  /\ signalled' = IF queue[c] = <<>> THEN Signalled(c) ELSE signalled
  /\ UNCHANGED <<mainVars, at, taken>>

\* Mutant: does not unlink the message.
TakeAndKeep(c) ==
  /\ at[c] = "run" /\ queue[c] # <<>>
  /\ taken' = [taken EXCEPT ![c] = Append(@, Head(queue[c]))]
  /\ at' = [at EXCEPT ![c] = "busy"]
  /\ UNCHANGED <<mainVars, signalled, queue, posted>>

Take(c) ==
  /\ at[c] = "run" /\ queue[c] # <<>>
  /\ taken' = [taken EXCEPT ![c] = Append(@, Head(queue[c]))]
  /\ queue' = [queue EXCEPT ![c] = Tail(@)]
  /\ at' = [at EXCEPT ![c] = "busy"]
  /\ UNCHANGED <<mainVars, signalled, posted>>

\* The message has been handled: sent, dropped for want of a device MAC, applied
\* to the lists, or found to be no event.
Handled(c) ==
  /\ at[c] = "busy"
  /\ at' = [at EXCEPT ![c] = "run"]
  /\ UNCHANGED <<mainVars, signalled, queueVars>>

Leave(c) ==
  /\ at[c] = "run" /\ queue[c] = <<>> /\ shutdown
  /\ at' = [at EXCEPT ![c] = "done"]
  /\ UNCHANGED <<mainVars, signalled, queueVars>>

Wait(c) ==
  /\ at[c] = "run" /\ queue[c] = <<>> /\ ~shutdown
  /\ at' = [at EXCEPT ![c] = "waiting"]
  /\ UNCHANGED <<mainVars, signalled, queueVars>>

\* pthread_cond_wait returns, signalled or not.
Wake(c) ==
  /\ at[c] = "waiting"
  /\ at' = [at EXCEPT ![c] = "run"]
  /\ signalled' = signalled \ {c}
  /\ UNCHANGED <<mainVars, queueVars>>

------------------------------------------------------------------------------
(* Producers.                                                               *)

\* blobEventHandler: an expired timer becomes an event, and the list is looked at
\* again at once; only after five seconds without one is g_shutdown tested.
TimerExpires == at["timer"] = "run" /\ Post("process")
TimerSleeps ==
  /\ at["timer"] = "run"
  /\ at' = [at EXCEPT !["timer"] = "busy"]
  /\ UNCHANGED <<mainVars, signalled, queueVars>>
TimerWakes ==
  /\ at["timer"] = "busy"
  /\ at' = [at EXCEPT !["timer"] = IF shutdown THEN "done" ELSE "run"]
  /\ UNCHANGED <<mainVars, signalled, queueVars>>

\* parodus_receive: g_shutdown is tested before each call that waits for a
\* message; a status of aker becomes an event, an error a notification.
ClientReceives ==
  /\ at["client"] = "run"
  /\ at' = [at EXCEPT !["client"] = IF shutdown THEN "done" ELSE "busy"]
  /\ UNCHANGED <<mainVars, signalled, queueVars>>
ClientPosts == at["client"] = "busy" /\ \E c \in Consumers : Post(c)
ClientReturns ==
  /\ at["client"] = "busy"
  /\ at' = [at EXCEPT !["client"] = "run"]
  /\ UNCHANGED <<mainVars, signalled, queueVars>>

\* An event is being processed, or a bundle: notifications.
ProcessNotifies == at["process"] = "busy" /\ Post("notify")
MainNotifies    == main = "serving" /\ Post("notify")

\* rbusWebcfgEventHandler, while the event element is registered.
BusEvent == at["timer"] \in {"run", "busy"} /\ Post("process")

------------------------------------------------------------------------------
(* The main thread.                                                         *)

\* pthread_create of some workers by the main thread, which goes on to `next'.
Create(created, next) ==
  /\ main' = next
  /\ at' = [w \in Workers |-> IF w \in created THEN "run" ELSE at[w]]
  /\ UNCHANGED <<shutdown, rfc, rbus, toggles, signalled, queueVars>>

StartNotify == main = "starting" /\ Create({"notify"}, "connecting")

\* connect_parodus has succeeded, or has been broken off by a shutdown; until
\* then it tries again.
StartClient == main = "connecting" /\ Create({"client"}, "connected")

StartEvents == main = "connected" /\ Create({"timer", "process"}, "serving")

\* A step to `next' at which the main thread may signal some consumers.
Signals(consumers, next) ==
  /\ main' = next
  /\ signalled' = signalled \cup {c \in consumers : at[c] = "waiting"}
  /\ UNCHANGED <<shutdown, rfc, rbus, toggles, at, queueVars>>

\* Mutant: the event thread is not signalled.
WakeProcessNot == main = "wakeProcess" /\ Signals({}, "joinProcess")

LeaveLoop   == main = "serving" /\ shutdown /\ Signals({}, "wakeNotify")
WakeNotify  == main = "wakeNotify" /\ Signals({"notify"}, "wakeProcess")
WakeProcess == main = "wakeProcess" /\ Signals({"process"}, "joinProcess")

\* JoinThread.
Join(w, place, next) ==
  /\ main = place /\ at[w] = "done"
  /\ at' = [at EXCEPT ![w] = "none"]
  /\ main' = next
  /\ UNCHANGED <<shutdown, rfc, rbus, toggles, signalled, queueVars>>

\* Mutant: the timer thread is not joined.
JoinTimerNot == main = "joinTimer" /\ Signals({}, "joinNotify")

JoinProcess == Join("process", "joinProcess", "joinTimer")
JoinTimer   == Join("timer", "joinTimer", "joinNotify")
JoinNotify  == Join("notify", "joinNotify", "joinClient")
JoinClient  == Join("client", "joinClient", "cleanup")

\* Lists and flags are deleted, and the thread ends.
Exit == main = "cleanup" /\ Signals({}, "off")

------------------------------------------------------------------------------
(* set_rbus_RfcEnable.                                                      *)

Disable ==
  /\ rbus = "idle" /\ rfc /\ toggles < MaxToggles
  /\ shutdown' = TRUE /\ rfc' = FALSE /\ toggles' = toggles + 1
  /\ UNCHANGED <<main, rbus, at, signalled, queueVars>>

Enable ==
  /\ rbus = "idle" /\ ~rfc /\ toggles < MaxToggles
  /\ shutdown' = FALSE /\ rbus' = "enable" /\ toggles' = toggles + 1
  /\ UNCHANGED <<rfc, main, at, signalled, queueVars>>

\* Started only if there is no main thread.
StartThread ==
  /\ rbus = "enable"
  /\ rbus' = "idle" /\ rfc' = TRUE
  /\ main' = IF main = "off" THEN "starting" ELSE main
  /\ UNCHANGED <<shutdown, toggles, at, signalled, queueVars>>

------------------------------------------------------------------------------

MainStep ==
  \/ StartNotify \/ StartClient \/ StartEvents
  \/ LeaveLoop \/ WakeNotify \/ WakeProcess
  \/ JoinProcess \/ JoinTimer \/ JoinNotify \/ JoinClient \/ Exit

ConsumerStep(c) == Take(c) \/ Handled(c) \/ Leave(c) \/ Wait(c) \/ Wake(c)
TimerStep  == TimerExpires \/ TimerSleeps \/ TimerWakes
ClientStep == ClientReceives \/ ClientPosts \/ ClientReturns

Next ==
  \/ MainStep \/ Disable \/ Enable \/ StartThread
  \/ \E c \in Consumers : ConsumerStep(c)
  \/ TimerStep \/ ClientStep
  \/ ProcessNotifies \/ MainNotifies \/ BusEvent

Spec == Init /\ [][Next]_vars

\* The threads run, and only a signal wakes a consumer for certain. A timer does
\* not expire for ever: the thread comes to its sleep, and a receive returns.
\* Connecting to parodus may fail for ever unless told to end.
FairSpec ==
  /\ Spec
  /\ \A c \in Consumers :
       /\ WF_vars(Take(c) \/ Handled(c) \/ Leave(c) \/ Wait(c))
       /\ WF_vars(c \in signalled /\ Wake(c))
  /\ WF_vars(TimerSleeps \/ TimerWakes)
  /\ WF_vars(ClientReceives \/ ClientReturns)
  /\ WF_vars((main = "connecting" => shutdown) /\ MainStep)

------------------------------------------------------------------------------
(* Properties.                                                              *)

TypeOK ==
  /\ shutdown \in BOOLEAN /\ rfc \in BOOLEAN
  /\ main \in {"off", "starting", "connecting", "connected", "serving",
               "wakeNotify", "wakeProcess", "joinProcess", "joinTimer",
               "joinNotify", "joinClient", "cleanup"}
  /\ rbus \in {"idle", "enable"}
  /\ at \in [Workers -> {"none", "run", "busy", "waiting", "done"}]
  /\ signalled \subseteq Consumers
  /\ queue \in [Consumers -> Seq(Messages)]
  /\ taken \in [Consumers -> Seq(Messages)]
  /\ posted \in 0..MaxMessages /\ toggles \in 0..MaxToggles

\* A consumer that waits and has not been signalled has an empty list: the
\* producers' signal for the first message only is enough (webcfg_notify.c:139,
\* webcfg_event.c:219), also when a consumer is ended and started again over a
\* list that was not emptied.
NoLostWakeup ==
  \A c \in Consumers : at[c] = "waiting" /\ c \notin signalled => queue[c] = <<>>

\* The lists are deleted (webcfg.c:463) when no worker is left that could use
\* them, and no second set of workers is ever started beside the first.
FreedAlone ==
  main \in {"cleanup", "off", "starting"} => \A w \in Workers : at[w] = "none"

\* The queues implement the mailbox, under fairness included: a box is open while
\* its consumer has been started and not been told to end.
Closed(c) == shutdown \/ at[c] \in {"none", "done"}
NotifyBox == INSTANCE Mailbox
  WITH box <- queue["notify"], delivered <- taken["notify"], closed <- Closed("notify")
EventBox == INSTANCE Mailbox
  WITH box <- queue["process"], delivered <- taken["process"], closed <- Closed("process")
NotifyBoxSpec == NotifyBox!FairSpec
EventBoxSpec  == EventBox!FairSpec

\* A main thread that has left its loop ends, unless g_shutdown is cleared on the
\* way: nobody waits for a thread that waits itself. (If it is cleared, and even
\* set again, the join may never return: that switch signals only the main loop.)
ShutdownEnds == main = "wakeNotify" /\ shutdown ~> main = "off" \/ ~shutdown

\* "release all active threads before shutdown" (webcfg.c:414): a main thread that
\* has begun to join the workers ends. Refuted with workers.cfg.
JoinEnds == main = "joinProcess" ~> main = "off"
=============================================================================
