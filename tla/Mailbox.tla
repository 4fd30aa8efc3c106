------------------------------- MODULE Mailbox -------------------------------
(***************************************************************************)
(* What a message queue of webconfig promises: notifyMsgQ towards the      *)
(* cloud and eventDataQ towards the event thread. Messages come out once   *)
(* each, in the order in which they went in, and while the box is open,    *)
(* that is, while there is a consumer that has not been told to end, every *)
(* message comes out in the end. A closed box keeps what it has: what is   *)
(* not handled before a shutdown is handled after the next start. Module   *)
(* Workers implements it twice.                                            *)
(***************************************************************************)
EXTENDS Sequences

CONSTANT Messages

VARIABLES
  box,        \* messages that wait, in order
  delivered,  \* history: messages taken out, in order
  closed

vars == <<box, delivered, closed>>

Init == box = <<>> /\ delivered = <<>> /\ closed = TRUE

Post(m) ==
  /\ box' = Append(box, m)
  /\ UNCHANGED <<delivered, closed>>

Deliver ==
  /\ box # <<>>
  /\ delivered' = Append(delivered, Head(box))
  /\ box' = Tail(box)
  /\ UNCHANGED closed

OpenOrClose ==
  /\ closed' = ~closed
  /\ UNCHANGED <<box, delivered>>

Next == (\E m \in Messages : Post(m)) \/ Deliver \/ OpenOrClose

Spec == Init /\ [][Next]_vars

FairSpec == Spec /\ WF_vars(~closed /\ Deliver)
=============================================================================
