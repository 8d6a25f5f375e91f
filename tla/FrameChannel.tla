----------------------------- MODULE FrameChannel -----------------------------
(***************************************************************************)
(* What SendFrame and RecvFrame promise whoever uses a connection, without *)
(* bytes, sizes or portions: frames arrive whole and in the order in which *)
(* they were sent, until the connection is lost.  What is on its way then  *)
(* may arrive still or not at all; RecvFrame says so, and for no other     *)
(* reason, and nothing arrives after that.                                 *)
(***************************************************************************)
EXTENDS Naturals, Sequences

CONSTANT Frames   \* what can be sent

VARIABLES
  sent,        \* the frames given to SendFrame, oldest first
  received,    \* the frames that RecvFrame returned
  connected,   \* the connection is not lost
  receiving    \* RecvFrame has not failed

vars == <<sent, received, connected, receiving>>

Init == sent = <<>> /\ received = <<>> /\ connected = TRUE /\ receiving = TRUE

Send(frame) ==
  /\ connected
  /\ sent' = Append(sent, frame)
  /\ UNCHANGED <<received, connected, receiving>>

Receive ==
  /\ receiving /\ Len(received) < Len(sent)
  /\ received' = Append(received, sent[Len(received) + 1])
  /\ UNCHANGED <<sent, connected, receiving>>

Disconnect ==
  /\ connected /\ connected' = FALSE
  /\ UNCHANGED <<sent, received, receiving>>

Fail ==
  /\ receiving /\ ~connected /\ receiving' = FALSE
  /\ UNCHANGED <<sent, received, connected>>

Next == (\E frame \in Frames : Send(frame)) \/ Receive \/ Disconnect \/ Fail

Spec == Init /\ [][Next]_vars
===============================================================================
