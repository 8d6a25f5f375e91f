------------------------------ MODULE AsyncCalls ------------------------------
(***************************************************************************)
(* What the proxymod's asynchronous executor promises its callers, without *)
(* threads, locks or queues.  The game thread submits calls; each call is  *)
(* executed once, in the order of submission; the callback of an executed  *)
(* call runs once, in the order of execution.  A call may wait for ever in *)
(* between: nothing here says that the worker or the game thread goes on.  *)
(***************************************************************************)
EXTENDS Naturals, Sequences

VARIABLES
  submitted,   \* the calls handed to the executor, oldest first
  executed,    \* the calls whose remote procedure has returned
  delivered    \* the calls whose callback has run

vars == <<submitted, executed, delivered>>

Init == submitted = <<>> /\ executed = <<>> /\ delivered = <<>>

\* A new call: calls are named by their number, the first call is 1.
Submit ==
  /\ submitted' = Append(submitted, Len(submitted) + 1)
  /\ UNCHANGED <<executed, delivered>>

Execute ==
  /\ Len(executed) < Len(submitted)
  /\ executed' = Append(executed, submitted[Len(executed) + 1])
  /\ UNCHANGED <<submitted, delivered>>

Deliver ==
  /\ Len(delivered) < Len(executed)
  /\ delivered' = Append(delivered, executed[Len(delivered) + 1])
  /\ UNCHANGED <<submitted, executed>>

Next == Submit \/ Execute \/ Deliver

Spec == Init /\ [][Next]_vars
===============================================================================
