--------------------------- MODULE ApiAsyncExecuter ---------------------------
(***************************************************************************)
(* client/ApiAsyncExecuter.{h,cc}: the game thread hands remote calls to   *)
(* one background worker and later runs their callbacks.                   *)
(*                                                                         *)
(* Every access of one thread that the other can observe is a step: a lock *)
(* or unlock, a test of a queue or of stoppingThread_, a push or a pop.    *)
(* The queues are linearised at the move of the cursor a push or a pop     *)
(* makes; they are NOT assumed to be protected, because the worker's inner *)
(* loop reads and pops itemsThread_ after it has given mutex_ back.        *)
(*                                                                         *)
(* mutex_ and mutex2_ are default POSIX mutexes: unlocking one that the    *)
(* caller does not own frees it all the same, whoever holds it.            *)
(*                                                                         *)
(* Definitions named Action_Change are the mutants of Action: what it      *)
(* would be with the change a plausible bug makes.  No action uses them.   *)
(***************************************************************************)
EXTENDS Integers, Sequences

CONSTANT MaxCalls   \* bound on the calls the game submits in one level

ASSUME MaxCallsAssumption == MaxCalls \in Nat

VARIABLES
  mpc,              \* where the game thread is
  wpc,              \* where the worker is
  mutex,            \* owner of mutex_  (meant to guard itemsThread)
  mutex2,           \* owner of mutex2_ (guards itemsMainThread)
  stoppingThread,   \* stoppingThread_
  itemsThread,      \* itemsThread_:     calls waiting for the worker
  itemsMainThread,  \* itemsMainThread_: calls waiting for their callback
  workerItem,       \* the call the worker has popped: at most one
  submitted,        \* history: the calls pushed on itemsThread
  executed,         \* history: the calls whose ExecuteApi has returned
  delivered         \* history: the calls whose callback has run

data == <<itemsThread, itemsMainThread, workerItem, submitted, executed, delivered>>
vars == <<mpc, wpc, mutex, mutex2, stoppingThread, data>>

Owners == {"free", "main", "worker"}

MainPcs ==
  {"frame",                                                   \* in the game
   "async_lock", "async_push", "async_unlock", "async_signal",   \* ExecuteAsync
   "work_lock", "work_loop",                                     \* DoMainThreadWork
   "stop_signal", "join", "destroy", "destroyed"}                \* the destructor

WorkerPcs ==
  {"loop", "lock", "test", "sleep", "waiting", "woken",       \* up to the wait
   "drain", "unlock", "execute", "lock2", "push2", "exited"}     \* the inner loop

TypeOK ==
  /\ mpc \in MainPcs
  /\ wpc \in WorkerPcs
  /\ mutex \in Owners
  /\ mutex2 \in Owners
  /\ stoppingThread \in BOOLEAN
  /\ itemsThread \in Seq(Nat)
  /\ itemsMainThread \in Seq(Nat)
  /\ workerItem \in Seq(Nat)
  /\ submitted \in Seq(Nat)
  /\ executed \in Seq(Nat)
  /\ delivered \in Seq(Nat)

Init ==
  /\ mpc = "frame"
  /\ wpc = "loop"
  /\ mutex = "free"
  /\ mutex2 = "free"
  /\ stoppingThread = FALSE
  /\ itemsThread = <<>> /\ itemsMainThread = <<>> /\ workerItem = <<>>
  /\ submitted = <<>> /\ executed = <<>> /\ delivered = <<>>

-------------------------------------------------------------------------------
(* A step of one thread from one place to the next.                        *)
MainGoes(from, to)   == mpc = from /\ mpc' = to
WorkerGoes(from, to) == wpc = from /\ wpc' = to

(* pthread_cond_signal(&cond_): wakes the worker if it sleeps in the wait, *)
(* and is lost otherwise.                                                  *)
Signal == wpc' = IF wpc = "waiting" THEN "woken" ELSE wpc

-------------------------------------------------------------------------------
(* The game thread: ExecuteAsync.  Its early return for stoppingThread_    *)
(* cannot be taken from "frame": the flag is set by the destructor alone,  *)
(* and no callback of the program submits a call.                          *)

ExecuteAsync ==
  /\ MainGoes("frame", "async_lock")
  /\ Len(submitted) < MaxCalls
  /\ UNCHANGED <<wpc, mutex, mutex2, stoppingThread, data>>

AsyncLock ==
  /\ MainGoes("async_lock", "async_push")
  /\ mutex = "free"
  /\ mutex' = "main"
  /\ UNCHANGED <<wpc, mutex2, stoppingThread, data>>

AsyncPush ==
  /\ MainGoes("async_push", "async_unlock")
  /\ itemsThread' = Append(itemsThread, Len(submitted) + 1)
  /\ submitted' = Append(submitted, Len(submitted) + 1)
  /\ UNCHANGED <<wpc, mutex, mutex2, stoppingThread,
                 itemsMainThread, workerItem, executed, delivered>>

AsyncUnlock_Forgotten ==
  /\ MainGoes("async_unlock", "async_signal")
  /\ UNCHANGED <<wpc, mutex, mutex2, stoppingThread, data>>
AsyncUnlock ==
  /\ MainGoes("async_unlock", "async_signal")
  /\ mutex' = "free"
  /\ UNCHANGED <<wpc, mutex2, stoppingThread, data>>

AsyncSignal ==
  /\ MainGoes("async_signal", "frame")
  /\ Signal
  /\ UNCHANGED <<mutex, mutex2, stoppingThread, data>>

-------------------------------------------------------------------------------
(* The game thread: DoMainThreadWork, called once a frame and once more by *)
(* the destructor after the join.  mutex2_ is held over every callback.    *)

DoMainThreadWork ==
  /\ MainGoes("frame", "work_lock")
  /\ UNCHANGED <<wpc, mutex, mutex2, stoppingThread, data>>

WorkLock ==
  /\ MainGoes("work_lock", "work_loop")
  /\ mutex2 = "free"
  /\ mutex2' = "main"
  /\ UNCHANGED <<wpc, mutex, stoppingThread, data>>

\* One round: pop, ExecuteCallback, delete.
WorkItem ==
  /\ mpc = "work_loop"
  /\ itemsMainThread # <<>>
  /\ delivered' = Append(delivered, Head(itemsMainThread))
  /\ itemsMainThread' = Tail(itemsMainThread)
  /\ UNCHANGED <<mpc, wpc, mutex, mutex2, stoppingThread,
                 itemsThread, workerItem, submitted, executed>>

WorkDone ==
  /\ MainGoes("work_loop", IF stoppingThread THEN "destroy" ELSE "frame")
  /\ itemsMainThread = <<>>
  /\ mutex2' = "free"
  /\ UNCHANGED <<wpc, mutex, stoppingThread, data>>

-------------------------------------------------------------------------------
(* The game thread: ~ApiAsyncExecuter.  The flag is set and cond_ is       *)
(* signalled without mutex_.                                               *)

Stop ==
  /\ MainGoes("frame", "stop_signal")
  /\ stoppingThread' = TRUE
  /\ UNCHANGED <<wpc, mutex, mutex2, data>>

StopSignal ==
  /\ MainGoes("stop_signal", "join")
  /\ Signal
  /\ UNCHANGED <<mutex, mutex2, stoppingThread, data>>

Join_NoLastWork ==
  /\ MainGoes("join", "destroy")
  /\ wpc = "exited"
  /\ UNCHANGED <<wpc, mutex, mutex2, stoppingThread, data>>
\* pthread_join returns once the worker has left BackgroundWorker.
Join ==
  /\ MainGoes("join", "work_lock")
  /\ wpc = "exited"
  /\ UNCHANGED <<wpc, mutex, mutex2, stoppingThread, data>>

\* cond_ and both mutexes go; whatever is still queued is only warned about.
Destroy ==
  /\ MainGoes("destroy", "destroyed")
  /\ UNCHANGED <<wpc, mutex, mutex2, stoppingThread, data>>

-------------------------------------------------------------------------------
(* The worker: BackgroundWorker up to the end of its wait.                 *)

WorkerLoop ==
  /\ WorkerGoes("loop", IF stoppingThread THEN "exited" ELSE "lock")
  /\ UNCHANGED <<mpc, mutex, mutex2, stoppingThread, data>>

\* The lock of the outer loop, or the one a wait takes again as it returns.
WorkerLock ==
  /\ wpc \in {"lock", "woken"}
  /\ mutex = "free"
  /\ mutex' = "worker"
  /\ wpc' = "test"
  /\ UNCHANGED <<mpc, mutex2, stoppingThread, data>>

WorkerTest ==
  /\ WorkerGoes("test",
       IF itemsThread = <<>> /\ ~stoppingThread THEN "sleep" ELSE "drain")
  /\ UNCHANGED <<mpc, mutex, mutex2, stoppingThread, data>>

\* pthread_cond_wait gives mutex_ back and sleeps in one step.
WorkerSleep ==
  /\ WorkerGoes("sleep", "waiting")
  /\ mutex' = "free"
  /\ UNCHANGED <<mpc, mutex2, stoppingThread, data>>

\* POSIX lets the wait end without a signal; nothing makes it.
SpuriousWakeup ==
  /\ WorkerGoes("waiting", "woken")
  /\ UNCHANGED <<mpc, mutex, mutex2, stoppingThread, data>>

-------------------------------------------------------------------------------
(* The worker: the inner loop.  Only its first round holds mutex_.         *)

WorkerPop_Forgotten ==
  /\ WorkerGoes("drain", "unlock")
  /\ itemsThread # <<>>
  /\ workerItem' = <<Head(itemsThread)>>
  /\ UNCHANGED <<mpc, mutex, mutex2, stoppingThread,
                 itemsThread, itemsMainThread, submitted, executed, delivered>>
WorkerPop_Newest ==
  /\ WorkerGoes("drain", "unlock")
  /\ itemsThread # <<>>
  /\ workerItem' = <<itemsThread[Len(itemsThread)]>>
  /\ itemsThread' = SubSeq(itemsThread, 1, Len(itemsThread) - 1)
  /\ UNCHANGED <<mpc, mutex, mutex2, stoppingThread,
                 itemsMainThread, submitted, executed, delivered>>
WorkerPop ==
  /\ WorkerGoes("drain", "unlock")
  /\ itemsThread # <<>>
  /\ workerItem' = <<Head(itemsThread)>>
  /\ itemsThread' = Tail(itemsThread)
  /\ UNCHANGED <<mpc, mutex, mutex2, stoppingThread,
                 itemsMainThread, submitted, executed, delivered>>

WorkerUnlock_PushFirst ==
  /\ WorkerGoes("unlock", "lock2")
  /\ mutex' = "free"
  /\ UNCHANGED <<mpc, mutex2, stoppingThread, data>>
\* In a later round this frees a mutex_ the game thread may hold.
WorkerUnlock ==
  /\ WorkerGoes("unlock", "execute")
  /\ mutex' = "free"
  /\ UNCHANGED <<mpc, mutex2, stoppingThread, data>>

\* ExecuteApi: the remote call returns, with a reply or an error.
WorkerExecute ==
  /\ WorkerGoes("execute", "lock2")
  /\ executed' = executed \o workerItem
  /\ UNCHANGED <<mpc, mutex, mutex2, stoppingThread,
                 itemsThread, itemsMainThread, workerItem, submitted, delivered>>

WorkerLock2 ==
  /\ WorkerGoes("lock2", "push2")
  /\ mutex2 = "free"
  /\ mutex2' = "worker"
  /\ UNCHANGED <<mpc, mutex, stoppingThread, data>>

WorkerPush2_NoUnlock ==
  /\ WorkerGoes("push2", "drain")
  /\ itemsMainThread' = itemsMainThread \o workerItem
  /\ workerItem' = <<>>
  /\ UNCHANGED <<mpc, mutex, mutex2, stoppingThread,
                 itemsThread, submitted, executed, delivered>>
WorkerPush2 ==
  /\ WorkerGoes("push2", "drain")
  /\ itemsMainThread' = itemsMainThread \o workerItem
  /\ workerItem' = <<>>
  /\ mutex2' = "free"
  /\ UNCHANGED <<mpc, mutex, stoppingThread,
                 itemsThread, submitted, executed, delivered>>

WorkerDrained_OnStop ==
  /\ WorkerGoes("drain", "loop")
  /\ itemsThread = <<>> \/ stoppingThread
  /\ UNCHANGED <<mpc, mutex, mutex2, stoppingThread, data>>
\* The inner loop ends without giving mutex_ back when it popped nothing.
WorkerDrained ==
  /\ WorkerGoes("drain", "loop")
  /\ itemsThread = <<>>
  /\ UNCHANGED <<mpc, mutex, mutex2, stoppingThread, data>>

-------------------------------------------------------------------------------
MainStep ==
  \/ AsyncLock \/ AsyncPush \/ AsyncUnlock \/ AsyncSignal
  \/ WorkLock \/ WorkItem \/ WorkDone
  \/ StopSignal \/ Join \/ Destroy

WorkerStep ==
  \/ WorkerLoop \/ WorkerLock \/ WorkerTest \/ WorkerSleep
  \/ WorkerPop \/ WorkerUnlock \/ WorkerExecute
  \/ WorkerLock2 \/ WorkerPush2 \/ WorkerDrained

Next ==
  \/ ExecuteAsync \/ DoMainThreadWork \/ Stop
  \/ MainStep
  \/ WorkerStep
  \/ SpuriousWakeup

Spec == Init /\ [][Next]_vars

(* Both threads run on: a started call of the game thread and the worker   *)
(* take their next step once they can (a remote call returns, with an      *)
(* error if need be), and the engine calls GAME_RUN_FRAME again and again. *)
(* A mutex that is free again and again is taken in the end.  When the     *)
(* game submits a call or shuts down is its own choice.                    *)
Fairness ==
  /\ WF_vars(MainStep)
  /\ WF_vars(WorkerStep)
  /\ WF_vars(DoMainThreadWork)
  /\ SF_vars(AsyncLock)
  /\ SF_vars(WorkerLock2)

FairSpec == Spec /\ Fairness

-------------------------------------------------------------------------------
(* Safety.                                                                 *)

\* No call is lost, run twice or overtaken on its way from ExecuteAsync to its
\* callback, although itemsThread is read and popped without its mutex: in any
\* state the places a call passes, put end to end, are the calls submitted.
InOrderExactlyOnce ==
  submitted = delivered \o itemsMainThread \o workerItem \o itemsThread

\* A callback reads replyMsg_ and error: the remote call that fills them has
\* returned before the item is anywhere the game thread can see it.
RepliedBeforeCallback ==
  executed = delivered \o itemsMainThread
               \o (IF wpc \in {"lock2", "push2"} THEN workerItem ELSE <<>>)

\* mutex2_ does protect itemsMainThread: the threads are never both inside, and
\* the one inside is the owner (mutex_ gives no such guarantee, see WorkerUnlock).
MainQueueExclusive ==
  /\ (mpc = "work_loop") <=> (mutex2 = "main")
  /\ (wpc = "push2") <=> (mutex2 = "worker")

\* The destructor's last DoMainThreadWork leaves nothing behind: the warning
\* "itemsMainThread is not empty!" (line 34) is never printed, and no call that
\* was executed goes without its callback.
MainQueueDrained ==
  mpc = "destroyed" => itemsMainThread = <<>> /\ delivered = executed

\* The other warning of the destructor, "itemsThread is not empty!" (line 31),
\* says the same of itemsThread.  It does not hold: the worker leaves its outer
\* loop as soon as it sees stoppingThread_ at line 66.
WorkerQueueDrained ==
  mpc = "destroyed" => itemsThread = <<>>

\* The executor implements AsyncCalls: the locks, the queues and the unprotected
\* inner loop show its callers nothing that the abstract executor does not allow.
Abstract == INSTANCE AsyncCalls
ImplementsAsyncCalls == Abstract!Spec

-------------------------------------------------------------------------------
(* Liveness, under FairSpec.                                               *)

Elements(s) == {s[i] : i \in 1 .. Len(s)}

\* The game thread is never blocked for good by the worker: ExecuteAsync and
\* DoMainThreadWork return (the destructor's join is another matter).
CallsReturn ==
  /\ (mpc = "async_lock") ~> (mpc = "frame")
  /\ (mpc = "work_lock") ~> (mpc \in {"frame", "destroyed"})

\* A signal that finds the worker asleep makes it execute everything that is
\* queued by then, a call stranded by an earlier lost signal included.
SignalDrains ==
  \A c \in 1 .. MaxCalls :
    (mpc = "async_signal" /\ wpc = "waiting" /\ c \in Elements(itemsThread))
      ~> (c \in Elements(executed))

\* While the game runs, an executed call gets its callback.
RepliesDelivered ==
  \A c \in 1 .. MaxCalls :
    (c \in Elements(executed)) ~> (c \in Elements(delivered) \/ stoppingThread)

\* The destructor comes to its end: its last lines (24-34) run the callbacks that
\* are left and report a queue that is not empty.  It does not always: a stop
\* signal sent while the worker is between its test of stoppingThread_ and its
\* wait is lost, and the join waits for ever.
DestructorReturns == (mpc = "stop_signal") ~> (mpc = "destroyed")
===============================================================================
