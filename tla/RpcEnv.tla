-------------------------------- MODULE RpcEnv --------------------------------
(***************************************************************************)
(* rpc::Env of the RPC library (rpc_env.cc): Schedule queues a function,   *)
(* and one background thread, created by the first Schedule, starts a new  *)
(* thread for every function it takes from the queue.  The daemon hands    *)
(* every accepted connection to it.                                        *)
(*                                                                         *)
(* Each step between two lock operations is an action of its own, so that  *)
(* what mu_ protects is a result and not an assumption.  A failing pthread *)
(* call ends the process (PthreadCall); the calls that can fail on a       *)
(* healthy system are the two pthread_create.                              *)
(*                                                                         *)
(* Definitions named Action_Change are mutants of Action.                  *)
(***************************************************************************)
EXTENDS Integers, Sequences

CONSTANTS
  Callers,    \* the threads that call Schedule
  MaxItems    \* bound on the functions scheduled

NoOne == "none"
BG == "bg"

ASSUME RpcEnvAssumption == /\ MaxItems \in Nat
                           /\ NoOne \notin Callers /\ BG \notin Callers

VARIABLES
  pc,                \* where each caller is
  bgpc,              \* where the background thread is
  mu,                \* owner of mu_
  started_bgthread,  \* started_bgthread_
  queue,             \* queue_
  bgItem,            \* function and arg of the background thread: at most one
  running,           \* FALSE once PthreadCall has ended the process
  scheduled,         \* history: the items pushed on queue
  started            \* history: the items whose thread was created

data == <<queue, bgItem, scheduled, started>>
vars == <<pc, bgpc, mu, started_bgthread, running, data>>

CallerPcs == {"idle", "create", "signal", "push", "unlock"}
BGPcs == {"none", "lock", "test", "waiting", "woken", "unlock", "start"}

TypeOK ==
  /\ pc \in [Callers -> CallerPcs]
  /\ bgpc \in BGPcs
  /\ mu \in Callers \cup {NoOne, BG}
  /\ started_bgthread \in BOOLEAN
  /\ running \in BOOLEAN
  /\ queue \in Seq(Nat) /\ bgItem \in Seq(Nat)
  /\ scheduled \in Seq(Nat) /\ started \in Seq(Nat)

Init ==
  /\ pc = [c \in Callers |-> "idle"]
  /\ bgpc = "none"
  /\ mu = NoOne
  /\ started_bgthread = FALSE
  /\ running = TRUE
  /\ queue = <<>> /\ bgItem = <<>> /\ scheduled = <<>> /\ started = <<>>

Goes(c, from, to) == pc[c] = from /\ pc' = [pc EXCEPT ![c] = to]
BGGoes(from, to)  == bgpc = from /\ bgpc' = to

-------------------------------------------------------------------------------
(* Schedule(function, arg), called by c.                                   *)

ScheduleLock(c) ==
  /\ Len(scheduled) < MaxItems
  /\ Goes(c, "idle", "create")
  /\ mu = NoOne
  /\ mu' = c
  /\ UNCHANGED <<bgpc, started_bgthread, running, data>>

ScheduleCreate(c) ==
  /\ Goes(c, "create", "signal")
  /\ started_bgthread' = TRUE
  /\ bgpc' = IF started_bgthread THEN bgpc ELSE "lock"
  /\ UNCHANGED <<mu, running, data>>

ScheduleSignal_Inverted(c) ==
  /\ Goes(c, "signal", "push")
  /\ bgpc' = IF queue # <<>> /\ bgpc = "waiting" THEN "woken" ELSE bgpc
  /\ UNCHANGED <<mu, started_bgthread, running, data>>
\* The signal comes before the push: the sleeper cannot look before the unlock.
ScheduleSignal(c) ==
  /\ Goes(c, "signal", "push")
  /\ bgpc' = IF queue = <<>> /\ bgpc = "waiting" THEN "woken" ELSE bgpc
  /\ UNCHANGED <<mu, started_bgthread, running, data>>

SchedulePush(c) ==
  /\ Goes(c, "push", "unlock")
  /\ queue' = Append(queue, Len(scheduled) + 1)
  /\ scheduled' = Append(scheduled, Len(scheduled) + 1)
  /\ UNCHANGED <<bgpc, mu, started_bgthread, running, bgItem, started>>

ScheduleUnlock(c) ==
  /\ Goes(c, "unlock", "idle")
  /\ mu' = NoOne
  /\ UNCHANGED <<bgpc, started_bgthread, running, data>>

-------------------------------------------------------------------------------
(* BGThread.                                                               *)

\* The lock of the loop, or the one a wait takes again as it returns.
BGLock ==
  /\ bgpc \in {"lock", "woken"}
  /\ mu = NoOne
  /\ mu' = BG
  /\ bgpc' = "test"
  /\ UNCHANGED <<pc, started_bgthread, running, data>>

\* pthread_cond_wait gives mu_ back and sleeps in one step.
BGWait ==
  /\ BGGoes("test", "waiting")
  /\ queue = <<>>
  /\ mu' = NoOne
  /\ UNCHANGED <<pc, started_bgthread, running, data>>

\* POSIX lets the wait end without a signal; nothing makes it.
SpuriousWakeup ==
  /\ BGGoes("waiting", "woken")
  /\ UNCHANGED <<pc, mu, started_bgthread, running, data>>

BGPop_Newest ==
  /\ BGGoes("test", "unlock")
  /\ queue # <<>>
  /\ bgItem' = <<queue[Len(queue)]>>
  /\ queue' = SubSeq(queue, 1, Len(queue) - 1)
  /\ UNCHANGED <<pc, mu, started_bgthread, running, scheduled, started>>
BGPop ==
  /\ BGGoes("test", "unlock")
  /\ queue # <<>>
  /\ bgItem' = <<Head(queue)>>
  /\ queue' = Tail(queue)
  /\ UNCHANGED <<pc, mu, started_bgthread, running, scheduled, started>>

BGUnlock ==
  /\ BGGoes("unlock", "start")
  /\ mu' = NoOne
  /\ UNCHANGED <<pc, started_bgthread, running, data>>

BGStartThread ==
  /\ BGGoes("start", "lock")
  /\ started' = started \o bgItem
  /\ bgItem' = <<>>
  /\ UNCHANGED <<pc, mu, started_bgthread, running, queue, scheduled>>

CreateFails_Ignored ==
  /\ BGGoes("start", "lock")
  /\ bgItem' = <<>>
  /\ UNCHANGED <<pc, mu, started_bgthread, running, queue, scheduled, started>>
\* pthread_create finds no resources, for the background thread or for an
\* item: PthreadCall prints and exits, from whichever thread it is called.
CreateFails ==
  /\ bgpc = "start" \/ (~started_bgthread /\ \E c \in Callers : pc[c] = "create")
  /\ running' = FALSE
  /\ UNCHANGED <<pc, bgpc, mu, started_bgthread, data>>

-------------------------------------------------------------------------------
Schedule(c) ==
  ScheduleCreate(c) \/ ScheduleSignal(c) \/ SchedulePush(c) \/ ScheduleUnlock(c)

BGThread == BGLock \/ BGWait \/ BGPop \/ BGUnlock \/ BGStartThread

Next ==
  /\ running
  /\ \/ \E c \in Callers : ScheduleLock(c) \/ Schedule(c)
     \/ BGThread
     \/ SpuriousWakeup
     \/ CreateFails

Spec == Init /\ [][Next]_vars

(* Threads run on, and a mutex that is free again and again is taken in    *)
(* the end.  Whether another item is scheduled is the caller's choice.     *)
Fairness ==
  /\ \A c \in Callers : WF_vars(running /\ Schedule(c))
  /\ WF_vars(running /\ BGThread)
  /\ SF_vars(running /\ BGLock)

FairSpec == Spec /\ Fairness

-------------------------------------------------------------------------------
(* Properties.                                                             *)

\* One thread at a time is between lock and unlock in Schedule and in BGThread,
\* also when the background thread comes back from its wait.
MutualExclusion ==
  /\ \A c \in Callers : (pc[c] # "idle") <=> (mu = c)
  /\ (bgpc \in {"test", "unlock"}) <=> (mu = BG)

\* No wakeup is lost: the background thread never sleeps on a queue that has
\* work, although Schedule signals before it pushes, only when the queue was
\* empty, and although the first item is pushed when there is no thread yet.
NeverSleepsOnWork == bgpc = "waiting" => queue = <<>>

\* Every item scheduled is on its way to its thread, none is lost or doubled,
\* and the threads are started in the order of the Schedule calls.
InOrderExactlyOnce == scheduled = started \o bgItem \o queue

\* The environment hands items on as AsyncCalls hands on calls: taken from the
\* queue in order, then given their thread in order.
Abstract == INSTANCE AsyncCalls WITH
  submitted <- scheduled, executed <- started \o bgItem, delivered <- started
ImplementsAsyncCalls == Abstract!Spec

\* Every connection the daemon schedules gets its thread, or the process has
\* ended because a thread could not be created: an item is never left queued.
EveryItemStarts ==
  \A i \in 1 .. MaxItems :
    (i \in {scheduled[k] : k \in 1 .. Len(scheduled)})
      ~> (i \in {started[k] : k \in 1 .. Len(started)} \/ ~running)
===============================================================================
