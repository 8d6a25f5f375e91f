------------------------ MODULE ApiAsyncExecuterProofs ------------------------
(***************************************************************************)
(* For every number of calls: the type invariant and the safety properties *)
(* of ApiAsyncExecuter, and that it implements AsyncCalls.                 *)
(*                                                                         *)
(* The inductive invariant has a control part (who is where, and what that *)
(* says of mutex2_, the stop flag and the worker's hand) and a data part   *)
(* (the queues, put end to end).  mutex_ does not occur in it: nothing of  *)
(* what is proved here rests on the mutex the inner loop gives up.         *)
(***************************************************************************)
EXTENDS ApiAsyncExecuter, SequenceTheorems, TLAPS

-------------------------------------------------------------------------------
(* Facts about queues.                                                     *)

\* Queues are moved from head to tail, one call at a time.
LEMMA HeadMoves ==
  ASSUME NEW s \in Seq(Nat), NEW t \in Seq(Nat), t # <<>>
  PROVE  /\ <<Head(t)>> \in Seq(Nat)
         /\ <<Head(t)>> \o Tail(t) = t
         /\ Append(s, Head(t)) \o Tail(t) = s \o t
<1>1. Head(t) \in Nat /\ Tail(t) \in Seq(Nat) /\ Len(t) \in Nat \ {0}
  BY HeadTailProperties, EmptySeq
<1>2. <<Head(t)>> \in Seq(Nat)
  BY <1>1
<1>3. <<Head(t)>> \o Tail(t) = t
  <2>1. t = SubSeq(t, 1, Len(t)) /\ Tail(t) = SubSeq(t, 2, Len(t)) /\ Head(t) = t[1]
    BY SubSeqFull, TailIsSubSeq
  <2>2. SubSeq(t, 1, Len(t)) = <<t[1]>> \o SubSeq(t, 1 + 1, Len(t))
    BY <1>1, SubSeqRecursiveFirst
  <2>3. QED
    BY <2>1, <2>2
<1>4. Append(s, Head(t)) = s \o <<Head(t)>>
  BY <1>1, AppendIsConcat
<1>5. (s \o <<Head(t)>>) \o Tail(t) = s \o (<<Head(t)>> \o Tail(t))
  BY <1>1, <1>2, ConcatAssociative
<1>6. QED
  BY <1>2, <1>3, <1>4, <1>5

\* Where a sequence of calls is cut does not matter.
LEMMA Regroup ==
  \A s, t, u \in Seq(Nat) : (s \o t) \o u = s \o (t \o u)
<1> SUFFICES ASSUME NEW s \in Seq(Nat), NEW t \in Seq(Nat), NEW u \in Seq(Nat)
             PROVE  (s \o t) \o u = s \o (t \o u)
  OBVIOUS
<1> QED
  BY ConcatAssociative, SMTT(60)

\* What is said of the n-th element of a sequence that has been cut in two.
LEMMA NextOfConcat ==
  ASSUME NEW s \in Seq(Nat), NEW t \in Seq(Nat), t # <<>>
  PROVE  /\ Len(s) < Len(s \o t)
         /\ (s \o t)[Len(s) + 1] = Head(t)
<1>1. Len(t) \in Nat \ {0} /\ Len(s) \in Nat
  BY EmptySeq, LenProperties
<1>2. /\ Len(s \o t) = Len(s) + Len(t)
      /\ \A i \in 1 .. Len(s) + Len(t) :
           (s \o t)[i] = IF i <= Len(s) THEN s[i] ELSE t[i - Len(s)]
  BY ConcatProperties
<1>3. Len(s) + 1 \in 1 .. Len(s) + Len(t) /\ ~(Len(s) + 1 <= Len(s))
  BY <1>1
<1>4. (s \o t)[Len(s) + 1] = t[(Len(s) + 1) - Len(s)] /\ (Len(s) + 1) - Len(s) = 1
  BY <1>1, <1>2, <1>3
<1>5. QED
  BY <1>1, <1>2, <1>4

\* Appending to a sequence that is not empty leaves its head.
LEMMA HeadOfConcat ==
  ASSUME NEW s \in Seq(Nat), NEW t \in Seq(Nat), s # <<>>
  PROVE  s \o t # <<>> /\ Head(s \o t) = Head(s)
<1>1. Len(s) \in Nat \ {0} /\ Len(t) \in Nat
  BY EmptySeq, LenProperties
<1>2. Len(s \o t) = Len(s) + Len(t) /\ (s \o t)[1] = s[1] /\ s \o t \in Seq(Nat)
  BY <1>1, ConcatProperties
<1>3. Len(s \o t) # 0
  BY <1>1, <1>2
<1>4. QED
  BY <1>2, <1>3, EmptySeq

-------------------------------------------------------------------------------
(* Type correctness.                                                       *)

\* The constructor leaves every variable with a value of its type.
LEMMA InitType == Init => TypeOK
BY EmptySeq DEF Init, TypeOK, MainPcs, WorkerPcs, Owners

\* A step of the game thread keeps the types.
LEMMA MainStepType == TypeOK /\ MainStep => TypeOK'
<1> SUFFICES ASSUME TypeOK, MainStep PROVE TypeOK'
  OBVIOUS
<1> USE DEF TypeOK, MainPcs, WorkerPcs, Owners, MainGoes, Signal, data
<1>1. CASE AsyncLock    BY <1>1 DEF AsyncLock
<1>2. CASE AsyncPush
  <2>1. Len(submitted) + 1 \in Nat
    BY LenProperties
  <2>2. QED
    BY <1>2, <2>1, AppendProperties DEF AsyncPush
<1>3. CASE AsyncUnlock  BY <1>3 DEF AsyncUnlock
<1>4. CASE AsyncSignal  BY <1>4 DEF AsyncSignal
<1>5. CASE WorkLock     BY <1>5 DEF WorkLock
<1>6. CASE WorkItem
  <2>1. Head(itemsMainThread) \in Nat /\ Tail(itemsMainThread) \in Seq(Nat)
    BY <1>6, HeadTailProperties DEF WorkItem
  <2>2. QED
    BY <1>6, <2>1, AppendProperties DEF WorkItem
<1>7. CASE WorkDone     BY <1>7 DEF WorkDone
<1>8. CASE StopSignal   BY <1>8 DEF StopSignal
<1>9. CASE Join         BY <1>9 DEF Join
<1>10. CASE Destroy     BY <1>10 DEF Destroy
<1>11. QED
  BY <1>1, <1>2, <1>3, <1>4, <1>5, <1>6, <1>7, <1>8, <1>9, <1>10 DEF MainStep

\* A step of the worker keeps the types.
LEMMA WorkerStepType == TypeOK /\ WorkerStep => TypeOK'
<1> SUFFICES ASSUME TypeOK, WorkerStep PROVE TypeOK'
  OBVIOUS
<1> USE DEF TypeOK, MainPcs, WorkerPcs, Owners, WorkerGoes, data
<1>1. CASE WorkerLoop     BY <1>1 DEF WorkerLoop
<1>2. CASE WorkerLock     BY <1>2 DEF WorkerLock
<1>3. CASE WorkerTest     BY <1>3 DEF WorkerTest
<1>4. CASE WorkerSleep    BY <1>4 DEF WorkerSleep
<1>5. CASE WorkerPop      BY <1>5, HeadMoves, HeadTailProperties DEF WorkerPop
<1>6. CASE WorkerUnlock   BY <1>6 DEF WorkerUnlock
<1>7. CASE WorkerExecute  BY <1>7, ConcatProperties DEF WorkerExecute
<1>8. CASE WorkerLock2    BY <1>8 DEF WorkerLock2
<1>9. CASE WorkerPush2    BY <1>9, ConcatProperties, EmptySeq DEF WorkerPush2
<1>10. CASE WorkerDrained BY <1>10 DEF WorkerDrained
<1>11. QED
  BY <1>1, <1>2, <1>3, <1>4, <1>5, <1>6, <1>7, <1>8, <1>9, <1>10 DEF WorkerStep

\* Every step keeps the types.
LEMMA StepType == TypeOK /\ [Next]_vars => TypeOK'
<1> SUFFICES ASSUME TypeOK, [Next]_vars PROVE TypeOK'
  OBVIOUS
<1>1. CASE ExecuteAsync
  BY <1>1 DEF ExecuteAsync, MainGoes, TypeOK, MainPcs, data
<1>2. CASE DoMainThreadWork
  BY <1>2 DEF DoMainThreadWork, MainGoes, TypeOK, MainPcs, data
<1>3. CASE Stop
  BY <1>3 DEF Stop, MainGoes, TypeOK, MainPcs, data
<1>4. CASE MainStep
  BY <1>4, MainStepType
<1>5. CASE WorkerStep
  BY <1>5, WorkerStepType
<1>6. CASE SpuriousWakeup
  BY <1>6 DEF SpuriousWakeup, WorkerGoes, TypeOK, WorkerPcs, data
<1>7. CASE UNCHANGED vars
  BY <1>7 DEF vars, data, TypeOK
<1>8. QED
  BY <1>1, <1>2, <1>3, <1>4, <1>5, <1>6, <1>7 DEF Next

\* Every variable keeps its type: the two threads' places, the owners of the two
\* mutexes, the stop flag and the queues of call numbers.
THEOREM TypeCorrect == Spec => []TypeOK
BY InitType, StepType, PTL DEF Spec

-------------------------------------------------------------------------------
(* The control part of the invariant.                                      *)

MainInExecuteAsync == {"async_lock", "async_push", "async_unlock", "async_signal"}
MainInWork         == {"work_lock", "work_loop"}
WorkerHasItem      == {"unlock", "execute", "lock2", "push2"}

\* The worker holds one call between its pop and its push, and none elsewhere.
WorkerHand ==
  IF wpc \in WorkerHasItem THEN Len(workerItem) = 1 ELSE workerItem = <<>>

\* The flag belongs to the destructor; its part after the join runs alone, and
\* its last DoMainThreadWork has emptied itemsMainThread.
Shutdown ==
  /\ mpc \in {"frame"} \cup MainInExecuteAsync => ~stoppingThread
  /\ mpc \in {"stop_signal", "join", "destroy", "destroyed"} => stoppingThread
  /\ mpc \in MainInWork /\ stoppingThread => wpc = "exited"
  /\ mpc \in {"destroy", "destroyed"} => wpc = "exited" /\ itemsMainThread = <<>>

Control == TypeOK /\ MainQueueExclusive /\ WorkerHand /\ Shutdown

\* The constructor establishes the control part.
LEMMA InitControl == Init => Control
<1> SUFFICES ASSUME Init PROVE Control
  OBVIOUS
<1>1. TypeOK
  BY InitType
<1>2. MainQueueExclusive /\ WorkerHand /\ Shutdown
  BY DEF Init, MainQueueExclusive, WorkerHand, WorkerHasItem, Shutdown,
         MainInExecuteAsync, MainInWork
<1>3. QED
  BY <1>1, <1>2 DEF Control

\* A step of the game thread keeps the control part.
LEMMA MainStepControl == Control /\ (MainStep \/ ExecuteAsync \/ DoMainThreadWork \/ Stop)
                           => Control'
<1> SUFFICES ASSUME Control, MainStep \/ ExecuteAsync \/ DoMainThreadWork \/ Stop
             PROVE  (MainQueueExclusive /\ WorkerHand /\ Shutdown)'
  BY StepType DEF Control, Next
<1> USE DEF Control, TypeOK, Owners, MainQueueExclusive, WorkerHand, WorkerHasItem,
            Shutdown, MainInExecuteAsync, MainInWork, MainGoes, Signal, data
<1>1. CASE ExecuteAsync \/ DoMainThreadWork \/ Stop
  BY <1>1 DEF ExecuteAsync, DoMainThreadWork, Stop
<1>2. CASE AsyncLock \/ AsyncPush \/ AsyncUnlock
  BY <1>2 DEF AsyncLock, AsyncPush, AsyncUnlock
<1>3. CASE AsyncSignal  BY <1>3 DEF AsyncSignal
<1>4. CASE WorkLock     BY <1>4 DEF WorkLock
<1>5. CASE WorkItem     BY <1>5 DEF WorkItem
<1>6. CASE WorkDone     BY <1>6 DEF WorkDone
<1>7. CASE StopSignal   BY <1>7 DEF StopSignal
<1>8. CASE Join         BY <1>8 DEF Join
<1>9. CASE Destroy      BY <1>9 DEF Destroy
<1>10. QED
  BY <1>1, <1>2, <1>3, <1>4, <1>5, <1>6, <1>7, <1>8, <1>9 DEF MainStep

\* A step of the worker keeps the control part.
LEMMA WorkerStepControl == Control /\ (WorkerStep \/ SpuriousWakeup) => Control'
<1> SUFFICES ASSUME Control, WorkerStep \/ SpuriousWakeup
             PROVE  (MainQueueExclusive /\ WorkerHand /\ Shutdown)'
  BY StepType DEF Control, Next
<1> USE DEF Control, TypeOK, Owners, MainQueueExclusive, WorkerHand, WorkerHasItem,
            Shutdown, MainInExecuteAsync, MainInWork, WorkerGoes, data
<1>1. CASE WorkerLoop \/ WorkerLock \/ WorkerTest \/ WorkerSleep \/ SpuriousWakeup
  <2>1. CASE WorkerLoop      BY <2>1 DEF WorkerLoop
  <2>2. CASE WorkerLock      BY <2>2 DEF WorkerLock
  <2>3. CASE WorkerTest      BY <2>3 DEF WorkerTest
  <2>4. CASE WorkerSleep     BY <2>4 DEF WorkerSleep
  <2>5. CASE SpuriousWakeup  BY <2>5 DEF SpuriousWakeup
  <2>6. QED
    BY <1>1, <2>1, <2>2, <2>3, <2>4, <2>5
<1>2. CASE WorkerPop      BY <1>2 DEF WorkerPop
<1>3. CASE WorkerUnlock   BY <1>3 DEF WorkerUnlock
<1>4. CASE WorkerExecute  BY <1>4 DEF WorkerExecute
<1>5. CASE WorkerLock2    BY <1>5 DEF WorkerLock2
<1>6. CASE WorkerPush2    BY <1>6 DEF WorkerPush2
<1>7. CASE WorkerDrained  BY <1>7 DEF WorkerDrained
<1>8. QED
  BY <1>1, <1>2, <1>3, <1>4, <1>5, <1>6, <1>7 DEF WorkerStep

\* Every step keeps the control part.
LEMMA StepControl == Control /\ [Next]_vars => Control'
<1> SUFFICES ASSUME Control, [Next]_vars PROVE Control'
  OBVIOUS
<1>1. CASE UNCHANGED vars
  BY <1>1, StepType DEF vars, data, Control, MainQueueExclusive, WorkerHand, Shutdown
<1>2. QED
  BY <1>1, MainStepControl, WorkerStepControl DEF Next

\* mutex2_ keeps the two threads out of itemsMainThread_ at the same time.
THEOREM MainQueueIsExclusive == Spec => []MainQueueExclusive
<1>1. Spec => []Control
  BY InitControl, StepControl, PTL DEF Spec
<1>2. Control => MainQueueExclusive
  BY DEF Control
<1>3. QED
  BY <1>1, <1>2, PTL

-------------------------------------------------------------------------------
(* The data part of the invariant.                                         *)

Data == InOrderExactlyOnce /\ RepliedBeforeCallback

IInv == Control /\ Data

\* Nothing is queued when the executor is made.
LEMMA InitData == Init => Data
BY EmptySeq, ConcatEmptySeq
   DEF Init, Data, InOrderExactlyOnce, RepliedBeforeCallback

\* Whether the worker's call counts as executed depends only on where it is.
Replied == IF wpc \in {"lock2", "push2"} THEN workerItem ELSE <<>>

\* A step that moves no call keeps the data part, if it does not take the worker
\* over the line between "not executed" and "executed".
LEMMA NoCallMoves ==
  ASSUME Data, UNCHANGED data, Replied' = Replied
  PROVE  Data'
BY DEF Data, InOrderExactlyOnce, RepliedBeforeCallback, Replied, data

\* AsyncPush puts the new call at the end of the calls submitted and queued.
LEMMA AsyncPushData == IInv /\ AsyncPush => Data'
<1> SUFFICES ASSUME IInv, AsyncPush PROVE Data'
  OBVIOUS
<1> DEFINE n == Len(submitted) + 1
           before == delivered \o itemsMainThread \o workerItem
<1>1. TypeOK /\ Data
  BY DEF IInv, Control
<1>2. n \in Nat /\ <<n>> \in Seq(Nat)
  BY <1>1, LenProperties DEF TypeOK
<1>3. before \in Seq(Nat) /\ itemsThread \in Seq(Nat) /\ submitted \in Seq(Nat)
  BY <1>1, ConcatProperties DEF TypeOK
<1>4. submitted' = submitted \o <<n>> /\ itemsThread' = itemsThread \o <<n>>
  BY <1>2, <1>3, AppendIsConcat DEF AsyncPush
<1>5. (before \o itemsThread) \o <<n>> = before \o (itemsThread \o <<n>>)
  <2> HIDE DEF before, n
  <2> QED
    BY <1>2, <1>3, Regroup
<1>6. InOrderExactlyOnce'
  BY <1>1, <1>4, <1>5 DEF AsyncPush, Data, InOrderExactlyOnce
<1>7. RepliedBeforeCallback'
  BY <1>1 DEF AsyncPush, Data, RepliedBeforeCallback
<1>8. QED
  BY <1>6, <1>7 DEF Data

\* WorkItem moves a call from the head of itemsMainThread to the delivered ones.
LEMMA WorkItemData == IInv /\ WorkItem => Data'
<1> SUFFICES ASSUME IInv, WorkItem PROVE Data'
  OBVIOUS
<1>1. TypeOK /\ Data
  BY DEF IInv, Control
<1>2. (delivered \o itemsMainThread)' = delivered \o itemsMainThread
  BY <1>1, HeadMoves DEF TypeOK, WorkItem
<1>3. QED
  BY <1>1, <1>2 DEF WorkItem, Data, InOrderExactlyOnce, RepliedBeforeCallback

\* WorkerPop moves a call from the head of itemsThread to the worker's hand.
LEMMA WorkerPopData == IInv /\ WorkerPop => Data'
<1> SUFFICES ASSUME IInv, WorkerPop PROVE Data'
  OBVIOUS
<1> DEFINE seen == delivered \o itemsMainThread
           c == Head(itemsThread)
<1>1. TypeOK /\ Data /\ workerItem = <<>> /\ itemsThread # <<>>
  BY DEF IInv, Control, WorkerHand, WorkerHasItem, WorkerPop, WorkerGoes
<1>2. seen \in Seq(Nat) /\ itemsThread \in Seq(Nat) /\ c \in Nat
  BY <1>1, ConcatProperties, HeadTailProperties DEF TypeOK
<1>3. seen \o workerItem = seen /\ seen \o <<c>> = Append(seen, c)
  BY <1>1, <1>2, ConcatEmptySeq, AppendIsConcat
<1>4. Append(seen, c) \o Tail(itemsThread) = seen \o itemsThread
  BY <1>1, <1>2, HeadMoves
<1>5. InOrderExactlyOnce'
  BY <1>1, <1>3, <1>4 DEF WorkerPop, Data, InOrderExactlyOnce
<1>6. RepliedBeforeCallback'
  BY <1>1 DEF WorkerPop, WorkerGoes, Data, RepliedBeforeCallback
<1>7. QED
  BY <1>5, <1>6 DEF Data

\* WorkerExecute makes the worker's call an executed one.
LEMMA WorkerExecuteData == IInv /\ WorkerExecute => Data'
<1> SUFFICES ASSUME IInv, WorkerExecute PROVE Data'
  OBVIOUS
<1> DEFINE seen == delivered \o itemsMainThread
<1>1. TypeOK /\ Data
  BY DEF IInv, Control
<1>2. seen \in Seq(Nat)
  BY <1>1, ConcatProperties DEF TypeOK
<1>3. executed = seen
  BY <1>1, <1>2, ConcatEmptySeq
     DEF WorkerExecute, WorkerGoes, Data, RepliedBeforeCallback
<1>4. RepliedBeforeCallback'
  BY <1>3 DEF WorkerExecute, WorkerGoes, RepliedBeforeCallback
<1>5. InOrderExactlyOnce'
  BY <1>1 DEF WorkerExecute, Data, InOrderExactlyOnce
<1>6. QED
  BY <1>4, <1>5 DEF Data

\* WorkerPush2 moves the worker's call to the end of itemsMainThread.
LEMMA WorkerPush2Data == IInv /\ WorkerPush2 => Data'
<1> SUFFICES ASSUME IInv, WorkerPush2 PROVE Data'
  OBVIOUS
<1> DEFINE both == (delivered \o itemsMainThread) \o workerItem
<1>1. TypeOK /\ Data
  BY DEF IInv, Control
<1>2. both \in Seq(Nat)
  BY <1>1, ConcatProperties DEF TypeOK
<1>3. delivered \o (itemsMainThread \o workerItem) = both
  <2>1. delivered \in Seq(Nat) /\ itemsMainThread \in Seq(Nat) /\ workerItem \in Seq(Nat)
    BY <1>1 DEF TypeOK
  <2>2. QED
    BY <2>1, Regroup
<1>4. both \o <<>> = both
  BY <1>2, ConcatEmptySeq
<1>5. InOrderExactlyOnce'
  BY <1>1, <1>3, <1>4 DEF WorkerPush2, Data, InOrderExactlyOnce
<1>6. RepliedBeforeCallback'
  BY <1>1, <1>3, <1>4 DEF WorkerPush2, WorkerGoes, Data, RepliedBeforeCallback
<1>7. QED
  BY <1>5, <1>6 DEF Data

\* Every step keeps the data part.
LEMMA StepData == IInv /\ [Next]_vars => Data'
<1> SUFFICES ASSUME IInv, [Next]_vars PROVE Data'
  OBVIOUS
<1> USE DEF MainGoes, WorkerGoes
<1>1. Data
  BY DEF IInv
<1>2. CASE ExecuteAsync \/ DoMainThreadWork \/ Stop
  BY <1>1, <1>2, NoCallMoves DEF ExecuteAsync, DoMainThreadWork, Stop, Replied, data
<1>3. CASE MainStep
  <2>1. CASE AsyncPush
    BY <2>1, AsyncPushData
  <2>2. CASE WorkItem
    BY <2>2, WorkItemData
  <2>3. CASE AsyncSignal \/ StopSignal
    BY <1>1, <2>3, NoCallMoves DEF AsyncSignal, StopSignal, Signal, Replied, data
  <2>4. CASE AsyncLock \/ AsyncUnlock \/ WorkLock \/ WorkDone \/ Join \/ Destroy
    BY <1>1, <2>4, NoCallMoves
       DEF AsyncLock, AsyncUnlock, WorkLock, WorkDone, Join, Destroy, Replied, data
  <2>5. QED
    BY <1>3, <2>1, <2>2, <2>3, <2>4 DEF MainStep
<1>4. CASE WorkerStep \/ SpuriousWakeup
  <2>1. CASE WorkerPop
    BY <2>1, WorkerPopData
  <2>2. CASE WorkerExecute
    BY <2>2, WorkerExecuteData
  <2>3. CASE WorkerPush2
    BY <2>3, WorkerPush2Data
  <2>4. CASE WorkerLoop \/ WorkerLock \/ WorkerTest \/ WorkerSleep \/ SpuriousWakeup
    BY <1>1, <2>4, NoCallMoves
       DEF WorkerLoop, WorkerLock, WorkerTest, WorkerSleep, SpuriousWakeup, Replied, data
  <2>5. CASE WorkerUnlock \/ WorkerLock2 \/ WorkerDrained
    BY <1>1, <2>5, NoCallMoves
       DEF WorkerUnlock, WorkerLock2, WorkerDrained, Replied, data
  <2>6. QED
    BY <1>4, <2>1, <2>2, <2>3, <2>4, <2>5 DEF WorkerStep
<1>5. CASE UNCHANGED vars
  BY <1>1, <1>5, NoCallMoves DEF vars, Replied, data
<1>6. QED
  BY <1>2, <1>3, <1>4, <1>5 DEF Next

\* The inductive invariant holds of the executor.
LEMMA Inductive == Spec => []IInv
<1>1. Init => IInv
  BY InitControl, InitData DEF IInv
<1>2. IInv /\ [Next]_vars => IInv'
  BY StepControl, StepData DEF IInv
<1>3. QED
  BY <1>1, <1>2, PTL DEF Spec

\* For every number of calls, each call passes from ExecuteAsync to its callback
\* exactly once and in order, with or without mutex_.
THEOREM CallsInOrderExactlyOnce == Spec => []InOrderExactlyOnce
<1>1. IInv => InOrderExactlyOnce
  BY DEF IInv, Data
<1>2. QED
  BY <1>1, Inductive, PTL

\* No callback runs before its remote call has returned.
THEOREM CallbacksSeeReplies == Spec => []RepliedBeforeCallback
<1>1. IInv => RepliedBeforeCallback
  BY DEF IInv, Data
<1>2. QED
  BY <1>1, Inductive, PTL

\* The destructor leaves no executed call without its callback.
THEOREM DestructorDrainsMainQueue == Spec => []MainQueueDrained
<1>1. IInv => MainQueueDrained
  <2> SUFFICES ASSUME IInv, mpc = "destroyed"
               PROVE  itemsMainThread = <<>> /\ delivered = executed
    BY DEF MainQueueDrained
  <2>1. wpc = "exited" /\ itemsMainThread = <<>> /\ delivered \in Seq(Nat)
    BY DEF IInv, Control, Shutdown, TypeOK
  <2>2. executed = (delivered \o <<>>) \o <<>>
    BY <2>1 DEF IInv, Data, RepliedBeforeCallback
  <2>3. QED
    BY <2>1, <2>2, ConcatEmptySeq
<1>2. QED
  BY <1>1, Inductive, PTL

-------------------------------------------------------------------------------
(* The executor implements AsyncCalls.                                     *)

\* The call the worker executes is the oldest one not yet executed.
LEMMA ExecutesNext == IInv /\ WorkerExecute => Abstract!Execute
<1> SUFFICES ASSUME IInv, WorkerExecute PROVE Abstract!Execute
  OBVIOUS
<1> DEFINE seen == delivered \o itemsMainThread
<1>1. TypeOK /\ Data /\ Len(workerItem) = 1
  BY DEF IInv, Control, WorkerHand, WorkerHasItem, WorkerExecute, WorkerGoes
<1>2. seen \in Seq(Nat) /\ workerItem \in Seq(Nat) /\ itemsThread \in Seq(Nat)
  BY <1>1, ConcatProperties DEF TypeOK
<1>3. executed = seen
  BY <1>1, <1>2, ConcatEmptySeq
     DEF WorkerExecute, WorkerGoes, Data, RepliedBeforeCallback
<1>4. workerItem # <<>> /\ workerItem = <<Head(workerItem)>> /\ Head(workerItem) \in Nat
  <2>1. workerItem # <<>>
    BY <1>1, EmptySeq
  <2>2. Head(workerItem) \in Nat /\ Tail(workerItem) \in Seq(Nat) /\ Len(Tail(workerItem)) = 0
    BY <1>1, <1>2, <2>1, HeadTailProperties
  <2>3. Tail(workerItem) = <<>>
    BY <2>2, EmptySeq
  <2>4. <<Head(workerItem)>> \o Tail(workerItem) = workerItem /\ <<Head(workerItem)>> \in Seq(Nat)
    BY <1>2, <2>1, HeadMoves
  <2>5. QED
    BY <2>1, <2>2, <2>3, <2>4, ConcatEmptySeq
<1>5. submitted = executed \o (workerItem \o itemsThread)
  <2>1. submitted = (seen \o workerItem) \o itemsThread
    BY <1>1 DEF Data, InOrderExactlyOnce
  <2>2. (seen \o workerItem) \o itemsThread = seen \o (workerItem \o itemsThread)
    <3> HIDE DEF seen
    <3> QED
      BY <1>2, Regroup
  <2>3. QED
    BY <1>3, <2>1, <2>2
<1>6. /\ workerItem \o itemsThread \in Seq(Nat)
      /\ workerItem \o itemsThread # <<>>
      /\ Head(workerItem \o itemsThread) = Head(workerItem)
  BY <1>2, <1>4, ConcatProperties, HeadOfConcat
<1>7. /\ Len(executed) < Len(submitted)
      /\ submitted[Len(executed) + 1] = Head(workerItem)
  BY <1>2, <1>3, <1>5, <1>6, NextOfConcat
<1>8. executed' = Append(executed, Head(workerItem))
  BY <1>2, <1>3, <1>4, AppendIsConcat DEF WorkerExecute
<1>9. QED
  BY <1>7, <1>8 DEF WorkerExecute, Abstract!Execute

\* The callback that runs is that of the oldest executed call without one.
LEMMA DeliversNext == IInv /\ WorkItem => Abstract!Deliver
<1> SUFFICES ASSUME IInv, WorkItem PROVE Abstract!Deliver
  OBVIOUS
<1> DEFINE last == IF wpc \in {"lock2", "push2"} THEN workerItem ELSE <<>>
<1>1. TypeOK /\ Data /\ itemsMainThread # <<>>
  BY DEF IInv, Control, WorkItem
<1>2. last \in Seq(Nat) /\ delivered \in Seq(Nat) /\ itemsMainThread \in Seq(Nat)
  BY <1>1, EmptySeq DEF TypeOK
<1>3. executed = delivered \o (itemsMainThread \o last)
  <2>1. executed = (delivered \o itemsMainThread) \o last
    BY <1>1 DEF Data, RepliedBeforeCallback
  <2> HIDE DEF last
  <2>2. QED
    BY <1>2, <2>1, Regroup
<1> HIDE DEF last
<1>4. /\ itemsMainThread \o last \in Seq(Nat)
      /\ itemsMainThread \o last # <<>>
      /\ Head(itemsMainThread \o last) = Head(itemsMainThread)
  BY <1>1, <1>2, ConcatProperties, HeadOfConcat
<1>5. /\ Len(delivered) < Len(executed)
      /\ executed[Len(delivered) + 1] = Head(itemsMainThread)
  BY <1>2, <1>3, <1>4, NextOfConcat
<1>6. QED
  BY <1>5 DEF WorkItem, Abstract!Deliver

\* Every step of the two threads is a step of the abstract executor or leaves it
\* unchanged.
LEMMA StepRefines == IInv /\ [Next]_vars => [Abstract!Next]_(Abstract!vars)
<1> SUFFICES ASSUME IInv, [Next]_vars
             PROVE  Abstract!Next \/ UNCHANGED <<submitted, executed, delivered>>
  BY DEF Abstract!vars
<1>1. CASE ExecuteAsync \/ DoMainThreadWork \/ Stop
  BY <1>1 DEF ExecuteAsync, DoMainThreadWork, Stop, data
<1>2. CASE MainStep
  <2>1. CASE AsyncPush
    BY <2>1 DEF AsyncPush, Abstract!Submit, Abstract!Next
  <2>2. CASE WorkItem
    BY <2>2, DeliversNext DEF Abstract!Next
  <2>3. CASE AsyncSignal \/ StopSignal \/ AsyncLock \/ AsyncUnlock
    BY <2>3 DEF AsyncSignal, StopSignal, AsyncLock, AsyncUnlock, data
  <2>4. CASE WorkLock \/ WorkDone \/ Join \/ Destroy
    BY <2>4 DEF WorkLock, WorkDone, Join, Destroy, data
  <2>5. QED
    BY <1>2, <2>1, <2>2, <2>3, <2>4 DEF MainStep
<1>3. CASE WorkerStep \/ SpuriousWakeup
  <2>1. CASE WorkerExecute
    BY <2>1, ExecutesNext DEF Abstract!Next
  <2>2. CASE WorkerPop \/ WorkerPush2
    BY <2>2 DEF WorkerPop, WorkerPush2
  <2>3. CASE WorkerLoop \/ WorkerLock \/ WorkerTest \/ WorkerSleep \/ SpuriousWakeup
    BY <2>3 DEF WorkerLoop, WorkerLock, WorkerTest, WorkerSleep, SpuriousWakeup, data
  <2>4. CASE WorkerUnlock \/ WorkerLock2 \/ WorkerDrained
    BY <2>4 DEF WorkerUnlock, WorkerLock2, WorkerDrained, data
  <2>5. QED
    BY <1>3, <2>1, <2>2, <2>3, <2>4 DEF WorkerStep
<1>4. CASE UNCHANGED vars
  BY <1>4 DEF vars, data
<1>5. QED
  BY <1>1, <1>2, <1>3, <1>4 DEF Next

\* The two-thread executor of ApiAsyncExecuter.cc implements the abstract one.
THEOREM ExecuterImplementsAsyncCalls == Spec => ImplementsAsyncCalls
<1>1. Init => Abstract!Init
  BY DEF Init, Abstract!Init
<1>2. QED
  BY <1>1, StepRefines, Inductive, PTL DEF Spec, ImplementsAsyncCalls, Abstract!Spec

===============================================================================
