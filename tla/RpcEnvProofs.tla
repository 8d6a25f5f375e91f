----------------------------- MODULE RpcEnvProofs -----------------------------
(***************************************************************************)
(* For every set of callers and every number of items: the type invariant  *)
(* and the safety properties of RpcEnv, and that it implements AsyncCalls. *)
(*                                                                         *)
(* The inductive invariant is MutualExclusion, which stands on its own,    *)
(* with what the lock makes true of the background thread (it exists once  *)
(* started, its hand holds an item from the pop to the start, it does not  *)
(* sleep while an item is pushed) and the queue and the hand put end to    *)
(* end.                                                                    *)
(***************************************************************************)
EXTENDS RpcEnv, SequenceTheorems, TLAPS

-------------------------------------------------------------------------------
(* Facts about queues.                                                     *)

\* Queues are moved from head to tail, one call at a time.
LEMMA HeadMoves ==
  ASSUME NEW s \in Seq(Nat), NEW t \in Seq(Nat), t # <<>>
  PROVE  /\ <<Head(t)>> \in Seq(Nat)
         /\ <<Head(t)>> \o Tail(t) = t
         /\ Append(s, Head(t)) \o Tail(t) = s \o t
<1>1. Head(t) \in Nat /\ Tail(t) \in Seq(Nat) /\ Len(t) \in Nat \ {0}
  BY HeadTailProperties, EmptySeq
<1>2. <<Head(t)>> \in Seq(Nat)
  BY <1>1
<1>3. <<Head(t)>> \o Tail(t) = t
  <2>1. t = SubSeq(t, 1, Len(t)) /\ Tail(t) = SubSeq(t, 2, Len(t)) /\ Head(t) = t[1]
    BY SubSeqFull, TailIsSubSeq
  <2>2. SubSeq(t, 1, Len(t)) = <<t[1]>> \o SubSeq(t, 1 + 1, Len(t))
    BY <1>1, SubSeqRecursiveFirst
  <2>3. QED
    BY <2>1, <2>2
<1>4. Append(s, Head(t)) = s \o <<Head(t)>>
  BY <1>1, AppendIsConcat
<1>5. (s \o <<Head(t)>>) \o Tail(t) = s \o (<<Head(t)>> \o Tail(t))
  BY <1>1, <1>2, ConcatAssociative
<1>6. QED
  BY <1>2, <1>3, <1>4, <1>5

\* Where a sequence of calls is cut does not matter.
LEMMA Regroup ==
  \A s, t, u \in Seq(Nat) : (s \o t) \o u = s \o (t \o u)
<1> SUFFICES ASSUME NEW s \in Seq(Nat), NEW t \in Seq(Nat), NEW u \in Seq(Nat)
             PROVE  (s \o t) \o u = s \o (t \o u)
  OBVIOUS
<1> QED
  BY ConcatAssociative, SMTT(60)

\* What is said of the n-th element of a sequence that has been cut in two.
LEMMA NextOfConcat ==
  ASSUME NEW s \in Seq(Nat), NEW t \in Seq(Nat), t # <<>>
  PROVE  /\ Len(s) < Len(s \o t)
         /\ (s \o t)[Len(s) + 1] = Head(t)
<1>1. Len(t) \in Nat \ {0} /\ Len(s) \in Nat
  BY EmptySeq, LenProperties
<1>2. /\ Len(s \o t) = Len(s) + Len(t)
      /\ \A i \in 1 .. Len(s) + Len(t) :
           (s \o t)[i] = IF i <= Len(s) THEN s[i] ELSE t[i - Len(s)]
  BY ConcatProperties
<1>3. Len(s) + 1 \in 1 .. Len(s) + Len(t) /\ ~(Len(s) + 1 <= Len(s))
  BY <1>1
<1>4. (s \o t)[Len(s) + 1] = t[(Len(s) + 1) - Len(s)] /\ (Len(s) + 1) - Len(s) = 1
  BY <1>1, <1>2, <1>3
<1>5. QED
  BY <1>1, <1>2, <1>4

\* What the hand of a thread holds: at most one item.
LEMMA Singleton ==
  ASSUME NEW s \in Seq(Nat), Len(s) = 1
  PROVE  s # <<>> /\ Head(s) \in Nat /\ s = <<Head(s)>>
<1>1. s # <<>>
  <2>1. Len(<<>>) # Len(s)
    BY EmptySeq
  <2>2. QED
    BY <2>1, Zenon
<1>2. Head(s) \in Nat /\ Tail(s) \in Seq(Nat) /\ Len(Tail(s)) = 0
  BY <1>1, HeadTailProperties
<1>3. Tail(s) = <<>>
  BY <1>2, EmptySeq
<1>4. <<Head(s)>> \o Tail(s) = s /\ <<Head(s)>> \in Seq(Nat)
  BY <1>1, HeadMoves
<1>5. QED
  BY <1>1, <1>2, <1>3, <1>4, ConcatEmptySeq

-------------------------------------------------------------------------------
(* The inductive invariant.                                                *)

\* The background thread is there just when it has been started.
Lifecycle == (bgpc = "none") <=> ~started_bgthread

\* What the background thread holds: one item from its pop to the item's thread.
HandFull == bgpc \in {"unlock", "start"}
Hand == /\ HandFull => Len(bgItem) = 1
        /\ ~HandFull => bgItem = <<>>

\* A caller that has signalled pushes before the background thread sleeps again.
AwakeForPush == \A c \in Callers : pc[c] = "push" => bgpc # "waiting"

Control ==
  /\ MutualExclusion
  /\ Lifecycle
  /\ Hand
  /\ AwakeForPush
  /\ NeverSleepsOnWork

IInv == TypeOK /\ Control /\ InOrderExactlyOnce

-------------------------------------------------------------------------------
(* Type correctness.                                                       *)

\* The constructor leaves every variable with a value of its type.
LEMMA InitType == Init => TypeOK
BY EmptySeq DEF Init, TypeOK, CallerPcs, BGPcs

\* A step of Schedule keeps the types.
LEMMA ScheduleType ==
  ASSUME NEW c \in Callers, TypeOK, ScheduleLock(c) \/ Schedule(c)
  PROVE  TypeOK'
<1> USE DEF TypeOK, CallerPcs, BGPcs, Goes, data
<1>1. CASE ScheduleLock(c)   BY <1>1 DEF ScheduleLock
<1>2. CASE ScheduleCreate(c) BY <1>2 DEF ScheduleCreate
<1>3. CASE ScheduleSignal(c) BY <1>3 DEF ScheduleSignal
<1>4. CASE SchedulePush(c)
  <2>1. Len(scheduled) + 1 \in Nat
    BY LenProperties
  <2>2. QED
    BY <1>4, <2>1, AppendProperties DEF SchedulePush
<1>5. CASE ScheduleUnlock(c) BY <1>5 DEF ScheduleUnlock
<1>6. QED
  BY <1>1, <1>2, <1>3, <1>4, <1>5 DEF Schedule

\* Every step keeps the types.
LEMMA StepType == TypeOK /\ [Next]_vars => TypeOK'
<1> SUFFICES ASSUME TypeOK, [Next]_vars PROVE TypeOK'
  OBVIOUS
<1>1. CASE \E c \in Callers : ScheduleLock(c) \/ Schedule(c)
  BY <1>1, ScheduleType
<1>2. CASE BGThread
  <2> USE DEF TypeOK, BGPcs, BGGoes, data
  <2>1. CASE BGLock   BY <2>1 DEF BGLock
  <2>2. CASE BGWait   BY <2>2 DEF BGWait
  <2>3. CASE BGPop    BY <2>3, HeadMoves, HeadTailProperties DEF BGPop
  <2>4. CASE BGUnlock BY <2>4 DEF BGUnlock
  <2>5. CASE BGStartThread
    BY <2>5, ConcatProperties, EmptySeq DEF BGStartThread
  <2>6. QED
    BY <1>2, <2>1, <2>2, <2>3, <2>4, <2>5 DEF BGThread
<1>3. CASE SpuriousWakeup
  BY <1>3 DEF SpuriousWakeup, BGGoes, TypeOK, BGPcs, data
<1>4. CASE CreateFails
  BY <1>4 DEF CreateFails, TypeOK, data
<1>5. CASE UNCHANGED vars
  BY <1>5 DEF vars, data, TypeOK
<1>6. QED
  BY <1>1, <1>2, <1>3, <1>4, <1>5 DEF Next

\* Every variable of the environment keeps its type.
THEOREM TypeCorrect == Spec => []TypeOK
BY InitType, StepType, PTL DEF Spec

-------------------------------------------------------------------------------
(* Control: the lock and the background thread.                            *)

\* Nobody holds the lock before the first call, and there is no thread.
LEMMA InitControl == Init => Control
BY RpcEnvAssumption
   DEF Init, Control, MutualExclusion, Lifecycle, Hand, HandFull, AwakeForPush,
       NeverSleepsOnWork, NoOne, BG

\* Where a step of a caller leads.
LEMMA CallerMoves ==
  ASSUME NEW c \in Callers, NEW from, NEW to, TypeOK, Goes(c, from, to)
  PROVE  /\ pc[c] = from /\ pc'[c] = to
         /\ \A d \in Callers : d # c => pc'[d] = pc[d]
BY DEF TypeOK, Goes

\* A step of Schedule keeps the control part.
LEMMA ScheduleControl ==
  ASSUME NEW c \in Callers, TypeOK, Control, ScheduleLock(c) \/ Schedule(c)
  PROVE  Control'
<1>1. BG \notin Callers /\ NoOne \notin Callers /\ NoOne # BG
  BY RpcEnvAssumption DEF NoOne, BG
<1> USE DEF Control, MutualExclusion, Lifecycle, Hand, HandFull, AwakeForPush,
            NeverSleepsOnWork, data
<1>2. CASE ScheduleLock(c)
  BY <1>1, <1>2, CallerMoves DEF ScheduleLock
<1>3. CASE ScheduleCreate(c)
  BY <1>1, <1>3, CallerMoves DEF ScheduleCreate
<1>4. CASE ScheduleSignal(c)
  BY <1>1, <1>4, CallerMoves DEF ScheduleSignal
<1>5. CASE SchedulePush(c)
  BY <1>1, <1>5, CallerMoves DEF SchedulePush
<1>6. CASE ScheduleUnlock(c)
  BY <1>1, <1>6, CallerMoves DEF ScheduleUnlock
<1>7. QED
  BY <1>2, <1>3, <1>4, <1>5, <1>6 DEF Schedule

\* A step of the background thread keeps the control part.
LEMMA BGControl ==
  ASSUME TypeOK, Control, BGThread \/ SpuriousWakeup
  PROVE  Control'
<1>1. BG \notin Callers /\ NoOne \notin Callers /\ NoOne # BG
  BY RpcEnvAssumption DEF NoOne, BG
<1> USE DEF Control, MutualExclusion, Lifecycle, Hand, HandFull, AwakeForPush,
            NeverSleepsOnWork, BGGoes, data
<1>2. CASE BGLock
  BY <1>1, <1>2 DEF BGLock
<1>3. CASE BGWait
  BY <1>1, <1>3 DEF BGWait
<1>4. CASE BGPop
  <2>1. Len(bgItem') = 1
    BY <1>4 DEF BGPop
  <2>2. QED
    BY <1>1, <1>4, <2>1 DEF BGPop
<1>5. CASE BGUnlock
  BY <1>1, <1>5 DEF BGUnlock
<1>6. CASE BGStartThread
  BY <1>1, <1>6 DEF BGStartThread
<1>7. CASE SpuriousWakeup
  BY <1>1, <1>7 DEF SpuriousWakeup
<1>8. QED
  BY <1>2, <1>3, <1>4, <1>5, <1>6, <1>7 DEF BGThread

\* Every step keeps the control part.
LEMMA StepControl == TypeOK /\ Control /\ [Next]_vars => Control'
<1> SUFFICES ASSUME TypeOK, Control, [Next]_vars PROVE Control'
  OBVIOUS
<1>1. CASE \E c \in Callers : ScheduleLock(c) \/ Schedule(c)
  BY <1>1, ScheduleControl
<1>2. CASE BGThread \/ SpuriousWakeup
  BY <1>2, BGControl
<1>3. CASE CreateFails \/ UNCHANGED vars
  BY <1>3 DEF CreateFails, vars, data, Control, MutualExclusion, Lifecycle, Hand,
     HandFull, AwakeForPush, NeverSleepsOnWork
<1>4. QED
  BY <1>1, <1>2, <1>3 DEF Next

\* For every set of callers, mu_ excludes them and the background thread.
THEOREM LockIsExclusive == Spec => []MutualExclusion
<1>1. TypeOK /\ Control /\ [Next]_vars => (TypeOK /\ Control)'
  BY StepType, StepControl
<1>2. Control => MutualExclusion
  BY DEF Control
<1>3. QED
  BY <1>1, <1>2, InitType, InitControl, PTL DEF Spec

\* For every set of callers, no wakeup of the background thread is lost.
THEOREM NoLostWakeup == Spec => []NeverSleepsOnWork
<1>1. TypeOK /\ Control /\ [Next]_vars => (TypeOK /\ Control)'
  BY StepType, StepControl
<1>2. Control => NeverSleepsOnWork
  BY DEF Control
<1>3. QED
  BY <1>1, <1>2, InitType, InitControl, PTL DEF Spec

-------------------------------------------------------------------------------
(* Data: the queue and the hand, put end to end.                           *)

\* Nothing is scheduled at first.
LEMMA InitData == Init => InOrderExactlyOnce
BY EmptySeq, ConcatEmptySeq DEF Init, InOrderExactlyOnce

\* A push extends the history and the queue by the same item.
LEMMA SchedulePushData ==
  ASSUME NEW c \in Callers, IInv, SchedulePush(c)
  PROVE  InOrderExactlyOnce'
<1> DEFINE front == started \o bgItem
<1> DEFINE item == Len(scheduled) + 1
<1>1. /\ front \in Seq(Nat) /\ queue \in Seq(Nat) /\ scheduled \in Seq(Nat)
      /\ item \in Nat /\ <<item>> \in Seq(Nat)
  BY ConcatProperties, LenProperties DEF IInv, TypeOK
<1>2. scheduled = front \o queue
  BY DEF IInv, InOrderExactlyOnce
<1>3. scheduled' = scheduled \o <<item>> /\ queue' = queue \o <<item>> /\ front' = front
  BY <1>1, AppendIsConcat DEF SchedulePush
<1> HIDE DEF front, item
<1>4. (front \o queue) \o <<item>> = front \o (queue \o <<item>>)
  BY <1>1, Regroup
<1>5. QED
  BY <1>2, <1>3, <1>4 DEF InOrderExactlyOnce, front

\* A pop moves the head of the queue into the empty hand.
LEMMA BGPopData == IInv /\ BGPop => InOrderExactlyOnce'
<1> SUFFICES ASSUME IInv, BGPop PROVE InOrderExactlyOnce'
  OBVIOUS
<1>1. /\ started \in Seq(Nat) /\ queue \in Seq(Nat) /\ queue # <<>>
      /\ bgItem = <<>> /\ scheduled = (started \o bgItem) \o queue
  BY DEF IInv, TypeOK, Control, Hand, HandFull, InOrderExactlyOnce, BGPop, BGGoes
<1>2. scheduled = started \o queue
  BY <1>1, ConcatEmptySeq
<1>3. <<Head(queue)>> \in Seq(Nat) /\ <<Head(queue)>> \o Tail(queue) = queue
  BY <1>1, HeadMoves
<1>4. (started \o <<Head(queue)>>) \o Tail(queue) = started \o (<<Head(queue)>> \o Tail(queue))
  BY <1>1, <1>3, Regroup, HeadTailProperties
<1>5. /\ bgItem' = <<Head(queue)>> /\ queue' = Tail(queue)
      /\ started' = started /\ scheduled' = scheduled
  BY DEF BGPop
<1>6. QED
  BY <1>2, <1>3, <1>4, <1>5 DEF InOrderExactlyOnce

\* The start of a thread moves the item from the hand to the history.
LEMMA BGStartThreadData == IInv /\ BGStartThread => InOrderExactlyOnce'
<1> SUFFICES ASSUME IInv, BGStartThread PROVE InOrderExactlyOnce'
  OBVIOUS
<1> DEFINE front == started \o bgItem
<1>1. front \in Seq(Nat) /\ scheduled = front \o queue
  BY ConcatProperties DEF IInv, TypeOK, InOrderExactlyOnce
<1>2. started' = front /\ bgItem' = <<>> /\ queue' = queue /\ scheduled' = scheduled
  BY DEF BGStartThread
<1> HIDE DEF front
<1>3. front \o <<>> = front
  BY <1>1, ConcatEmptySeq
<1>4. QED
  BY <1>1, <1>2, <1>3 DEF InOrderExactlyOnce

\* Every step keeps the items in order.
LEMMA StepData == IInv /\ [Next]_vars => InOrderExactlyOnce'
<1> SUFFICES ASSUME IInv, [Next]_vars PROVE InOrderExactlyOnce'
  OBVIOUS
<1>1. ASSUME NEW c \in Callers, ScheduleLock(c) \/ Schedule(c)
      PROVE  InOrderExactlyOnce'
  <2>1. CASE SchedulePush(c)
    BY <2>1, SchedulePushData
  <2>2. CASE ScheduleLock(c) \/ ScheduleCreate(c) \/ ScheduleSignal(c) \/ ScheduleUnlock(c)
    BY <2>2 DEF ScheduleLock, ScheduleCreate, ScheduleSignal, ScheduleUnlock, data,
       IInv, InOrderExactlyOnce
  <2>3. QED
    BY <1>1, <2>1, <2>2 DEF Schedule
<1>2. CASE BGPop
  BY <1>2, BGPopData
<1>3. CASE BGStartThread
  BY <1>3, BGStartThreadData
<1>4. CASE BGLock \/ BGWait \/ BGUnlock \/ SpuriousWakeup \/ CreateFails
  BY <1>4 DEF BGLock, BGWait, BGUnlock, SpuriousWakeup, CreateFails, data,
     IInv, InOrderExactlyOnce
<1>5. CASE UNCHANGED vars
  BY <1>5 DEF vars, data, IInv, InOrderExactlyOnce
<1>6. QED
  BY <1>1, <1>2, <1>3, <1>4, <1>5 DEF Next, BGThread

\* The inductive invariant holds.
LEMMA Inductive == Spec => []IInv
<1>1. Init => IInv
  BY InitType, InitControl, InitData DEF IInv
<1>2. IInv /\ [Next]_vars => IInv'
  BY StepType, StepControl, StepData DEF IInv
<1>3. QED
  BY <1>1, <1>2, PTL DEF Spec

\* For every number of items and callers, each item scheduled is handed to one
\* thread, in order.
THEOREM ItemsInOrderExactlyOnce == Spec => []InOrderExactlyOnce
<1>1. IInv => InOrderExactlyOnce
  BY DEF IInv
<1>2. QED
  BY <1>1, Inductive, PTL

-------------------------------------------------------------------------------
(* The environment implements AsyncCalls.                                  *)

\* The item popped is the oldest one not yet popped.
LEMMA PopExecutes == IInv /\ BGPop => Abstract!Execute
<1> SUFFICES ASSUME IInv, BGPop PROVE Abstract!Execute
  OBVIOUS
<1>1. /\ started \in Seq(Nat) /\ queue \in Seq(Nat) /\ queue # <<>>
      /\ bgItem = <<>> /\ scheduled = (started \o bgItem) \o queue
  BY DEF IInv, TypeOK, Control, Hand, HandFull, InOrderExactlyOnce, BGPop, BGGoes
<1>2. started \o bgItem = started /\ scheduled = started \o queue
  BY <1>1, ConcatEmptySeq
<1>3. Len(started) < Len(scheduled) /\ scheduled[Len(started) + 1] = Head(queue)
  BY <1>1, <1>2, NextOfConcat
<1>4. (started \o bgItem)' = Append(started, Head(queue))
  <2>1. Head(queue) \in Nat
    BY <1>1, HeadTailProperties
  <2>2. started' = started /\ bgItem' = <<Head(queue)>>
    BY DEF BGPop
  <2>3. started \o <<Head(queue)>> = Append(started, Head(queue))
    BY <1>1, <2>1, AppendIsConcat
  <2>4. QED
    BY <2>2, <2>3
<1>5. UNCHANGED <<scheduled, started>>
  BY DEF BGPop
<1>6. QED
  BY <1>2, <1>3, <1>4, <1>5 DEF Abstract!Execute

\* The item that gets its thread is the oldest popped one without.
LEMMA StartDelivers == IInv /\ BGStartThread => Abstract!Deliver
<1> SUFFICES ASSUME IInv, BGStartThread PROVE Abstract!Deliver
  OBVIOUS
<1>1. started \in Seq(Nat) /\ bgItem \in Seq(Nat) /\ Len(bgItem) = 1
  BY DEF IInv, TypeOK, Control, Hand, HandFull, BGStartThread, BGGoes
<1>2. bgItem # <<>> /\ Head(bgItem) \in Nat /\ bgItem = <<Head(bgItem)>>
  BY <1>1, Singleton
<1>3. /\ Len(started) < Len(started \o bgItem)
      /\ (started \o bgItem)[Len(started) + 1] = Head(bgItem)
  BY <1>1, <1>2, NextOfConcat
<1>4. started' = Append(started, Head(bgItem))
  BY <1>1, <1>2, AppendIsConcat DEF BGStartThread
<1>5. (started \o bgItem)' = started \o bgItem /\ UNCHANGED scheduled
  <2>1. started' = started \o bgItem /\ bgItem' = <<>>
    BY DEF BGStartThread
  <2>2. (started \o bgItem) \o <<>> = started \o bgItem
    BY <1>1, ConcatProperties, ConcatEmptySeq
  <2>3. QED
    BY <2>1, <2>2 DEF BGStartThread
<1>6. QED
  BY <1>3, <1>4, <1>5 DEF Abstract!Deliver

\* Every step is a step of the abstract executor or leaves it unchanged.
LEMMA StepRefines == IInv /\ [Next]_vars => [Abstract!Next]_(Abstract!vars)
<1> SUFFICES ASSUME IInv, [Next]_vars
             PROVE  Abstract!Next \/ UNCHANGED <<scheduled, started \o bgItem, started>>
  BY DEF Abstract!vars
<1>1. ASSUME NEW c \in Callers, ScheduleLock(c) \/ Schedule(c)
      PROVE  Abstract!Next \/ UNCHANGED <<scheduled, started \o bgItem, started>>
  <2>1. CASE SchedulePush(c)
    BY <2>1 DEF SchedulePush, Abstract!Submit, Abstract!Next
  <2>2. CASE ScheduleLock(c) \/ ScheduleCreate(c) \/ ScheduleSignal(c) \/ ScheduleUnlock(c)
    BY <2>2 DEF ScheduleLock, ScheduleCreate, ScheduleSignal, ScheduleUnlock, data
  <2>3. QED
    BY <1>1, <2>1, <2>2 DEF Schedule
<1>2. CASE BGPop
  BY <1>2, PopExecutes DEF Abstract!Next
<1>3. CASE BGStartThread
  BY <1>3, StartDelivers DEF Abstract!Next
<1>4. CASE BGLock \/ BGWait \/ BGUnlock \/ SpuriousWakeup \/ CreateFails
  BY <1>4 DEF BGLock, BGWait, BGUnlock, SpuriousWakeup, CreateFails, data
<1>5. CASE UNCHANGED vars
  BY <1>5 DEF vars, data
<1>6. QED
  BY <1>1, <1>2, <1>3, <1>4, <1>5 DEF Next, BGThread

\* rpc::Env implements the abstract executor: an item is a call, its pop the
\* execution, the start of its thread the delivery.
THEOREM EnvImplementsAsyncCalls == Spec => ImplementsAsyncCalls
<1>1. Init => Abstract!Init
  BY EmptySeq, ConcatEmptySeq DEF Init, Abstract!Init
<1>2. QED
  BY <1>1, StepRefines, Inductive, PTL DEF Spec, ImplementsAsyncCalls, Abstract!Spec
===============================================================================
