-------------------------- MODULE RecordsystemProofs --------------------------
(***************************************************************************)
(* The lifetimes of the proxymod's objects, for any number of calls, lines *)
(* and levels: what each stage of the library's life leaves alive is what  *)
(* the calls that are still under way need, but for the two cases that     *)
(* MisuseHasCause names.                                                   *)
(***************************************************************************)
EXTENDS Recordsystem, SequenceTheorems, TLAPS

-------------------------------------------------------------------------------
(* Facts about queues.                                                     *)

\* Where a sequence of calls is cut does not matter.
LEMMA Regroup ==
  \A s, t, u \in Seq(Nat) : (s \o t) \o u = s \o (t \o u)
<1> SUFFICES ASSUME NEW s \in Seq(Nat), NEW t \in Seq(Nat), NEW u \in Seq(Nat)
             PROVE  (s \o t) \o u = s \o (t \o u)
  OBVIOUS
<1> QED
  BY ConcatAssociative, SMTT(60)

-------------------------------------------------------------------------------
(* The inductive invariant.                                                *)

\* What is alive at every stage.
Lifetimes ==
  /\ stage = "loaded" => alive = Constructed
  /\ stage = "failed" => alive = Constructed \cup Initialised
  /\ stage = "running" => alive = Objects
  /\ stage = "plugins" => Constructed \cup Initialised \subseteq alive
  /\ stage \in {"join", "callbacks"} =>
       (Constructed \cup Initialised) \ {"plugins"} \subseteq alive
  /\ stage = "deleting" /\ "recordsystem" \notin alive =>
       \A k \in DOMAIN Deletions : Deletions[k] # "env" => Deletions[k] \notin alive

\* The worker has a call while the client stands only.
WorkerBounded ==
  /\ stage \in {"unloaded", "loaded", "callbacks", "deleting"} => working = <<>>
  /\ stage = "loaded" => itemsThread = <<>>

\* A level that never had users has sent no Login.
NoLoginWithoutUsers ==
  stage \notin {"deleting", "unloaded"} /\ "users" \notin alive =>
    /\ \A i \in DOMAIN itemsThread : itemsThread[i] # "login"
    /\ \A i \in DOMAIN working : working[i] # "login"
    /\ \A i \in DOMAIN itemsMainThread : itemsMainThread[i].kind # "login"

\* PrintedInOrder, which starts with empty queues.
Ordered ==
  stage \in {"loaded", "running"} =>
    shown \o sentTextLines = [i \in 1 .. received |-> i]

IInv == Ordered /\ TypeOK /\ Lifetimes /\ WorkerBounded /\ NoLoginWithoutUsers /\ MisuseHasCause

-------------------------------------------------------------------------------
(* Types.                                                                  *)

\* What a reply adds to the lines that wait stays within the bound.
LEMMA LinesType ==
  ASSUME TypeOK, BoundsAssumption, NEW n \in Nat, received + n <= MaxLines
  PROVE  Lines(n) \in Seq(1 .. MaxLines) /\ received + n \in 0 .. MaxLines
<1>1. [i \in 1 .. n |-> received + i] \in Seq(1 .. MaxLines)
  <2>1. \A i \in 1 .. n : received + i \in 1 .. MaxLines
    BY DEF TypeOK, BoundsAssumption
  <2>2. QED
    BY <2>1
<1>2. QED
  BY <1>1, ConcatProperties DEF TypeOK, Lines, BoundsAssumption

\* Printing the first n lines that wait keeps the types.
LEMMA PrintType ==
  ASSUME TypeOK, NEW n \in 0 .. Len(sentTextLines)
  PROVE  /\ SubSeq(sentTextLines, 1, n) \in Seq(1 .. MaxLines)
         /\ SubSeq(sentTextLines, n + 1, Len(sentTextLines)) \in Seq(1 .. MaxLines)
         /\ shown \o SubSeq(sentTextLines, 1, n) \in Seq(1 .. MaxLines)
<1>1. sentTextLines \in Seq(1 .. MaxLines) /\ shown \in Seq(1 .. MaxLines)
  BY DEF TypeOK
<1>2. \A i \in 1 .. Len(sentTextLines) : sentTextLines[i] \in 1 .. MaxLines
  BY <1>1, ElementOfSeq
<1>3. SubSeq(sentTextLines, 1, n) \in Seq(1 .. MaxLines)
  BY <1>1, <1>2, SubSeqProperties
<1>4. SubSeq(sentTextLines, n + 1, Len(sentTextLines)) \in Seq(1 .. MaxLines)
  BY <1>1, <1>2, SubSeqProperties
<1>5. QED
  BY <1>1, <1>3, <1>4, ConcatProperties

\* A call that is handed over keeps the queue's type and bound.
LEMMA SubmitType ==
  ASSUME TypeOK, BoundsAssumption, NEW kind \in Kinds, Submit(kind)
  PROVE  /\ itemsThread' \in Seq(Kinds) /\ Len(itemsThread') <= MaxCalls
         /\ working' = working /\ itemsMainThread' = itemsMainThread
<1>1. Len(itemsThread) \in Nat /\ Len(working) \in Nat /\ Len(itemsMainThread) \in Nat
  BY DEF TypeOK
<1>2. /\ itemsThread' = Append(itemsThread, kind)
      /\ Len(itemsThread) + Len(working) + Len(itemsMainThread) < MaxCalls
  BY DEF Submit
<1>3. itemsThread' \in Seq(Kinds) /\ Len(itemsThread') = Len(itemsThread) + 1
  BY <1>2 DEF TypeOK
<1>4. Len(itemsThread) + 1 <= MaxCalls
  BY <1>1, <1>2 DEF BoundsAssumption
<1>5. QED
  BY <1>3, <1>4 DEF Submit

\* A missing object is a pair of a user and an object.
LEMMA MissingType ==
  ASSUME NEW who \in Kinds \cup {"worker", "OnVmMainShutdown", "vmMain"},
         NEW used, used \subseteq Objects
  PROVE  Missing(who, used) \subseteq (Kinds \cup {"worker", "OnVmMainShutdown", "vmMain"}) \X Objects
BY DEF Missing

\* Every action keeps the types.
LEMMA TypeStep == BoundsAssumption /\ TypeOK /\ [Next]_vars => TypeOK'
<1> SUFFICES ASSUME BoundsAssumption, TypeOK, [Next]_vars PROVE TypeOK'
  OBVIOUS
<1>1. CASE DllEntry
  BY <1>1, EmptySeq DEF DllEntry, TypeOK, Stages, Constructed, Objects, BoundsAssumption
<1>2. CASE GameInit
  BY <1>2, SubmitType DEF GameInit, TypeOK, Stages, Initialised, Objects, texts, Kinds
<1>3. CASE GameInitFails
  BY <1>3 DEF GameInitFails, TypeOK, Stages, Initialised, Objects, texts, calls
<1>4. CASE PluginCalls
  <2>1. PICK kind \in Kinds : Submit(kind)
    BY <1>4 DEF PluginCalls, Kinds
  <2>2. QED
    BY <1>4, <2>1, SubmitType DEF PluginCalls, TypeOK, texts
<1>5. CASE Callback
  <2>1. itemsMainThread # <<>> /\ itemsMainThread \in Seq([kind : Kinds, nil : BOOLEAN])
    BY <1>5 DEF Callback, TypeOK
  <2>2. /\ Head(itemsMainThread) \in [kind : Kinds, nil : BOOLEAN]
        /\ Tail(itemsMainThread) \in Seq([kind : Kinds, nil : BOOLEAN])
    BY <2>1, HeadTailProperties, EmptySeq
  <2>3. CallbackUses(Head(itemsMainThread)) \subseteq Objects
    BY <2>2 DEF CallbackUses, Kinds, Objects, Constructed, Initialised
  <2>4. misused' \subseteq (Kinds \cup {"worker", "OnVmMainShutdown", "vmMain"}) \X Objects
    <3>1. Missing(Head(itemsMainThread).kind, CallbackUses(Head(itemsMainThread)))
             \subseteq (Kinds \cup {"worker", "OnVmMainShutdown", "vmMain"}) \X Objects
      BY <2>2, <2>3, MissingType
    <3>2. misused' = misused \cup
            Missing(Head(itemsMainThread).kind, CallbackUses(Head(itemsMainThread)))
      BY <1>5 DEF Callback
    <3>3. QED
      BY <3>1, <3>2 DEF TypeOK
  <2>5. sentTextLines' \in Seq(1 .. MaxLines) /\ received' \in 0 .. MaxLines
    <3>1. CASE UNCHANGED <<sentTextLines, received>>
      BY <3>1 DEF TypeOK
    <3>2. CASE \E n \in ReplyLines \cup {0} :
                 /\ received + n <= MaxLines /\ received' = received + n
                 /\ sentTextLines' = Lines(n)
      BY <3>2, LinesType DEF BoundsAssumption
    <3>3. QED
      BY <1>5, <3>1, <3>2 DEF Callback
  <2>6. QED
    BY <1>5, <2>2, <2>4, <2>5 DEF Callback, TypeOK
<1>6. CASE RunFrame
  <2> DEFINE n == IF counter = 0 THEN 0
                  ELSE IF Len(sentTextLines) < LinesPerFrame THEN Len(sentTextLines)
                  ELSE LinesPerFrame
  <2>1. n \in 0 .. Len(sentTextLines)
    BY DEF TypeOK, BoundsAssumption
  <2>2. /\ shown' = shown \o SubSeq(sentTextLines, 1, n)
        /\ sentTextLines' = SubSeq(sentTextLines, n + 1, Len(sentTextLines))
    BY <1>6 DEF RunFrame
  <2>3. shown' \in Seq(1 .. MaxLines) /\ sentTextLines' \in Seq(1 .. MaxLines)
    <3> HIDE DEF n
    <3> QED
      BY <2>1, <2>2, PrintType
  <2>4. counter' \in 0 .. 3
    BY <1>6 DEF RunFrame, TypeOK
  <2>5. QED
    BY <1>6, <2>3, <2>4 DEF RunFrame, TypeOK, calls
<1>7. CASE WorkerTakes
  <2>1. /\ Head(itemsThread) \in Kinds /\ Tail(itemsThread) \in Seq(Kinds)
        /\ Len(Tail(itemsThread)) = Len(itemsThread) - 1 /\ Len(itemsThread) \in Nat
    BY <1>7 DEF WorkerTakes, TypeOK
  <2>2. working' \in Seq(Kinds) /\ Len(working') = 1
    BY <1>7, <2>1 DEF WorkerTakes
  <2>3. Len(itemsThread') <= MaxCalls
    BY <1>7, <2>1 DEF WorkerTakes, TypeOK, BoundsAssumption
  <2>4. QED
    BY <1>7, <2>1, <2>2, <2>3 DEF WorkerTakes, TypeOK, texts
<1>8. CASE WorkerReturns
  <2>1. Len(working) \in Nat /\ Len(working) # 0 /\ working \in Seq(Kinds)
    BY <1>8, EmptySeq DEF WorkerReturns, TypeOK
  <2>2. working[1] \in Kinds
    BY <2>1, ElementOfSeq
  <2>3. itemsMainThread' \in Seq([kind : Kinds, nil : BOOLEAN])
    BY <1>8, <2>2 DEF WorkerReturns, TypeOK
  <2>4. misused' \subseteq (Kinds \cup {"worker", "OnVmMainShutdown", "vmMain"}) \X Objects
    BY <1>8, MissingType DEF WorkerReturns, TypeOK, Objects, Constructed, Initialised
  <2>5. working' \in Seq(Kinds) /\ Len(working') <= 1
    BY <1>8, EmptySeq DEF WorkerReturns
  <2>6. QED
    BY <1>8, <2>3, <2>4, <2>5 DEF WorkerReturns, TypeOK, texts
<1>9. CASE BeginShutdown
  <2>1. misused' \subseteq (Kinds \cup {"worker", "OnVmMainShutdown", "vmMain"}) \X Objects
    BY <1>9, MissingType DEF BeginShutdown, TypeOK, Objects, Constructed
  <2>2. /\ itemsThread' \in Seq(Kinds) /\ Len(itemsThread') <= MaxCalls
        /\ working' = working /\ itemsMainThread' = itemsMainThread
    BY <1>9, SubmitType DEF BeginShutdown, TypeOK, Kinds, calls
  <2>3. QED
    BY <1>9, <2>1, <2>2 DEF BeginShutdown, TypeOK, Stages, texts
<1>10. CASE ShutdownPrint
  BY <1>10, SubmitType DEF ShutdownPrint, TypeOK, texts, Kinds
<1>11. CASE DeletePlugins
  BY <1>11, EmptySeq DEF DeletePlugins, TypeOK, Stages, calls
<1>12. CASE Join
  BY <1>12 DEF Join, TypeOK, Stages, calls, texts
<1>13. CASE CloseClient
  <2>1. misused' \subseteq (Kinds \cup {"worker", "OnVmMainShutdown", "vmMain"}) \X Objects
    BY <1>13, MissingType DEF CloseClient, TypeOK, Objects, Constructed, Initialised
  <2>2. QED
    BY <1>13, <2>1 DEF CloseClient, TypeOK, Stages, calls, texts
<1>14. ASSUME NEW k \in DOMAIN Deletions, Delete(k) PROVE TypeOK'
  <2>1. misused' \subseteq (Kinds \cup {"worker", "OnVmMainShutdown", "vmMain"}) \X Objects
    BY <1>14, MissingType DEF Delete, TypeOK, Objects, Constructed
  <2>2. QED
    BY <1>14, <2>1 DEF Delete, TypeOK, calls, texts
<1>15. CASE Unload
  BY <1>15 DEF Unload, TypeOK, Stages, calls, texts
<1>16. CASE UNCHANGED vars
  BY <1>16 DEF vars, calls, texts, TypeOK
<1>17. QED
  BY <1>1, <1>2, <1>3, <1>4, <1>5, <1>6, <1>7, <1>8, <1>9, <1>10, <1>11, <1>12, <1>13,
     <1>14, <1>15, <1>16 DEF Next

-------------------------------------------------------------------------------
(* Lifetimes.                                                              *)

\* Every action leaves alive what its stage promises.
LEMMA LifetimesStep == IInv /\ [Next]_vars => Lifetimes'
<1> SUFFICES ASSUME IInv, [Next]_vars PROVE Lifetimes'
  OBVIOUS
<1> USE DEF IInv, Lifetimes
<1>1. CASE DllEntry
  BY <1>1 DEF DllEntry
<1>2. CASE GameInit
  BY <1>2 DEF GameInit, Objects
<1>3. CASE GameInitFails
  BY <1>3 DEF GameInitFails
<1>4. CASE PluginCalls \/ Callback \/ RunFrame \/ WorkerTakes \/ WorkerReturns \/ ShutdownPrint
  BY <1>4 DEF PluginCalls, Callback, RunFrame, WorkerTakes, WorkerReturns, ShutdownPrint
<1>5. CASE BeginShutdown
  BY <1>5 DEF BeginShutdown, Objects
<1>6. CASE DeletePlugins
  BY <1>6 DEF DeletePlugins
<1>7. CASE Join
  BY <1>7 DEF Join
<1>8. CASE CloseClient
  BY <1>8 DEF CloseClient, Constructed
<1>9. ASSUME NEW k \in DOMAIN Deletions, Delete(k) PROVE Lifetimes'
  <2>1. stage' = "deleting" /\ alive' = alive \ {Deletions[k]} /\ k \in 1 .. 9
    BY <1>9 DEF Delete, Deletions
  <2>2. CASE "recordsystem" \notin alive
    BY <1>9, <2>1, <2>2 DEF Delete
  <2>3. CASE Deletions[k] = "recordsystem"
    <3>1. k = 8 /\ DOMAIN Deletions = 1 .. 9 /\ Deletions[9] = "env"
      BY <2>1, <2>3 DEF Deletions
    <3>2. \A i \in 1 .. 7 : Deletions[i] \notin alive
      BY <1>9, <3>1 DEF Delete
    <3>3. \A i \in DOMAIN Deletions : i \in 1 .. 7 \/ i = 8 \/ i = 9
      BY <3>1
    <3>4. QED
      BY <2>1, <3>1, <3>2, <3>3
  <2>4. QED
    BY <2>1, <2>2, <2>3
<1>10. CASE Unload
  BY <1>10 DEF Unload
<1>11. CASE UNCHANGED vars
  BY <1>11 DEF vars
<1>12. QED
  BY <1>1, <1>2, <1>3, <1>4, <1>5, <1>6, <1>7, <1>8, <1>9, <1>10, <1>11 DEF Next

\* The worker is joined before the client goes, and starts with an empty queue.
LEMMA WorkerStep == BoundsAssumption /\ IInv /\ [Next]_vars => WorkerBounded'
<1> SUFFICES ASSUME BoundsAssumption, IInv, [Next]_vars PROVE WorkerBounded'
  OBVIOUS
<1> USE DEF IInv, WorkerBounded
<1>1. CASE DllEntry
  BY <1>1 DEF DllEntry
<1>2. CASE GameInit \/ GameInitFails
  BY <1>2 DEF GameInit, GameInitFails, Submit, calls
<1>3. CASE PluginCalls \/ ShutdownPrint
  BY <1>3 DEF PluginCalls, ShutdownPrint, Submit
<1>4. CASE Callback \/ RunFrame
  BY <1>4 DEF Callback, RunFrame, calls
<1>5. CASE WorkerTakes \/ WorkerReturns
  BY <1>5 DEF WorkerTakes, WorkerReturns
<1>6. CASE BeginShutdown \/ DeletePlugins
  BY <1>6 DEF BeginShutdown, DeletePlugins, calls, Submit
<1>7. CASE Join \/ CloseClient \/ Unload \/ \E k \in DOMAIN Deletions : Delete(k)
  BY <1>7 DEF Join, CloseClient, Unload, Delete, calls
<1>8. CASE UNCHANGED vars
  BY <1>8 DEF vars, calls
<1>9. QED
  BY <1>1, <1>2, <1>3, <1>4, <1>5, <1>6, <1>7, <1>8 DEF Next

\* What is handed over besides a Login is no Login.
LEMMA NoLoginAppended ==
  ASSUME TypeOK, NEW kind \in Kinds \ {"login"},
         itemsThread' = Append(itemsThread, kind),
         \A i \in DOMAIN itemsThread : itemsThread[i] # "login"
  PROVE  \A i \in DOMAIN itemsThread' : itemsThread'[i] # "login"
BY DEF TypeOK

\* Only a level with users sends Logins, and its users outlive its plugins.
LEMMA NoLoginStep == IInv /\ [Next]_vars => NoLoginWithoutUsers'
<1> SUFFICES ASSUME IInv, [Next]_vars PROVE NoLoginWithoutUsers'
  OBVIOUS
<1> USE DEF IInv
<1>1. CASE DllEntry
  BY <1>1, EmptySeq DEF DllEntry, NoLoginWithoutUsers
<1>2. CASE GameInit \/ PluginCalls \/ ShutdownPrint
  BY <1>2 DEF GameInit, PluginCalls, ShutdownPrint, NoLoginWithoutUsers, Lifetimes, Objects
<1>3. CASE GameInitFails
  BY <1>3 DEF GameInitFails, NoLoginWithoutUsers, Lifetimes, Constructed, calls
<1>4. CASE Callback
  <2>1. itemsMainThread # <<>> /\ itemsMainThread' = Tail(itemsMainThread)
        /\ UNCHANGED <<stage, alive, itemsThread, working>>
    BY <1>4 DEF Callback
  <2>2. itemsMainThread \in Seq([kind : Kinds, nil : BOOLEAN])
    BY DEF TypeOK
  <2>3. \A i \in DOMAIN itemsMainThread' :
          i + 1 \in DOMAIN itemsMainThread /\ itemsMainThread'[i] = itemsMainThread[i + 1]
    BY <2>1, <2>2
  <2>4. QED
    BY <2>1, <2>3 DEF NoLoginWithoutUsers
<1>5. CASE RunFrame \/ Join
  BY <1>5 DEF RunFrame, Join, NoLoginWithoutUsers, calls
<1>6. CASE WorkerTakes
  <2>1. itemsThread \in Seq(Kinds) /\ itemsThread # <<>>
    BY <1>6 DEF WorkerTakes, TypeOK
  <2>2. /\ \A i \in DOMAIN Tail(itemsThread) :
             i + 1 \in DOMAIN itemsThread /\ Tail(itemsThread)[i] = itemsThread[i + 1]
        /\ 1 \in DOMAIN itemsThread /\ Head(itemsThread) = itemsThread[1]
    BY <2>1, EmptySeq
  <2>3. itemsThread' = Tail(itemsThread) /\ working' = <<Head(itemsThread)>>
        /\ UNCHANGED <<stage, alive, itemsMainThread>>
    BY <1>6 DEF WorkerTakes
  <2>4. QED
    BY <2>2, <2>3 DEF NoLoginWithoutUsers
<1>7. CASE WorkerReturns
  <2>1. working \in Seq(Kinds) /\ working # <<>> /\ 1 \in DOMAIN working
    BY <1>7, EmptySeq DEF WorkerReturns, TypeOK
  <2>2. PICK nil \in BOOLEAN :
          itemsMainThread' = Append(itemsMainThread, [kind |-> working[1], nil |-> nil])
    BY <1>7 DEF WorkerReturns
  <2>3. working' = <<>> /\ UNCHANGED <<stage, alive, itemsThread>>
    BY <1>7 DEF WorkerReturns
  <2>4. ASSUME \A i \in DOMAIN itemsMainThread : itemsMainThread[i].kind # "login",
               working[1] # "login"
        PROVE  \A i \in DOMAIN itemsMainThread' : itemsMainThread'[i].kind # "login"
    <3>1. itemsMainThread \in Seq([kind : Kinds, nil : BOOLEAN])
      BY DEF TypeOK
    <3>2. \A i \in DOMAIN itemsMainThread' :
            \/ i \in DOMAIN itemsMainThread /\ itemsMainThread'[i] = itemsMainThread[i]
            \/ itemsMainThread'[i] = [kind |-> working[1], nil |-> nil]
      BY <2>2, <3>1
    <3>3. QED
      BY <2>4, <3>2
  <2>5. QED
    BY <2>1, <2>3, <2>4 DEF NoLoginWithoutUsers
<1>8. CASE BeginShutdown
  <2>1. CASE Submit("update")
    BY <1>8, <2>1, NoLoginAppended DEF BeginShutdown, Submit, NoLoginWithoutUsers, Kinds
  <2>2. CASE UNCHANGED calls
    BY <1>8, <2>2 DEF BeginShutdown, NoLoginWithoutUsers, calls
  <2>3. QED
    BY <1>8, <2>1, <2>2 DEF BeginShutdown
<1>9. CASE DeletePlugins
  BY <1>9 DEF DeletePlugins, NoLoginWithoutUsers, calls
<1>10. CASE CloseClient \/ Unload \/ \E k \in DOMAIN Deletions : Delete(k)
  BY <1>10 DEF CloseClient, Unload, Delete, NoLoginWithoutUsers
<1>11. CASE UNCHANGED vars
  BY <1>11 DEF vars, calls, NoLoginWithoutUsers
<1>12. QED
  BY <1>1, <1>2, <1>3, <1>4, <1>5, <1>6, <1>7, <1>8, <1>9, <1>10, <1>11 DEF Next

-------------------------------------------------------------------------------
(* Who uses what is missing.                                               *)

\* A callback misses the plugins at most, and nothing while the level lasts.
LEMMA CallbackMisses ==
  ASSUME IInv, stage \in {"running", "callbacks"}, itemsMainThread # <<>>
  PROVE  LET call   == Head(itemsMainThread)
             missed == Missing(call.kind, CallbackUses(call))
         IN  /\ missed \subseteq {<<"command", "plugins">>}
             /\ stage = "running" => missed = {}
<1> DEFINE call == Head(itemsMainThread)
<1>1. itemsMainThread \in Seq([kind : Kinds, nil : BOOLEAN])
  BY DEF IInv, TypeOK
<1>2. /\ 1 \in DOMAIN itemsMainThread /\ call = itemsMainThread[1]
      /\ call \in [kind : Kinds, nil : BOOLEAN]
  <2>1. 1 \in DOMAIN itemsMainThread /\ call = itemsMainThread[1]
    BY <1>1, EmptySeq
  <2>2. call \in [kind : Kinds, nil : BOOLEAN]
    BY <1>1, HeadTailProperties
  <2>3. QED
    BY <2>1, <2>2
<1>3. call.kind = "login" => "users" \in alive
  BY <1>2 DEF IInv, NoLoginWithoutUsers
<1>4. {"recordsystem", "syscall"} \subseteq alive
  BY DEF IInv, Lifetimes, Constructed, Initialised, Objects
<1>5. stage = "running" => {"users", "plugins"} \subseteq alive
  BY DEF IInv, Lifetimes, Initialised, Objects
<1>6. CallbackUses(call) \ alive \subseteq
        (IF call.kind = "command" /\ call.nil /\ stage # "running" THEN {"plugins"} ELSE {})
  <2> HIDE DEF call
  <2> QED
    BY <1>2, <1>3, <1>4, <1>5 DEF CallbackUses, Kinds
<1>7. QED
  BY <1>6 DEF Missing

\* No action adds a misuse that has no cause, and none adds one to a level.
LEMMA MisuseStep ==
  IInv /\ [Next]_vars => MisuseHasCause' /\ (stage = "running" => misused' = misused)
<1> SUFFICES ASSUME IInv, [Next]_vars
             PROVE  MisuseHasCause' /\ (stage = "running" => misused' = misused)
  OBVIOUS
<1> USE DEF IInv, MisuseHasCause
<1>1. CASE Callback
  <2>1. misused' = misused \cup
          Missing(Head(itemsMainThread).kind, CallbackUses(Head(itemsMainThread)))
    BY <1>1 DEF Callback
  <2>2. stage \in {"running", "callbacks"} /\ itemsMainThread # <<>>
    BY <1>1 DEF Callback
  <2>3. QED
    BY <2>1, <2>2, CallbackMisses
<1>2. CASE WorkerReturns
  <2>1. stage \in {"running", "failed", "plugins", "join"}
    BY <1>2 DEF WorkerReturns, WorkerBounded, TypeOK, Stages
  <2>2. {"executer", "stub", "client", "env", "recordsystem", "syscall"} \subseteq alive
    BY <2>1 DEF Lifetimes, Constructed, Initialised, Objects
  <2>3. misused' = misused
    BY <1>2, <2>2 DEF WorkerReturns, Missing
  <2>4. QED
    BY <2>3
<1>3. CASE BeginShutdown
  <2>1. "syscall" \in alive /\ (stage = "running" => "users" \in alive)
    BY <1>3 DEF BeginShutdown, Lifetimes, Constructed, Objects
  <2>2. QED
    BY <1>3, <2>1 DEF BeginShutdown, Missing
<1>4. CASE DllEntry \/ GameInit \/ GameInitFails \/ PluginCalls \/ RunFrame \/ WorkerTakes
  BY <1>4 DEF DllEntry, GameInit, GameInitFails, PluginCalls, RunFrame, WorkerTakes
<1>5. CASE ShutdownPrint \/ DeletePlugins \/ Join \/ Unload
  BY <1>5 DEF ShutdownPrint, DeletePlugins, Join, Unload
<1>6. CASE CloseClient
  <2>1. stage = "callbacks" /\ {"client", "recordsystem", "syscall"} \subseteq alive
    BY <1>6 DEF CloseClient, Lifetimes, Constructed, Initialised
  <2>2. QED
    BY <1>6, <2>1 DEF CloseClient, Missing
<1>7. ASSUME NEW k \in DOMAIN Deletions, Delete(k)
      PROVE  MisuseHasCause' /\ (stage = "running" => misused' = misused)
  <2>1. Deletions[k] = "env" \/ "recordsystem" \in alive
    BY <1>7 DEF Delete, Lifetimes
  <2>2. QED
    BY <1>7, <2>1 DEF Delete, Missing
<1>8. CASE UNCHANGED vars
  BY <1>8 DEF vars
<1>9. QED
  BY <1>1, <1>2, <1>3, <1>4, <1>5, <1>6, <1>7, <1>8 DEF Next

-------------------------------------------------------------------------------
(* The order of the lines.                                                 *)

\* A reply goes behind what has been received.
LEMMA ReplyInOrder ==
  ASSUME TypeOK, BoundsAssumption, NEW n \in Nat, received + n <= MaxLines,
         shown \o sentTextLines = [i \in 1 .. received |-> i]
  PROVE  shown \o Lines(n) = [i \in 1 .. received + n |-> i]
<1> DEFINE new == [i \in 1 .. n |-> received + i]
           all == [i \in 1 .. received |-> i]
<1>1. received \in Nat
  BY DEF TypeOK
<1>2. shown \in Seq(Nat) /\ sentTextLines \in Seq(Nat)
  <2>1. 1 .. MaxLines \subseteq Nat
    OBVIOUS
  <2>2. QED
    BY <2>1, SeqMonotonic DEF TypeOK
<1>3. new \in Seq(Nat) /\ Len(new) = n
  BY <1>1
<1>4. all \in Seq(Nat) /\ Len(all) = received
  BY <1>1
<1>5. shown \o Lines(n) = all \o new
  <2>1. Lines(n) = sentTextLines \o new
    BY DEF Lines
  <2>2. (shown \o sentTextLines) \o new = shown \o (sentTextLines \o new)
    <3> HIDE DEF new
    <3> QED
      BY <1>2, <1>3, Regroup
  <2>3. QED
    BY <2>1, <2>2
<1>6. /\ all \o new \in Seq(Nat) /\ Len(all \o new) = received + n
      /\ \A i \in 1 .. received + n :
           (all \o new)[i] = IF i <= received THEN all[i] ELSE new[i - received]
  <2> HIDE DEF all, new
  <2>1. all \in Seq(Nat) /\ new \in Seq(Nat)
    BY <1>3, <1>4
  <2>2. /\ all \o new \in Seq(Nat) /\ Len(all \o new) = Len(all) + Len(new)
        /\ \A i \in 1 .. Len(all) + Len(new) :
             (all \o new)[i] = IF i <= Len(all) THEN all[i] ELSE new[i - Len(all)]
    BY <2>1, ConcatProperties
  <2>3. QED
    BY <1>3, <1>4, <2>2
<1>7. \A i \in 1 .. received + n : (all \o new)[i] = i
  BY <1>1, <1>6
<1>8. QED
  <2>1. [i \in 1 .. received + n |-> i] \in Seq(Nat) /\ Len([i \in 1 .. received + n |-> i]) = received + n
    BY <1>1
  <2>2. all \o new = [i \in 1 .. received + n |-> i]
    BY <1>6, <1>7, <2>1, SeqEqual
  <2>3. QED
    BY <1>5, <2>2

\* Where the waiting lines are cut does not matter.
LEMMA PrintKeepsOrder ==
  ASSUME TypeOK, NEW n \in 0 .. Len(sentTextLines)
  PROVE  (shown \o SubSeq(sentTextLines, 1, n))
           \o SubSeq(sentTextLines, n + 1, Len(sentTextLines)) = shown \o sentTextLines
<1>1. shown \in Seq(Nat) /\ sentTextLines \in Seq(Nat)
  <2>1. 1 .. MaxLines \subseteq Nat
    OBVIOUS
  <2>2. QED
    BY <2>1, SeqMonotonic DEF TypeOK
<1>2. /\ SubSeq(sentTextLines, 1, n) \in Seq(Nat)
      /\ SubSeq(sentTextLines, n + 1, Len(sentTextLines)) \in Seq(Nat)
  <2>1. \A i \in 1 .. Len(sentTextLines) : sentTextLines[i] \in Nat
    BY <1>1, ElementOfSeq
  <2>2. QED
    BY <1>1, <2>1, SubSeqProperties
<1>3. SubSeq(sentTextLines, 1, n) \o SubSeq(sentTextLines, n + 1, Len(sentTextLines))
        = SubSeq(sentTextLines, 1, Len(sentTextLines))
  <2>1. /\ 1 \in 1 .. Len(sentTextLines) + 1 /\ n \in 1 - 1 .. Len(sentTextLines)
        /\ Len(sentTextLines) \in n .. Len(sentTextLines)
    BY <1>1
  <2>2. QED
    BY <1>1, <2>1, ConcatAdjacentSubSeq
<1>4. SubSeq(sentTextLines, 1, Len(sentTextLines)) = sentTextLines
  BY <1>1, SubSeqFull
<1>5. QED
  <2> DEFINE first == SubSeq(sentTextLines, 1, n)
             rest  == SubSeq(sentTextLines, n + 1, Len(sentTextLines))
  <2>1. first \in Seq(Nat) /\ rest \in Seq(Nat) /\ first \o rest = sentTextLines
    BY <1>2, <1>3, <1>4
  <2>2. (shown \o first) \o rest = shown \o (first \o rest)
    <3> HIDE DEF first, rest
    <3> QED
      BY <1>1, <2>1, Regroup
  <2>3. QED
    BY <2>1, <2>2

\* Lines are received at one end and printed at the other.
LEMMA OrderedStep == BoundsAssumption /\ IInv /\ [Next]_vars => Ordered'
<1> SUFFICES ASSUME BoundsAssumption, IInv, [Next]_vars PROVE Ordered'
  OBVIOUS
<1> USE DEF Ordered
<1>1. CASE DllEntry
  <2>1. shown' = <<>> /\ sentTextLines' = <<>> /\ received' = 0
    BY <1>1 DEF DllEntry
  <2>2. <<>> \o <<>> = [i \in 1 .. 0 |-> i]
    BY ConcatEmptySeq, EmptySeq
  <2>3. QED
    BY <2>1, <2>2
<1>2. CASE GameInit \/ PluginCalls
  BY <1>2 DEF IInv, GameInit, PluginCalls, texts
<1>3. CASE Callback
  <2>1. CASE UNCHANGED <<sentTextLines, received>>
    BY <1>3, <2>1 DEF IInv, Callback
  <2>2. CASE \E n \in ReplyLines \cup {0} :
               /\ received + n <= MaxLines /\ received' = received + n
               /\ sentTextLines' = Lines(n)
    <3>1. PICK n \in ReplyLines \cup {0} :
            /\ received + n <= MaxLines /\ received' = received + n
            /\ sentTextLines' = Lines(n)
      BY <2>2
    <3>2. n \in Nat
      BY DEF BoundsAssumption
    <3>3. UNCHANGED <<stage, shown>> /\ TypeOK
      BY <1>3 DEF Callback, IInv
    <3>4. CASE stage \in {"loaded", "running"}
      <4>1. shown \o Lines(n) = [i \in 1 .. received + n |-> i]
        BY <3>1, <3>2, <3>3, <3>4, ReplyInOrder DEF IInv
      <4>2. QED
        BY <3>1, <3>3, <4>1
    <3>5. QED
      BY <3>3, <3>4
  <2>3. QED
    BY <1>3, <2>1, <2>2 DEF Callback
<1>4. CASE RunFrame
  <2> DEFINE n == IF counter = 0 THEN 0
                  ELSE IF Len(sentTextLines) < LinesPerFrame THEN Len(sentTextLines)
                  ELSE LinesPerFrame
  <2>1. n \in 0 .. Len(sentTextLines)
    BY DEF IInv, TypeOK, BoundsAssumption
  <2>2. /\ shown' = shown \o SubSeq(sentTextLines, 1, n)
        /\ sentTextLines' = SubSeq(sentTextLines, n + 1, Len(sentTextLines))
        /\ UNCHANGED <<stage, received>>
    BY <1>4 DEF RunFrame
  <2>3. shown' \o sentTextLines' = shown \o sentTextLines
    <3> HIDE DEF n
    <3> QED
      BY <2>1, <2>2, PrintKeepsOrder DEF IInv
  <2>4. QED
    BY <2>2, <2>3 DEF IInv
<1>5. CASE WorkerTakes \/ WorkerReturns
  BY <1>5 DEF IInv, WorkerTakes, WorkerReturns, texts
<1>6. CASE \/ GameInitFails \/ BeginShutdown \/ ShutdownPrint \/ DeletePlugins
           \/ Join \/ CloseClient \/ Unload \/ \E k \in DOMAIN Deletions : Delete(k)
  BY <1>6 DEF GameInitFails, BeginShutdown, ShutdownPrint, DeletePlugins, Join, CloseClient,
     Unload, Delete
<1>7. CASE UNCHANGED vars
  BY <1>7 DEF IInv, vars, texts
<1>8. QED
  BY <1>1, <1>2, <1>3, <1>4, <1>5, <1>6, <1>7 DEF Next

-------------------------------------------------------------------------------
(* The theorems.                                                           *)

\* A library that is not loaded has nothing to miss.
LEMMA InitInductive == BoundsAssumption /\ Init => IInv
BY EmptySeq DEF Init, IInv, Ordered, TypeOK, Stages, Lifetimes, WorkerBounded, NoLoginWithoutUsers,
   MisuseHasCause, BoundsAssumption

\* The invariant is inductive.
LEMMA Inductive == Spec => []IInv
<1>1. IInv /\ [Next]_vars => IInv'
  BY BoundsAssumption, TypeStep, LifetimesStep, WorkerStep, NoLoginStep, MisuseStep, OrderedStep
  DEF IInv
<1>2. QED
  BY BoundsAssumption, InitInductive, <1>1, PTL DEF Spec

\* Every variable of the proxymod's life keeps its type (TypeOK).
THEOREM TypeCorrect == Spec => []TypeOK
<1>1. IInv => TypeOK
  BY DEF IInv
<1>2. QED
  BY Inductive, <1>1, PTL

\* Only a command's late reply and the end of a level that never began use what is
\* not there (MisuseHasCause), for any number of calls and levels.
THEOREM MisusesHaveCauses == Spec => []MisuseHasCause
<1>1. IInv => MisuseHasCause
  BY DEF IInv
<1>2. QED
  BY Inductive, <1>1, PTL

\* Nothing that is used while the level lasts is missing (PlaysOnLiveObjects).
THEOREM LevelPlaysOnLiveObjects == Spec => PlaysOnLiveObjects
<1>1. IInv /\ [Next]_vars => [stage = "running" => misused' = misused]_vars
  BY MisuseStep
<1>2. QED
  BY Inductive, <1>1, PTL DEF Spec, PlaysOnLiveObjects

\* The lines of the replies are printed in their order, each once (PrintedInOrder),
\* for any lengths of replies and any number of lines per frame.
THEOREM LinesPrintedInOrder == Spec => []PrintedInOrder
<1>1. IInv => PrintedInOrder
  BY DEF IInv, Ordered, PrintedInOrder
<1>2. QED
  BY Inductive, <1>1, PTL
===============================================================================
