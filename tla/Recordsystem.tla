----------------------------- MODULE Recordsystem -----------------------------
(***************************************************************************)
(* The life of the proxymod in the game server: dllEntry, vmMain and the   *)
(* objects they create and delete (EntryPoint.cc, Recordsystem.cc), with   *)
(* the calls of the plugins that are still under way when the level ends,  *)
(* and UserCommandsPlugin, which shows the replies to the players' !       *)
(* commands a few lines per frame.                                         *)
(*                                                                         *)
(* The executer is the one of ApiAsyncExecuter, without its locks: calls   *)
(* are executed and called back in order, once.  The engine (external)     *)
(* loads the library, calls GAME_INIT, plays, calls GAME_SHUTDOWN and      *)
(* unloads the library; its G_ERROR does not return, so a GAME_INIT that   *)
(* fails is followed by GAME_SHUTDOWN.                                     *)
(***************************************************************************)
EXTENDS Integers, Sequences

CONSTANTS
  LinesPerFrame,  \* lines printed in one frame (5)
  ReplyLines,     \* the possible numbers of lines of a reply, besides none
  MaxCalls,       \* bound on the calls that are under way
  MaxLines        \* bound on the lines received in a level

ASSUME BoundsAssumption ==
  /\ {LinesPerFrame, MaxCalls} \subseteq Nat \ {0}
  /\ MaxLines \in Nat /\ ReplyLines \subseteq Nat

VARIABLES
  stage,      \* how far the engine and GAME_SHUTDOWN have come
  alive,      \* the objects that exist
  itemsThread,      \* kinds of the calls the worker has not begun
  working,          \* the call in the worker's hands, if any
  itemsMainThread,  \* calls whose callback has not run: their kind and whether they are Nil
  sentTextLines,    \* sentTextLinesToClient, the lines still to be printed
  counter,          \* counter_ of UserCommandsPlugin, modulo 4
  received,         \* history: how many lines the replies of this level had
  shown,            \* history: the lines printed in this level
  misused           \* history: who used an object that did not exist

calls == <<itemsThread, working, itemsMainThread>>
texts == <<sentTextLines, counter, received, shown>>
vars == <<stage, alive, calls, texts, misused>>

Kinds == {"plain", "login", "command", "update"}
Stages == {"unloaded", "loaded", "running", "failed", "plugins", "join", "callbacks",
           "deleting"}
\* What the constructor, GameInit and the end of GAME_INIT create.
Constructed == {"recordsystem", "executer", "vm_syscall", "syscall"}
Initialised == {"plugins", "cvars", "handlers", "env", "client", "stub", "vm"}
Objects == Constructed \cup Initialised \cup {"users"}

TypeOK ==
  /\ stage \in Stages
  /\ alive \subseteq Objects
  /\ itemsThread \in Seq(Kinds) /\ Len(itemsThread) <= MaxCalls
  /\ working \in Seq(Kinds) /\ Len(working) <= 1
  /\ itemsMainThread \in Seq([kind : Kinds, nil : BOOLEAN])
  /\ sentTextLines \in Seq(1 .. MaxLines)
  /\ counter \in 0 .. 3
  /\ received \in 0 .. MaxLines
  /\ shown \in Seq(1 .. MaxLines)
  /\ misused \subseteq (Kinds \cup {"worker", "OnVmMainShutdown", "vmMain"}) \X Objects

Init ==
  /\ stage = "unloaded" /\ alive = {} /\ misused = {}
  /\ itemsThread = <<>> /\ working = <<>> /\ itemsMainThread = <<>>
  /\ sentTextLines = <<>> /\ counter = 0 /\ received = 0 /\ shown = <<>>

\* who touches the objects used.
Missing(who, used) == {who} \X (used \ alive)

\* EXECUTE_API_ASYNC hands a call to the executer.
Submit(kind) ==
  /\ Len(itemsThread) + Len(working) + Len(itemsMainThread) < MaxCalls
  /\ itemsThread' = Append(itemsThread, kind)
  /\ UNCHANGED <<working, itemsMainThread>>

-------------------------------------------------------------------------------
(* Loading the library and GAME_INIT.                                      *)

\* A library that is loaded again has new globals; what was not deleted is lost.
DllEntry ==
  /\ stage = "unloaded"
  /\ stage' = "loaded" /\ alive' = Constructed
  /\ itemsThread' = <<>> /\ working' = <<>> /\ itemsMainThread' = <<>>
  /\ sentTextLines' = <<>> /\ counter' = 0 /\ received' = 0 /\ shown' = <<>>
  /\ UNCHANGED misused

\* The bytecode cannot be loaded: RS_Error leaves GAME_INIT for good.
GameInitFails ==
  /\ stage = "loaded"
  /\ stage' = "failed" /\ alive' = alive \cup Initialised
  /\ UNCHANGED <<calls, texts, misused>>

\* The users are created after the game has been initialised, then Register is sent.
GameInit_NoUsers ==
  /\ stage = "loaded"
  /\ stage' = "running" /\ alive' = alive \cup Initialised
  /\ Submit("plain")
  /\ UNCHANGED <<texts, misused>>
GameInit ==
  /\ stage = "loaded"
  /\ stage' = "running" /\ alive' = alive \cup Initialised \cup {"users"}
  /\ Submit("plain")
  /\ UNCHANGED <<texts, misused>>

-------------------------------------------------------------------------------
(* Playing.  The worker runs beside the game thread.                       *)

\* A handler of a plugin asks the daemon: a call without callback, a Login, or a
\* command of a player, which then is not passed on to the game.
PluginCalls ==
  /\ stage = "running"
  /\ \E kind \in {"plain", "login", "command"} : Submit(kind)
  /\ UNCHANGED <<stage, alive, texts, misused>>

\* What the callback of a call uses.
CallbackUses(call) ==
  CASE call.kind = "plain"   -> IF call.nil THEN {} ELSE {"recordsystem", "syscall"}
    [] call.kind = "update"  -> {"recordsystem", "syscall"}
    [] call.kind = "login"   -> {"recordsystem", "syscall", "users"}
    [] call.kind = "command" -> IF call.nil THEN {"plugins"} ELSE {"recordsystem", "syscall"}

\* OnExecClientCommandFinished puts the n lines of a reply behind those that wait.
Lines(n) == sentTextLines \o [i \in 1 .. n |-> received + i]

\* One round of DoMainThreadWork's loop.
Callback ==
  /\ stage \in {"running", "callbacks"} /\ itemsMainThread # <<>>
  /\ LET call == Head(itemsMainThread) IN
     /\ misused' = misused \cup Missing(call.kind, CallbackUses(call))
     /\ IF call.kind = "command" /\ call.nil /\ "plugins" \in alive
        THEN \E n \in ReplyLines \cup {0} :
               /\ received + n <= MaxLines /\ received' = received + n
               /\ sentTextLines' = Lines(n)
        ELSE UNCHANGED <<sentTextLines, received>>
  /\ itemsMainThread' = Tail(itemsMainThread)
  /\ UNCHANGED <<stage, alive, itemsThread, working, counter, shown>>

\* OnGameRunFrame rests every fourth frame.
RunFrame_Forgetful ==
  /\ stage = "running"
  /\ counter' = (counter + 1) % 4
  /\ LET n == IF Len(sentTextLines) < LinesPerFrame THEN Len(sentTextLines) ELSE LinesPerFrame
     IN  /\ shown' = shown \o IF counter # 0 THEN SubSeq(sentTextLines, 1, n) ELSE <<>>
         /\ sentTextLines' = SubSeq(sentTextLines, n + 1, Len(sentTextLines))
  /\ UNCHANGED <<stage, alive, calls, received, misused>>
RunFrame_FullOnly ==
  /\ stage = "running"
  /\ counter' = (counter + 1) % 4
  /\ LET n == IF counter = 0 \/ Len(sentTextLines) < LinesPerFrame THEN 0 ELSE LinesPerFrame
     IN  /\ shown' = shown \o SubSeq(sentTextLines, 1, n)
         /\ sentTextLines' = SubSeq(sentTextLines, n + 1, Len(sentTextLines))
  /\ UNCHANGED <<stage, alive, calls, received, misused>>
RunFrame ==
  /\ stage = "running"
  /\ counter' = (counter + 1) % 4
  /\ LET n == IF counter = 0 THEN 0
              ELSE IF Len(sentTextLines) < LinesPerFrame THEN Len(sentTextLines)
              ELSE LinesPerFrame
     IN  /\ shown' = shown \o SubSeq(sentTextLines, 1, n)
         /\ sentTextLines' = SubSeq(sentTextLines, n + 1, Len(sentTextLines))
  /\ UNCHANGED <<stage, alive, calls, received, misused>>

\* The worker takes a call; it does so too after the stop, until its queue is empty.
WorkerTakes ==
  /\ stage \notin {"unloaded", "callbacks", "deleting"}
  /\ working = <<>> /\ itemsThread # <<>>
  /\ working' = <<Head(itemsThread)>> /\ itemsThread' = Tail(itemsThread)
  /\ UNCHANGED <<stage, alive, itemsMainThread, texts, misused>>

\* It goes through the stub, the client and the library's Env, which prints what
\* goes wrong through the system calls of the recordsystem.
WorkerReturns ==
  /\ working # <<>>
  /\ misused' = misused \cup Missing("worker",
       {"executer", "stub", "client", "env", "recordsystem", "syscall"})
  /\ \E nil \in BOOLEAN :
       itemsMainThread' = Append(itemsMainThread, [kind |-> working[1], nil |-> nil])
  /\ working' = <<>>
  /\ UNCHANGED <<stage, alive, itemsThread, texts>>

-------------------------------------------------------------------------------
(* GAME_SHUTDOWN.                                                          *)

\* The update request of rs_auto_update, then OnVmMainShutdown, which writes the
\* login of every user to a cvar.
BeginShutdown ==
  /\ stage \in {"running", "failed"}
  /\ stage' = "plugins"
  /\ misused' = misused \cup Missing("OnVmMainShutdown", {"users", "syscall"})
  /\ \/ Submit("update")
     \/ UNCHANGED calls
  /\ UNCHANGED <<alive, texts>>

\* The game may print its farewells to the console, which is forwarded.
ShutdownPrint ==
  /\ stage = "plugins" /\ "users" \in alive
  /\ Submit("plain")
  /\ UNCHANGED <<stage, alive, texts, misused>>

DeletePlugins_UsersToo ==
  /\ stage = "plugins"
  /\ stage' = "join" /\ alive' = alive \ {"plugins", "users"} /\ sentTextLines' = <<>>
  /\ UNCHANGED <<calls, counter, received, shown, misused>>
DeletePlugins ==
  /\ stage = "plugins"
  /\ stage' = "join" /\ alive' = alive \ {"plugins"} /\ sentTextLines' = <<>>
  /\ UNCHANGED <<calls, counter, received, shown, misused>>

\* The executer's destructor joins the worker, which may leave calls behind ...
Join ==
  /\ stage = "join" /\ working = <<>>
  /\ stage' = "callbacks"
  /\ UNCHANGED <<alive, calls, texts, misused>>

\* ... runs the callbacks that are left, and warns of the calls that are.  Their
\* items and messages leak.  Then the client is closed, which is never deleted.
CloseClient ==
  /\ stage = "callbacks" /\ itemsMainThread = <<>>
  /\ stage' = "deleting" /\ alive' = alive \ {"executer"}
  /\ misused' = misused \cup Missing("vmMain",
       {"client"} \cup IF itemsThread = <<>> THEN {} ELSE {"recordsystem", "syscall"})
  /\ UNCHANGED <<calls, texts>>

\* What vmMain deletes then, in the order of the code; all but the last are
\* reached through the recordsystem.
Deletions_OwnerFirst ==
  <<"stub", "recordsystem", "syscall", "vm_syscall", "handlers", "cvars", "users", "vm", "env">>
Deletions ==
  <<"stub", "syscall", "vm_syscall", "handlers", "cvars", "users", "vm", "recordsystem", "env">>

Delete(k) ==
  /\ stage = "deleting"
  /\ Deletions[k] \in alive /\ \A i \in 1 .. k - 1 : Deletions[i] \notin alive
  /\ alive' = alive \ {Deletions[k]}
  /\ misused' = misused \cup Missing("vmMain",
       IF Deletions[k] = "env" THEN {} ELSE {"recordsystem"})
  /\ UNCHANGED <<stage, calls, texts>>

\* The engine unloads the library.
Unload ==
  /\ stage = "deleting" /\ \A k \in DOMAIN Deletions : Deletions[k] \notin alive
  /\ stage' = "unloaded"
  /\ UNCHANGED <<alive, calls, texts, misused>>

-------------------------------------------------------------------------------
Next ==
  \/ DllEntry \/ GameInit \/ GameInitFails
  \/ PluginCalls \/ Callback \/ RunFrame \/ WorkerTakes \/ WorkerReturns
  \/ BeginShutdown \/ ShutdownPrint \/ DeletePlugins \/ Join \/ CloseClient
  \/ (\E k \in DOMAIN Deletions : Delete(k)) \/ Unload

Spec == Init /\ [][Next]_vars

\* The engine runs frames while the level lasts.
FairSpec == Spec /\ WF_vars(RunFrame)

-------------------------------------------------------------------------------
(* Properties.                                                             *)

\* An object is used before it exists or after it was deleted in two cases only:
\* the reply to a player's command arrives after the plugins are gone, and the
\* level ends although its bytecode could not be loaded, so that there are no
\* users.  No other callback and no call of the worker outlives what it needs, and
\* vmMain itself deletes nothing that it goes on to use.
MisuseHasCause ==
  misused \subseteq {<<"command", "plugins">>, <<"OnVmMainShutdown", "users">>}

\* While the level lasts nothing at all is missing.
PlaysOnLiveObjects == [][stage = "running" => misused' = misused]_vars

\* The lines of all replies are printed in the order of the replies, each once.
PrintedInOrder ==
  stage = "running" => shown \o sentTextLines = [i \in 1 .. received |-> i]

\* A line that was received is printed, unless the level ends.
ReplyShown ==
  \A i \in 1 .. MaxLines :
    (stage = "running" /\ received >= i) ~> (stage # "running" \/ Len(shown) >= i)
===============================================================================
