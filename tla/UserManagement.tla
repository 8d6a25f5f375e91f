---------------------------- MODULE UserManagement ----------------------------
(***************************************************************************)
(* Who is logged in on which slot: client/Plugins/UserManagementPlugin.cc, *)
(* Q3User, and what Recordsystem::VmMain does around the plugin's handlers.*)
(* Login is an asynchronous call: its reply comes frames later, when the   *)
(* slot may belong to someone else, or after the level has ended.          *)
(*                                                                         *)
(* calls is the data of the executor (see AsyncCalls) for the calls that   *)
(* have a callback, the Logins: a prefix has been answered, the rest has   *)
(* not.  ClientConnected and ClientDisconnected have none and are left out.*)
(* A uniqueId_ is a random uuid and only compared with the one a reply     *)
(* echoes: a call is current while the slot still has the uid it carries.  *)
(* A connection is told apart from the later ones of its slot by history:  *)
(* a call is live while the connection that caused it stands, and own says *)
(* that the user id of a slot was granted to the connection it has now.    *)
(*                                                                         *)
(* The engine is external: it connects a client to a free slot, asks again *)
(* for every connected client after a level change, and drops a client     *)
(* that is refused then.  Definitions named X_Change are mutants of X.     *)
(***************************************************************************)
EXTENDS Naturals, Sequences, FiniteSets

CONSTANTS
  Players,      \* the slots, 0 among them
  MaxPending    \* bound on the Logins under way

ASSUME UserManagementAssumption ==
  /\ IsFiniteSet(Players) /\ Players \subseteq Nat /\ 0 \in Players
  /\ MaxPending \in Nat

LoggedOut == 0
Account == 11      \* Q3dfApiImpl::Login grants this id to everyone

VARIABLES
  phase,         \* of the level: game, down, restoring
  slot,          \* the engine's view of each slot: free or taken
  users,         \* userList_: state_ and userId_ of each Q3User
  loginstate,    \* the cvars loginstate<n>, which outlive the level
  noNewClients,  \* the plugin's copy of rs_no_new_clients
  calls,         \* the Logins whose callback has not run
  own,           \* history: users[p].userId was granted to p's connection
  ownState,      \* history: the same of loginstate[p]
  wasIn,         \* history: the slots logged in when the level before ended
  failed,        \* history: a Login of this level has failed
  keyless        \* history: the slots logged out for want of a key, as they still are

vars == <<phase, slot, users, loginstate, noNewClients, calls, own, ownState, wasIn, failed,
          keyless>>

UserType == [state  : {"free", "connected", "active"},
             userId : {LoggedOut, Account}]
CallType == [player : Players, status : {"sent", "ok", "failed"},
             current : BOOLEAN, live : BOOLEAN]

TypeOK ==
  /\ phase \in {"game", "down", "restoring"}
  /\ slot \in [Players -> {"free", "taken"}]
  /\ users \in [Players -> UserType]
  /\ loginstate \in [Players -> {LoggedOut, Account}]
  /\ noNewClients \in BOOLEAN
  /\ calls \in Seq(CallType) /\ Len(calls) <= MaxPending
  /\ own \in [Players -> BOOLEAN] /\ ownState \in [Players -> BOOLEAN]
  /\ wasIn \subseteq Players
  /\ failed \in BOOLEAN
  /\ keyless \subseteq Players

\* Q3User::Reset
Reset == [state |-> "free", userId |-> LoggedOut]

\* The constructor of Q3User sets neither state_ nor userId_; its creator resets it.
NewUser == Reset

Init ==
  /\ phase = "game"
  /\ slot = [p \in Players |-> "free"]
  /\ users = [p \in Players |-> NewUser]
  /\ loginstate = [p \in Players |-> LoggedOut]
  /\ noNewClients = FALSE
  /\ calls = <<>>
  /\ own = [p \in Players |-> FALSE] /\ ownState = [p \in Players |-> FALSE]
  /\ wasIn = {}
  /\ failed = FALSE
  /\ keyless = {}

-------------------------------------------------------------------------------
(* The handlers, on s = [users, calls].                                    *)

LoginOf(p) == [player |-> p, status |-> "sent", current |-> TRUE, live |-> TRUE]

\* The slot gets another uid, or none: replies to its calls will not match.
Outdated(cs, p) ==
  [k \in DOMAIN cs |-> [cs[k] EXCEPT !.current = @ /\ cs[k].player # p]]

ConnectedUser_NoState(p, isFirstTime) ==
  [state  |-> IF isFirstTime THEN "free" ELSE "active",
   userId |-> IF isFirstTime THEN LoggedOut ELSE loginstate[p]]
ConnectedUser(p, isFirstTime) ==
  [state  |-> IF isFirstTime THEN "connected" ELSE "active",
   userId |-> IF isFirstTime THEN LoggedOut ELSE loginstate[p]]

OnClientConnected_TrustsState(s, p, isFirstTime) ==
  [users |-> [s.users EXCEPT ![p] = ConnectedUser(p, isFirstTime)],
   calls |-> IF isFirstTime THEN Append(Outdated(s.calls, p), LoginOf(p))
             ELSE Outdated(s.calls, p)]
OnClientConnected_UidLast(s, p, isFirstTime) ==
  [users |-> [s.users EXCEPT ![p] = ConnectedUser(p, isFirstTime)],
   calls |-> Outdated(Append(s.calls, LoginOf(p)), p)]
\* Reset leaves no user id, so OnClientUserInfoChanged always sends a Login here.
OnClientConnected(s, p, isFirstTime) ==
  [users |-> [s.users EXCEPT ![p] = ConnectedUser(p, isFirstTime)],
   calls |-> Append(Outdated(s.calls, p), LoginOf(p))]

\* VmMain runs the handler before it forwards the call to the vm, and again
\* after, whatever the vm answers.
VmMainConnect(p, isFirstTime) ==
  LET before == OnClientConnected([users |-> users, calls |-> calls], p, isFirstTime)
  IN  OnClientConnected(before, p, isFirstTime)

\* The connection on p ends: its calls are no longer live.
Ended(cs, p) ==
  [k \in DOMAIN cs |-> [cs[k] EXCEPT !.live = @ /\ cs[k].player # p]]

\* OnClientDisconnected, with the calls as they are by then.
OnClientDisconnected(p, us, cs) ==
  /\ users' = [us EXCEPT ![p] = Reset]
  /\ calls' = Ended(Outdated(cs, p), p)
  /\ loginstate' = [loginstate EXCEPT ![p] = LoggedOut]
  /\ ownState' = [ownState EXCEPT ![p] = FALSE]
  /\ own' = [own EXCEPT ![p] = FALSE]
  /\ slot' = [slot EXCEPT ![p] = "free"]
  /\ keyless' = keyless \ {p}

-------------------------------------------------------------------------------
(* The game.                                                               *)

RoomFor(n) == Len(calls) + n <= MaxPending

\* GAME_CLIENT_CONNECT of a new client.  While the server is latched nothing
\* changes.  The vm may refuse the client; the engine does not tell the plugins.
ClientConnect(p, accepted) ==
  /\ phase = "game" /\ slot[p] = "free" /\ ~noNewClients /\ RoomFor(2)
  /\ LET s == VmMainConnect(p, TRUE) IN
       /\ users' = s.users
       /\ calls' = IF accepted THEN s.calls ELSE Ended(s.calls, p)
  /\ slot' = [slot EXCEPT ![p] = IF accepted THEN "taken" ELSE "free"]
  /\ own' = [own EXCEPT ![p] = FALSE]
  /\ UNCHANGED <<phase, loginstate, noNewClients, ownState, wasIn, failed, keyless>>

ClientBegin(p) ==
  /\ phase = "game" /\ slot[p] = "taken"
  /\ users' = [users EXCEPT ![p].state = "active"]
  /\ UNCHANGED <<phase, slot, loginstate, noNewClients, calls, own, ownState, wasIn, failed,
                 keyless>>

\* GAME_CLIENT_USERINFO_CHANGED, with or without a q3dfkey.  lastQ3dfkey_ is
\* never set, so a client with a key logs in anew each time.
ClientUserinfoChanged(p, hasKey) ==
  /\ phase = "game" /\ slot[p] = "taken"
  /\ IF ~hasKey /\ users[p].userId # LoggedOut
     THEN /\ users' = [users EXCEPT ![p].userId = LoggedOut]
          /\ keyless' = keyless \cup {p}
          /\ own' = [own EXCEPT ![p] = FALSE]
          /\ UNCHANGED calls
     ELSE /\ RoomFor(1)
          /\ calls' = Append(calls, LoginOf(p))
          /\ keyless' = keyless \ {p}
          /\ UNCHANGED <<users, own>>
  /\ UNCHANGED <<phase, slot, loginstate, noNewClients, ownState, wasIn, failed>>

ClientDisconnect(p) ==
  /\ phase = "game" /\ slot[p] = "taken"
  /\ OnClientDisconnected(p, users, calls)
  /\ UNCHANGED <<phase, noNewClients, wasIn, failed>>

-------------------------------------------------------------------------------
(* Logins.                                                                 *)

Answered == {k \in DOMAIN calls : calls[k].status # "sent"}

\* A failed call whose reply names q.
Failed(q) == [player |-> q, status |-> "failed", current |-> FALSE, live |-> FALSE]

\* How a remote call may return: with the reply of the daemon, which echoes the
\* identifier, or with an error.  A transport error leaves the reply empty, and an
\* empty one names player 0.  The client reads the body before it looks at the id
\* of the header, so that a call which meets what an earlier one has left on the
\* connection fails with the reply of that Login and names its player.
Outcomes(c) == {[c EXCEPT !.status = "ok"]} \cup {Failed(q) : q \in Players}

\* The worker's remote call returns.
Execute ==
  /\ phase \in {"game", "restoring"}
  /\ LET k == Cardinality(Answered) + 1 IN
       /\ k \in DOMAIN calls
       /\ \E c \in Outcomes(calls[k]) :
            /\ calls' = [calls EXCEPT ![k] = c]
            /\ failed' = (failed \/ c.status = "failed")
  /\ UNCHANGED <<phase, slot, users, loginstate, noNewClients, own, ownState, wasIn, keyless>>

LoginCallback_NoUidCheck(c, p) ==
  IF c.player # p THEN {} ELSE IF c.status = "failed" THEN {LoggedOut} ELSE {Account}
LoginCallback_StaleLogsOut(c, p) ==
  IF c.player # p THEN {}
  ELSE IF c.status = "failed" \/ ~c.current THEN {LoggedOut} ELSE {Account}
\* The user id the callback of c gives to slot p, if any.  It looks at the uid of
\* the slot its reply names only when the call has not failed.
LoginCallback(c, p) ==
  IF c.player # p THEN {}
  ELSE IF c.status = "failed" THEN {LoggedOut}
  ELSE IF c.current THEN {Account} ELSE {}

\* DoMainThreadWork runs the callbacks of all answered calls in their order: the
\* last one that names a slot decides.
Naming(p) == {k \in Answered : LoginCallback(calls[k], p) # {}}
Last(p) == calls[CHOOSE k \in Naming(p) : \A i \in Naming(p) : i <= k]

DoMainThreadWork ==
  /\ users' = [p \in Players |->
       IF Naming(p) = {} THEN users[p]
       ELSE [users[p] EXCEPT !.userId = CHOOSE id \in LoginCallback(Last(p), p) : TRUE]]
  /\ own' = [p \in Players |->
       IF Naming(p) = {} THEN own[p] ELSE Last(p).live]
  /\ calls' = SubSeq(calls, Cardinality(Answered) + 1, Len(calls))

\* GAME_RUN_FRAME: the cvars are read anew, then the callbacks run.
RunFrame ==
  /\ phase \in {"game", "restoring"}
  /\ noNewClients' \in BOOLEAN
  /\ DoMainThreadWork
  /\ keyless' = {p \in keyless : users'[p].userId = LoggedOut}
  /\ UNCHANGED <<phase, slot, loginstate, ownState, wasIn, failed>>

-------------------------------------------------------------------------------
(* The level changes.                                                      *)

Saved_OnlyActive(p) == users[p].state = "active"
\* The slots whose login OnVmMainShutdown keeps.
Saved(p) == users[p].state # "free"

\* GAME_SHUTDOWN: OnVmMainShutdown, then the executor's destructor and the end
\* of userList_.  The destructor runs the callbacks of the calls the worker got
\* to and drops the others; what the callbacks do to the users goes with them.
Shutdown ==
  /\ phase = "game"
  /\ phase' = "down"
  /\ loginstate' = [p \in Players |-> IF Saved(p) THEN users[p].userId ELSE loginstate[p]]
  /\ ownState' = [p \in Players |-> IF Saved(p) THEN own[p] ELSE ownState[p]]
  /\ wasIn' = {p \in Players : slot[p] = "taken" /\ users[p].userId # LoggedOut}
  /\ users' = [p \in Players |-> NewUser]
  /\ own' = [p \in Players |-> FALSE]
  /\ calls' = <<>>
  /\ keyless' = {}
  /\ UNCHANGED <<slot, noNewClients, failed>>

\* GAME_INIT of the next level.
GameInit ==
  /\ phase = "down"
  /\ phase' = "restoring"
  /\ users' = [p \in Players |-> NewUser]
  /\ noNewClients' \in BOOLEAN
  /\ failed' = FALSE
  /\ UNCHANGED <<slot, loginstate, calls, own, ownState, wasIn, keyless>>

ToRestore == {p \in Players : slot[p] = "taken" /\ users[p].state = "free"}

\* GAME_CLIENT_CONNECT of a client the level before has left connected.
Restore(p) ==
  /\ phase = "restoring" /\ p \in ToRestore /\ ~noNewClients /\ RoomFor(2)
  /\ LET s == VmMainConnect(p, FALSE) IN users' = s.users /\ calls' = s.calls
  /\ own' = [own EXCEPT ![p] = ownState[p]]
  /\ UNCHANGED <<phase, slot, loginstate, noNewClients, ownState, wasIn, failed, keyless>>

\* The same when the vm refuses it, or the plugin while the server is latched:
\* the engine drops the client, and says so.
RestoreRefused(p) ==
  /\ phase = "restoring" /\ p \in ToRestore
  /\ \/ noNewClients /\ OnClientDisconnected(p, users, calls)
     \/ /\ ~noNewClients /\ RoomFor(2)
        /\ LET s == VmMainConnect(p, FALSE) IN OnClientDisconnected(p, s.users, s.calls)
  /\ UNCHANGED <<phase, noNewClients, wasIn, failed>>

Restored ==
  /\ phase = "restoring" /\ ToRestore = {}
  /\ phase' = "game" /\ wasIn' = {}
  /\ UNCHANGED <<slot, users, loginstate, noNewClients, calls, own, ownState, failed, keyless>>

-------------------------------------------------------------------------------
Next ==
  \/ \E p \in Players :
       \/ \E accepted \in BOOLEAN : ClientConnect(p, accepted)
       \/ ClientBegin(p)
       \/ \E hasKey \in BOOLEAN : ClientUserinfoChanged(p, hasKey)
       \/ ClientDisconnect(p)
       \/ Restore(p) \/ RestoreRefused(p)
  \/ Execute
  \/ RunFrame
  \/ Shutdown \/ GameInit \/ Restored

Spec == Init /\ [][Next]_vars

\* The worker's calls return, and the engine runs frames.
Fairness ==
  /\ WF_vars(Execute)
  /\ WF_vars(RunFrame)

FairSpec == Spec /\ Fairness

-------------------------------------------------------------------------------
(* Properties.                                                             *)

\* The user id of a connected client was granted to a Login of its own
\* connection: never to one of the slot's previous owner whose reply came late,
\* nor to one an earlier level left in the slot's cvar.
OwnLogin ==
  \A p \in Players :
    (slot[p] = "taken" /\ users[p].userId # LoggedOut) => own[p]

\* In the game every client the engine has connected is known to the plugins, so
\* that OnVmMainShutdown will save its login.
ConnectedKnown ==
  phase = "game" =>
    \A p \in Players : slot[p] = "taken" =>
      users[p].state # "free"

\* A client that is asked for again after a level change is logged in just when
\* it was at the end of the level before: OnVmMainShutdown, the cvars and both
\* runs of OnClientConnected together carry the login over.
LoginKeptAcrossLevels ==
  [][\A p \in Players :
       Restore(p) => (users'[p].userId # LoggedOut <=> p \in wasIn)]_vars

\* A client stays logged in until it leaves, says it has no key or the level
\* ends, or a frame meets a failed Login whose reply names its slot, which may be a
\* Login of someone else.  Late replies take no login away.
LogoutHasReason ==
  [][\A p \in Players :
       (slot[p] = "taken" /\ users[p].userId # LoggedOut /\ users'[p].userId = LoggedOut)
         => \/ slot'[p] = "free"
            \/ ClientUserinfoChanged(p, FALSE)
            \/ phase' = "down"
            \/ RunFrame /\ \E k \in Answered :
                 calls[k].status = "failed" /\ calls[k].player = p]_vars

\* Nobody is forgotten: a client the plugins know and that is logged out either has
\* a Login under way whose reply will match its uid, or has been logged out for want
\* of a key, or a Login of the level has failed.  In particular a Login that was
\* granted while the level ended, whose callback the executor's destructor runs after
\* OnVmMainShutdown has saved the user ids, is asked for again in the next level.
LoggedInOrAsking ==
  \A p \in Players :
    (slot[p] = "taken" /\ users[p].state # "free" /\ users[p].userId = LoggedOut)
      => \/ p \in keyless \/ failed
         \/ \E k \in DOMAIN calls : calls[k].player = p /\ calls[k].current

\* A client whose Login is under way is logged in in the end, if it stays and no
\* remote call of the level fails, although the first reply is always stale.
LoginArrives ==
  \A p \in Players :
    (\E k \in DOMAIN calls : calls[k].player = p /\ calls[k].live)
      ~> \/ users[p].userId # LoggedOut
         \/ slot[p] = "free" \/ phase = "down" \/ failed
===============================================================================
