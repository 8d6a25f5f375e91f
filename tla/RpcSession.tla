------------------------------ MODULE RpcSession ------------------------------
(***************************************************************************)
(* The calls of game servers to the daemon, over TCP connections that come *)
(* and go: rpc::Client (rpc_client.cc, rpc_wire.cc, Conn) in each server,  *)
(* one thread of ServerConn::ServeProc per connection in the daemon, and   *)
(* the daemon's ClientList, keyed by the address of a Conn object, which   *)
(* the allocator may give to a later connection.                           *)
(*                                                                         *)
(* A server's calls are made by one worker, one at a time (see             *)
(* ApiAsyncExecuter); every accepted connection gets its thread (RpcEnv).  *)
(* Frames are delivered in order or, on a connection that is lost, not at  *)
(* all; what a frame carries is the call it belongs to.  The methods stand *)
(* for all: Register, Command (which looks the client up), Unknown (a      *)
(* method the daemon does not have) and Printf for the others.             *)
(*                                                                         *)
(* Definitions named Action_Change are mutants of Action.                  *)
(***************************************************************************)
EXTENDS Naturals, SequencesExt

CONSTANTS
  Servers,     \* the game servers
  Conns,       \* names for the TCP connections that exist at one time
  Addresses,   \* where the daemon's allocator puts Conn objects
  Methods,     \* the methods that servers call
  MaxCalls     \* bound on the calls sent in a level

NoConn == "none"
NoAddress == "null"
NoMethod == "none"

ASSUME RpcSessionAssumption == /\ NoConn \notin Conns /\ NoAddress \notin Addresses
                               /\ Methods \subseteq {"Printf", "Register", "Command", "Unknown"}
                               /\ MaxCalls \in Nat

VARIABLES
  up,       \* the daemon runs and listens
  client,   \* each server's rpc::Client and what it is doing
  conn,     \* each connection: both directions, and the daemon's thread
  clList    \* ClientList::clList_: the connection that made each entry

vars == <<up, client, conn, clList>>

Key == [kind |-> "key"]
Ok == [kind |-> "ok"]
Denied == [kind |-> "denied"]
Body(id) == [kind |-> "body", id |-> id]
Request(id, m) == <<[kind |-> "request", id |-> id, method |-> m], Body(id)>>
Response(id, err) == <<[kind |-> "response", id |-> id, error |-> err], Body(id)>>
NoReply == [kind |-> "response", id |-> 0, error |-> TRUE]

\* result: the call that has just returned Nil, and the call its reply was made for.
NewClient == [level |-> "none", pc |-> "idle", sock |-> NoConn, seq |-> 0,
              method |-> NoMethod, reply |-> NoReply, result |-> {}]

\* orphan and served are history: the level's Register had been tried before
\* this connection was dialled; the calls executed.
Unused == [thread |-> "unused", addr |-> NoAddress, id |-> 0, method |-> NoMethod,
           toServer |-> <<>>, toClient |-> <<>>, reset |-> FALSE,
           orphan |-> FALSE, served |-> <<>>]

Serving == {"header", "body", "call", "reply"}
HasConn == Serving \cup {"handshake", "disconnect", "delete"}

Ids == 0 .. MaxCalls
ToServer == {Key} \cup [kind : {"request"}, id : Ids, method : Methods] \cup [kind : {"body"}, id : Ids]
ToClient == {Ok, Denied} \cup [kind : {"response"}, id : Ids, error : BOOLEAN] \cup [kind : {"body"}, id : Ids]

TypeOK ==
  /\ up \in BOOLEAN
  /\ client \in [Servers -> [level : {"none", "starting", "running"},
                             pc : {"idle", "dial", "hello", "send", "header", "body"},
                             sock : Conns \cup {NoConn}, seq : Ids, method : Methods \cup {NoMethod},
                             result : SUBSET [call : Ids, answer : Ids],
                             reply : [kind : {"response"}, id : Ids, error : BOOLEAN]]]
  /\ \A k \in Conns :
       /\ conn[k].thread \in HasConn \cup {"unused", "backlog", "gone"}
       /\ conn[k].addr \in Addresses <=> conn[k].thread \in HasConn
       /\ conn[k].id \in Ids /\ conn[k].method \in Methods \cup {NoMethod}
       /\ conn[k].toServer \in Seq(ToServer) /\ conn[k].toClient \in Seq(ToClient)
       /\ conn[k].served \in Seq(Ids)
  /\ clList \in [Addresses -> Conns \cup {NoConn}]

Init ==
  /\ up = FALSE
  /\ client = [s \in Servers |-> NewClient]
  /\ conn = [k \in Conns |-> Unused]
  /\ clList = [a \in Addresses |-> NoConn]

-------------------------------------------------------------------------------
(* Connections.                                                            *)

Held(k, cl) == \E s \in Servers : cl[s].sock = k

\* What an end that has gone did not read is discarded; a connection that both
\* ends have left is forgotten.
Settled(cn, cl) ==
  [k \in Conns |->
     IF Held(k, cl) THEN IF cn[k].thread = "gone" THEN [cn[k] EXCEPT !.toServer = <<>>, !.reset = FALSE] ELSE cn[k]
     ELSE IF cn[k].thread = "gone" THEN Unused ELSE [cn[k] EXCEPT !.toClient = <<>>]]

\* A connection is lost to an end when the other has closed, or it was reset:
\* what is sent then arrives nowhere, whether send says so or not, and recv
\* fails after the last frame that had arrived.
ServerLost(k) == conn[k].thread = "gone" \/ conn[k].reset
ClientLost(k) == ~Held(k, client) \/ conn[k].reset

NetworkBreaks(k) ==
  /\ Held(k, client) /\ conn[k].thread # "gone" /\ ~conn[k].reset
  /\ conn' = [conn EXCEPT ![k].reset = TRUE]
  /\ UNCHANGED <<up, client, clList>>

\* Of what was under way, the last frames may not arrive.
FrameLost(k) ==
  /\ conn[k].thread # "unused" /\ (ServerLost(k) \/ ClientLost(k))
  /\ \/ conn[k].toServer # <<>> /\ conn' = [conn EXCEPT ![k].toServer = Front(@)]
     \/ conn[k].toClient # <<>> /\ conn' = [conn EXCEPT ![k].toClient = Front(@)]
  /\ UNCHANGED <<up, client, clList>>

-------------------------------------------------------------------------------
(* A game server: its levels, and Client::callMethod.                      *)

ClientGoes(s, from, to) ==
  client[s].pc = from /\ client' = [client EXCEPT ![s].pc = to]

Close(s) ==
  /\ client' = [client EXCEPT ![s].sock = NoConn, ![s].pc = "idle", ![s].method = NoMethod]
  /\ conn' = Settled(conn, client')

GameInit(s) ==
  /\ client[s].level = "none"
  /\ client' = [client EXCEPT ![s].level = "starting"]
  /\ UNCHANGED <<up, conn, clList>>

\* Console lines of the vm's start may be forwarded before the level registers.
Call(s, m) ==
  /\ client[s].pc = "idle" /\ client[s].seq < MaxCalls
  /\ \/ client[s].level = "starting" /\ m \in {"Printf", "Register"}
     \/ client[s].level = "running" /\ m # "Register"
  /\ client' = [client EXCEPT ![s].method = m, ![s].result = {},
                              ![s].level = IF m = "Register" THEN "running" ELSE @,
                              ![s].pc = IF client[s].sock = NoConn THEN "dial" ELSE "send"]
  /\ UNCHANGED <<up, conn, clList>>

\* The kernel completes the connect: the daemon need not have accepted yet.
Dial(s, k) ==
  /\ up /\ conn[k] = Unused
  /\ client[s].pc = "dial"
  /\ client' = [client EXCEPT ![s].pc = "hello", ![s].sock = k]
  /\ conn' = [conn EXCEPT ![k].thread = "backlog", ![k].toServer = <<Key>>,
                          ![k].orphan = client[s].level = "running" /\ client[s].method # "Register"]
  /\ UNCHANGED <<up, clList>>

DialFails(s) ==
  /\ client[s].pc = "dial"
  /\ client' = [client EXCEPT ![s].pc = "idle", ![s].method = NoMethod]
  /\ UNCHANGED <<up, conn, clList>>

Hello(s) == LET k == client[s].sock IN
  /\ client[s].pc = "hello" /\ conn[k].toClient # <<>>
  /\ \/ /\ Head(conn[k].toClient) = Ok
        /\ ClientGoes(s, "hello", "send")
        /\ conn' = [conn EXCEPT ![k].toClient = Tail(@)]
     \/ /\ Head(conn[k].toClient) # Ok
        /\ Close(s)
  /\ UNCHANGED <<up, clList>>

Send_SameId(s) == LET k == client[s].sock IN
  /\ client[s].pc = "send"
  /\ client' = [client EXCEPT ![s].pc = "header", ![s].seq = IF @ = 0 THEN 1 ELSE @]
  /\ conn' = [conn EXCEPT ![k].toServer =
                 @ \o IF ServerLost(k) THEN <<>> ELSE Request(client[s].seq, client[s].method)]
  /\ UNCHANGED <<up, clList>>
Send(s) == LET k == client[s].sock IN
  /\ client[s].pc = "send"
  /\ client' = [client EXCEPT ![s].pc = "header", ![s].seq = @ + 1]
  /\ conn' = [conn EXCEPT ![k].toServer =
                 @ \o IF ServerLost(k) THEN <<>> ELSE Request(client[s].seq, client[s].method)]
  /\ UNCHANGED <<up, clList>>

\* An error of the transport leaves the connection as it is: the next call
\* uses it again.
SendFails(s) ==
  /\ client[s].pc = "send" /\ ServerLost(client[s].sock)
  /\ client' = [client EXCEPT ![s].pc = "idle", ![s].seq = @ + 1, ![s].method = NoMethod]
  /\ UNCHANGED <<up, conn, clList>>

RecvHeader_ErrorFirst(s) == LET k == client[s].sock IN
  /\ client[s].pc = "header" /\ conn[k].toClient # <<>>
  /\ client' = [client EXCEPT ![s].pc = IF Head(conn[k].toClient).error THEN "idle" ELSE "body",
                              ![s].reply = Head(conn[k].toClient)]
  /\ conn' = [conn EXCEPT ![k].toClient = Tail(@)]
  /\ UNCHANGED <<up, clList>>
RecvHeader(s) == LET k == client[s].sock IN
  /\ client[s].pc = "header" /\ conn[k].toClient # <<>>
  /\ client' = [client EXCEPT ![s].pc = "body", ![s].reply = Head(conn[k].toClient)]
  /\ conn' = [conn EXCEPT ![k].toClient = Tail(@)]
  /\ UNCHANGED <<up, clList>>

RecvBody_NoIdCheck(s) == LET k == client[s].sock  id == client[s].seq - 1 IN
  /\ client[s].pc = "body" /\ conn[k].toClient # <<>>
  /\ client' = [client EXCEPT ![s].pc = "idle", ![s].reply = NoReply, ![s].method = NoMethod,
       ![s].result = {r \in {[call |-> id, answer |-> Head(conn[k].toClient).id]} :
                        ~client[s].reply.error}]
  /\ conn' = [conn EXCEPT ![k].toClient = Tail(@)]
  /\ UNCHANGED <<up, clList>>
\* Nil is returned only after both checks; a reply to another call is an error.
RecvBody(s) == LET k == client[s].sock  id == client[s].seq - 1 IN
  /\ client[s].pc = "body" /\ conn[k].toClient # <<>>
  /\ client' = [client EXCEPT ![s].pc = "idle", ![s].reply = NoReply, ![s].method = NoMethod,
       ![s].result = {r \in {[call |-> id, answer |-> Head(conn[k].toClient).id]} :
                        client[s].reply.id = id /\ ~client[s].reply.error}]
  /\ conn' = [conn EXCEPT ![k].toClient = Tail(@)]
  /\ UNCHANGED <<up, clList>>

RecvFails(s) ==
  /\ client[s].sock # NoConn
  /\ ServerLost(client[s].sock) /\ conn[client[s].sock].toClient = <<>>
  /\ \/ client[s].pc = "hello" /\ Close(s)
     \/ /\ client[s].pc \in {"header", "body"}
        /\ client' = [client EXCEPT ![s].pc = "idle", ![s].reply = NoReply, ![s].method = NoMethod]
        /\ UNCHANGED conn
  /\ UNCHANGED <<up, clList>>

\* ~ApiAsyncExecuter has joined the worker: no call is under way.
Shutdown(s) ==
  /\ client[s].level # "none" /\ client[s].pc = "idle"
  /\ client' = [client EXCEPT ![s] = NewClient]
  /\ conn' = Settled(conn, client')
  /\ UNCHANGED <<up, clList>>

CallStep(s) ==
  \/ \E k \in Conns : Dial(s, k)
  \/ DialFails(s) \/ Hello(s) \/ Send(s) \/ SendFails(s)
  \/ RecvHeader(s) \/ RecvBody(s) \/ RecvFails(s)

-------------------------------------------------------------------------------
(* The daemon: ServerConn::ServeProc, one thread per connection.           *)

ThreadGoes(k, from, to) ==
  conn[k].thread = from /\ conn' = [conn EXCEPT ![k].thread = to]

Sent(k, out) == conn[k].toClient \o IF ClientLost(k) THEN <<>> ELSE out

\* The thread of k reads a frame, goes on at to, and sends the frames out.
Reads(k, from, to, out) ==
  /\ conn[k].thread = from /\ conn[k].toServer # <<>>
  /\ conn' = [conn EXCEPT ![k].thread = to, ![k].toServer = Tail(@), ![k].toClient = Sent(k, out)]

Accept(k) ==
  /\ up /\ conn[k].thread = "backlog"
  /\ \E a \in Addresses :
       /\ \A j \in Conns : conn[j].addr # a
       /\ conn' = [conn EXCEPT ![k].thread = "handshake", ![k].addr = a]
  /\ UNCHANGED <<up, client, clList>>

\* The key must be the one the settings hold, which the console can change.
Handshake(k) ==
  /\ \/ Reads(k, "handshake", "header", <<Ok>>)
     \/ Reads(k, "handshake", "disconnect", <<Denied>>)
  /\ UNCHANGED <<up, client, clList>>

ReadHeader(k) == LET f == Head(conn[k].toServer) IN
  /\ conn[k].thread = "header" /\ conn[k].toServer # <<>>
  /\ f.kind = "request" /\ f.method # "Unknown"
  /\ conn' = [conn EXCEPT ![k].thread = "body", ![k].toServer = Tail(@),
                          ![k].id = f.id, ![k].method = f.method]
  /\ UNCHANGED <<up, client, clList>>

\* A method the daemon does not have is answered before its body is read.
UnknownMethod(k) == LET f == Head(conn[k].toServer) IN
  /\ conn[k].thread = "header" /\ conn[k].toServer # <<>>
  /\ f.kind = "request" /\ f.method = "Unknown"
  /\ Reads(k, "header", "header", Response(f.id, TRUE))
  /\ UNCHANGED <<up, client, clList>>

\* The next frame is then that body.  It does not parse as a RequestHeader, or
\* it does, all of whose fields are optional, and names no method of the daemon.
BodyAsHeader(k) ==
  /\ conn[k].thread = "header" /\ conn[k].toServer # <<>>
  /\ Head(conn[k].toServer).kind = "body"
  /\ \/ Reads(k, "header", "disconnect", <<>>)
     \/ \E id \in Ids : Reads(k, "header", "header", Response(id, TRUE))
  /\ UNCHANGED <<up, client, clList>>

ReadBody(k) ==
  /\ Reads(k, "body", "call", <<>>)
  /\ UNCHANGED <<up, client, clList>>

\* CallMethod: Register inserts the client, unless the address has an entry.
CallMethod_InsertInverted(k) ==
  /\ conn[k].thread = "call"
  /\ conn[k].method = "Command" => clList[conn[k].addr] # NoConn
  /\ clList' = IF conn[k].method = "Register" /\ clList[conn[k].addr] # NoConn
                 THEN [clList EXCEPT ![conn[k].addr] = k] ELSE clList
  /\ conn' = [conn EXCEPT ![k].thread = "reply", ![k].served = Append(@, conn[k].id)]
  /\ UNCHANGED <<up, client>>
CallMethod(k) ==
  /\ conn[k].thread = "call"
  /\ conn[k].method = "Command" => clList[conn[k].addr] # NoConn
  /\ clList' = IF conn[k].method = "Register" /\ clList[conn[k].addr] = NoConn
                 THEN [clList EXCEPT ![conn[k].addr] = k] ELSE clList
  /\ conn' = [conn EXCEPT ![k].thread = "reply", ![k].served = Append(@, conn[k].id)]
  /\ UNCHANGED <<up, client>>

SendResponse(k) ==
  /\ conn[k].thread = "reply"
  /\ conn' = [conn EXCEPT ![k].thread = "header", ![k].id = 0, ![k].method = NoMethod,
                          ![k].toClient = Sent(k, Response(conn[k].id, FALSE))]
  /\ UNCHANGED <<up, client, clList>>

ConnFails_EofIgnored(k) ==
  /\ conn[k].reset
  /\ \/ conn[k].thread \in {"handshake", "header", "body"} /\ conn[k].toServer = <<>>
     \/ conn[k].thread = "reply"
  /\ conn' = [conn EXCEPT ![k].thread = "disconnect", ![k].id = 0, ![k].method = NoMethod]
  /\ UNCHANGED <<up, client, clList>>
\* A recv or a send of the thread fails, in Handshake or in ProcessOneCall.
ConnFails(k) ==
  /\ ClientLost(k)
  /\ \/ conn[k].thread \in {"handshake", "header", "body"} /\ conn[k].toServer = <<>>
     \/ conn[k].thread = "reply"
  /\ conn' = [conn EXCEPT ![k].thread = "disconnect", ![k].id = 0, ![k].method = NoMethod]
  /\ UNCHANGED <<up, client, clList>>

\* Q3dfEnv::ClientDisconnect, then ~ServerConn.
Disconnect_Forgotten(k) ==
  /\ ThreadGoes(k, "disconnect", "delete")
  /\ UNCHANGED <<up, client, clList>>
Disconnect(k) ==
  /\ ThreadGoes(k, "disconnect", "delete")
  /\ clList' = [clList EXCEPT ![conn[k].addr] = NoConn]
  /\ UNCHANGED <<up, client>>

DeleteConn_NotClosed(k) ==
  /\ conn[k].thread = "delete"
  /\ conn' = [conn EXCEPT ![k].thread = "open", ![k].addr = NoAddress]
  /\ UNCHANGED <<up, client, clList>>
DeleteConn(k) ==
  /\ conn[k].thread = "delete"
  /\ conn' = Settled([conn EXCEPT ![k].thread = "gone", ![k].addr = NoAddress], client)
  /\ UNCHANGED <<up, client, clList>>

ServeProc(k) ==
  \/ Handshake(k) \/ ReadHeader(k) \/ UnknownMethod(k) \/ BodyAsHeader(k) \/ ReadBody(k)
  \/ CallMethod(k) \/ SendResponse(k) \/ ConnFails(k) \/ Disconnect(k) \/ DeleteConn(k)

-------------------------------------------------------------------------------
(* The daemon's process.                                                   *)

Start ==
  /\ ~up /\ up' = TRUE
  /\ UNCHANGED <<client, conn, clList>>

Die ==
  /\ up /\ up' = FALSE
  /\ conn' = Settled([k \in Conns |-> IF conn[k] = Unused THEN Unused
                        ELSE [conn[k] EXCEPT !.thread = "gone", !.addr = NoAddress]], client)
  /\ clList' = [a \in Addresses |-> NoConn]
  /\ UNCHANGED client

\* TopCommand::Execute uses what GetClient returns without a test.
CommandCrashes(k) ==
  /\ conn[k].thread = "call" /\ conn[k].method = "Command"
  /\ clList[conn[k].addr] = NoConn
  /\ Die

-------------------------------------------------------------------------------
Next ==
  \/ \E s \in Servers : GameInit(s) \/ (\E m \in Methods : Call(s, m)) \/ CallStep(s) \/ Shutdown(s)
  \/ \E k \in Conns : NetworkBreaks(k) \/ FrameLost(k) \/ Accept(k) \/ ServeProc(k) \/ CommandCrashes(k)
  \/ Start \/ Die

Spec == Init /\ [][Next]_vars

(* A call goes on, a thread of the daemon runs, the main loop accepts what *)
(* waits.  Nobody has to call, to end a level, or to start the daemon.     *)
Fairness ==
  /\ \A s \in Servers : WF_vars(CallStep(s))
  /\ \A k \in Conns : WF_vars(ServeProc(k) \/ CommandCrashes(k)) /\ SF_vars(Accept(k))

FairSpec == Spec /\ Fairness

-------------------------------------------------------------------------------
(* Properties.                                                             *)

\* A call that returns Nil has been executed by the daemon, once, and the reply
\* it hands to its callback was made for it, whatever earlier calls that failed
\* have left on the connection.
NilIsOwnAnswer ==
  \A s \in Servers : \A r \in client[s].result : LET served == conn[client[s].sock].served IN
    /\ r.answer = r.call
    /\ Cardinality({i \in DOMAIN served : served[i] = r.call}) = 1

\* The calls of a connection are executed in the order of their ids, none twice.
ServedInOrder ==
  \A k \in Conns : \A i, j \in DOMAIN conn[k].served :
    i < j => conn[k].served[i] < conn[k].served[j]

\* An entry of the client list belongs to the connection whose Conn is at that
\* address now: ServeProc deletes the entry before it frees the address.
SessionIsOwn ==
  \A a \in Addresses : clList[a] # NoConn =>
    /\ conn[clList[a]].addr = a
    /\ conn[clList[a]].thread \in Serving \cup {"disconnect"}

\* A command finds its client registered, unless the connection was dialled
\* after the level's Register had failed.
CommandIsRegistered ==
  \A k \in Conns : conn[k].thread = "call" /\ conn[k].method = "Command" =>
    clList[conn[k].addr] = k \/ conn[k].orphan

\* The client never takes a body for a header or a header for a body: every
\* path of callMethod reads as many frames as every path of the daemon sends.
ClientFraming ==
  \A s \in Servers :
    client[s].sock # NoConn /\ conn[client[s].sock].toClient # <<>> =>
      LET kind == Head(conn[client[s].sock].toClient).kind IN
        /\ client[s].pc = "hello" => kind \in {"ok", "denied"}
        /\ client[s].pc \in {"send", "header"} => kind = "response"
        /\ client[s].pc = "body" => kind = "body"

\* A call never blocks the worker for ever, provided that a connection that is
\* lost is seen to be lost: there is no time limit on a recv.
CallReturns == \A s \in Servers : (client[s].pc # "idle") ~> (client[s].pc = "idle")

\* The daemon ends the session of a client that has left, and frees its Conn.
SessionsEnd ==
  \A k \in Conns :
    (conn[k].addr # NoAddress /\ ~Held(k, client)) ~> (conn[k].addr = NoAddress)
===============================================================================
