--------------------------- MODULE RpcSessionProofs ---------------------------
(***************************************************************************)
(* The connections of clients and daemon, for any number of servers,       *)
(* connections, addresses and calls: whose entry a connection finds in the *)
(* daemon's client list, and in which order its calls are executed; what a *)
(* client reads off its connection, and whose answer it is; that a         *)
(* Register is ahead of every Command; and the types of everything that is *)
(* stored and sent.                                                        *)
(***************************************************************************)
EXTENDS RpcSession, SequenceTheorems, FiniteSetTheorems, TLAPS

-------------------------------------------------------------------------------
(* The inductive invariant.                                                *)

\* As much of the types as the addresses need.
Shape ==
  /\ DOMAIN conn = Conns
  /\ \A k \in Conns : {"thread", "addr"} \subseteq DOMAIN conn[k]
  /\ clList \in [Addresses -> Conns \cup {NoConn}]

\* A connection has an address just while its Conn exists.
Allocated ==
  \A k \in Conns :
    /\ conn[k].thread \in HasConn => conn[k].addr \in Addresses
    /\ conn[k].thread \notin HasConn => conn[k].addr = NoAddress

\* The allocator gives an address to one Conn at a time.
Distinct ==
  \A j, k \in Conns : conn[j].addr = conn[k].addr /\ conn[k].addr # NoAddress => j = k

IInv == Shape /\ Allocated /\ Distinct /\ SessionIsOwn

-------------------------------------------------------------------------------
(* Steps that move no Conn.                                                *)

\* What a step may do to a thread without regard to the client list.
Moves(from, to) ==
  \/ to = from
  \/ from \notin HasConn /\ to \notin HasConn
  \/ from # "delete" /\ from \in HasConn /\ to \in Serving \cup {"disconnect"}

Quiet ==
  /\ DOMAIN conn' = Conns
  /\ \A k \in Conns :
       /\ {"thread", "addr"} \subseteq DOMAIN conn'[k]
       /\ conn'[k].addr = conn[k].addr
       /\ Moves(conn[k].thread, conn'[k].thread)

LEMMA QuietInductive ==
  ASSUME IInv, Quiet, clList' = clList
  PROVE  IInv'
<1>1. Shape'
  BY DEF IInv, Shape, Quiet
<1>2. Allocated'
  BY DEF IInv, Allocated, Quiet, Moves, HasConn, Serving
<1>3. Distinct'
  BY DEF IInv, Distinct, Quiet
<1>4. SessionIsOwn'
  <2> SUFFICES ASSUME NEW a \in Addresses, clList[a] # NoConn
               PROVE  /\ conn'[clList[a]].addr = a
                      /\ conn'[clList[a]].thread \in Serving \cup {"disconnect"}
    BY DEF SessionIsOwn
  <2>1. clList[a] \in Conns
    BY DEF IInv, Shape
  <2>2. /\ conn[clList[a]].addr = a
        /\ conn[clList[a]].thread \in Serving \cup {"disconnect"}
    BY DEF IInv, SessionIsOwn
  <2>3. QED
    BY <2>1, <2>2 DEF Quiet, Moves, HasConn, Serving
<1>5. QED
  BY <1>1, <1>2, <1>3, <1>4 DEF IInv

LEMMA SameConn ==
  ASSUME IInv, UNCHANGED <<conn, clList>>
  PROVE  IInv'
BY DEF IInv, Shape, Allocated, Distinct, SessionIsOwn

\* A step of the thread of one connection, and one that leaves the threads alone.
LEMMA OneQuiet ==
  ASSUME Shape, NEW k \in Conns, NEW c, conn' = [conn EXCEPT ![k] = c],
         {"thread", "addr"} \subseteq DOMAIN c, c.addr = conn[k].addr,
         Moves(conn[k].thread, c.thread)
  PROVE  Quiet
BY DEF Shape, Quiet, Moves

LEMMA RefineQuiet ==
  ASSUME Shape, NEW k \in Conns, NEW c, conn' = [conn EXCEPT ![k] = c],
         {"thread", "addr"} \subseteq DOMAIN c,
         c.addr = conn[k].addr, c.thread = conn[k].thread
  PROVE  Quiet
BY OneQuiet DEF Moves

\* What Settled forgets has no address.
LEMMA SettledKeeps ==
  ASSUME NEW cn, NEW cl, DOMAIN cn = Conns,
         \A k \in Conns : {"thread", "addr"} \subseteq DOMAIN cn[k]
  PROVE  /\ DOMAIN Settled(cn, cl) = Conns
         /\ \A k \in Conns :
              /\ {"thread", "addr"} \subseteq DOMAIN Settled(cn, cl)[k]
              /\ \/ /\ Settled(cn, cl)[k].thread = cn[k].thread
                    /\ Settled(cn, cl)[k].addr = cn[k].addr
                 \/ cn[k].thread = "gone" /\ Settled(cn, cl)[k] = Unused
<1>1. DOMAIN Settled(cn, cl) = Conns
  BY DEF Settled
<1>2. ASSUME NEW k \in Conns
      PROVE  /\ {"thread", "addr"} \subseteq DOMAIN Settled(cn, cl)[k]
             /\ \/ /\ Settled(cn, cl)[k].thread = cn[k].thread
                   /\ Settled(cn, cl)[k].addr = cn[k].addr
                \/ cn[k].thread = "gone" /\ Settled(cn, cl)[k] = Unused
  <2>1. \/ Settled(cn, cl)[k] = [cn[k] EXCEPT !.toServer = <<>>, !.reset = FALSE]
        \/ Settled(cn, cl)[k] = cn[k]
        \/ cn[k].thread = "gone" /\ Settled(cn, cl)[k] = Unused
        \/ Settled(cn, cl)[k] = [cn[k] EXCEPT !.toClient = <<>>]
    BY DEF Settled
  <2>2. {"thread", "addr"} \subseteq DOMAIN Unused
    BY DEF Unused
  <2>3. QED
    BY <2>1, <2>2
<1>3. QED
  BY <1>1, <1>2

LEMMA SettleQuiet ==
  ASSUME IInv, conn' = Settled(conn, client')
  PROVE  Quiet
<1>1. \A k \in Conns :
        /\ {"thread", "addr"} \subseteq DOMAIN conn'[k]
        /\ \/ conn'[k].thread = conn[k].thread /\ conn'[k].addr = conn[k].addr
           \/ conn[k].thread = "gone" /\ conn'[k] = Unused
  BY SettledKeeps DEF IInv, Shape
<1>2. DOMAIN conn' = Conns
  BY DEF Settled
<1>3. ASSUME NEW k \in Conns, conn[k].thread = "gone", conn'[k] = Unused
      PROVE  conn'[k].addr = conn[k].addr /\ Moves(conn[k].thread, conn'[k].thread)
  BY <1>3 DEF IInv, Allocated, Moves, HasConn, Serving, Unused
<1>4. QED
  BY <1>1, <1>2, <1>3 DEF Quiet, Moves

-------------------------------------------------------------------------------
(* The servers.                                                            *)

LEMMA ClientInductive ==
  ASSUME IInv, NEW s \in Servers,
         GameInit(s) \/ (\E m \in Methods : Call(s, m)) \/ CallStep(s) \/ Shutdown(s)
  PROVE  IInv'
<1>1. clList' = clList
  BY DEF GameInit, Call, CallStep, Dial, DialFails, Hello, Send, SendFails, RecvHeader,
         RecvBody, RecvFails, Shutdown
<1> DEFINE k == client[s].sock
<1>2. CASE conn' = conn
  BY <1>1, <1>2, SameConn
<1>3. CASE conn' = Settled(conn, client')
  BY <1>1, <1>3, SettleQuiet, QuietInductive
<1>4. ASSUME NEW n \in Conns, Dial(s, n) PROVE IInv'
  <2>1. PICK c : c = [conn[n] EXCEPT !.thread = "backlog", !.toServer = <<Key>>,
                        !.orphan = client[s].level = "running" /\ client[s].method # "Register"]
    OBVIOUS
  <2>2. conn' = [conn EXCEPT ![n] = c] /\ conn[n] = Unused
    BY <1>4, <2>1 DEF Dial
  <2>3. /\ {"thread", "addr"} \subseteq DOMAIN c
        /\ c.addr = conn[n].addr /\ Moves(conn[n].thread, c.thread)
    BY <2>1, <2>2 DEF Unused, Moves, HasConn, Serving
  <2>4. QED
    BY <1>1, <2>2, <2>3, OneQuiet, QuietInductive DEF IInv
<1>5. ASSUME NEW x, conn' = [conn EXCEPT ![k].toClient = x] PROVE IInv'
  <2>1. PICK c : c = [conn[k] EXCEPT !.toClient = x]
    OBVIOUS
  <2>2. conn' = [conn EXCEPT ![k] = c]
    BY <1>5, <2>1
  <2>3. CASE k \in Conns
    <3>1. /\ {"thread", "addr"} \subseteq DOMAIN c
          /\ c.addr = conn[k].addr /\ c.thread = conn[k].thread
      BY <2>1, <2>3 DEF IInv, Shape
    <3>2. QED
      BY <1>1, <2>2, <2>3, <3>1, RefineQuiet, QuietInductive DEF IInv
  <2>4. CASE k \notin Conns
    <3>1. DOMAIN conn' = Conns /\ \A j \in Conns : conn'[j] = conn[j]
      BY <2>2, <2>4 DEF IInv, Shape
    <3>2. Quiet
      BY <3>1 DEF IInv, Shape, Quiet, Moves
    <3>3. QED
      BY <1>1, <3>2, QuietInductive
  <2>5. QED
    BY <2>3, <2>4
<1>6. ASSUME NEW x, conn' = [conn EXCEPT ![k].toServer = x] PROVE IInv'
  <2>1. PICK c : c = [conn[k] EXCEPT !.toServer = x]
    OBVIOUS
  <2>2. conn' = [conn EXCEPT ![k] = c]
    BY <1>6, <2>1
  <2>3. CASE k \in Conns
    <3>1. /\ {"thread", "addr"} \subseteq DOMAIN c
          /\ c.addr = conn[k].addr /\ c.thread = conn[k].thread
      BY <2>1, <2>3 DEF IInv, Shape
    <3>2. QED
      BY <1>1, <2>2, <2>3, <3>1, RefineQuiet, QuietInductive DEF IInv
  <2>4. CASE k \notin Conns
    <3>1. DOMAIN conn' = Conns /\ \A j \in Conns : conn'[j] = conn[j]
      BY <2>2, <2>4 DEF IInv, Shape
    <3>2. Quiet
      BY <3>1 DEF IInv, Shape, Quiet, Moves
    <3>3. QED
      BY <1>1, <3>2, QuietInductive
  <2>5. QED
    BY <2>3, <2>4
<1>7. CASE Hello(s)
  <2>1. \/ conn' = [conn EXCEPT ![k].toClient = Tail(@)]
        \/ conn' = Settled(conn, client')
    BY <1>7 DEF Hello, Close
  <2>2. QED
    BY <1>3, <1>5, <2>1
<1>8. CASE Send(s)
  <2>1. \E x : conn' = [conn EXCEPT ![k].toServer = x]
    BY <1>8 DEF Send
  <2>2. QED
    BY <1>6, <2>1
<1>9. CASE RecvHeader(s) \/ RecvBody(s)
  <2>1. conn' = [conn EXCEPT ![k].toClient = Tail(@)]
    BY <1>9 DEF RecvHeader, RecvBody
  <2>2. QED
    BY <1>5, <2>1
<1>10. CASE RecvFails(s)
  BY <1>2, <1>3, <1>10 DEF RecvFails, Close
<1>11. CASE GameInit(s) \/ (\E m \in Methods : Call(s, m)) \/ DialFails(s) \/ SendFails(s)
  BY <1>2, <1>11 DEF GameInit, Call, DialFails, SendFails
<1>12. CASE Shutdown(s)
  BY <1>3, <1>12 DEF Shutdown
<1>13. QED
  BY <1>4, <1>7, <1>8, <1>9, <1>10, <1>11, <1>12 DEF CallStep

-------------------------------------------------------------------------------
(* The network and the daemon.                                             *)

\* A thread that goes on.
LEMMA ThreadInductive ==
  ASSUME IInv, NEW k \in Conns, NEW c, conn' = [conn EXCEPT ![k] = c], clList' = clList,
         {"thread", "addr"} \subseteq DOMAIN c, c.addr = conn[k].addr,
         Moves(conn[k].thread, c.thread)
  PROVE  IInv'
BY OneQuiet, QuietInductive DEF IInv

LEMMA NetworkInductive ==
  ASSUME IInv, NEW k \in Conns, NetworkBreaks(k) \/ FrameLost(k)
  PROVE  IInv'
<1>1. PICK c : /\ conn' = [conn EXCEPT ![k] = c] /\ clList' = clList
               /\ \/ c = [conn[k] EXCEPT !.reset = TRUE]
                  \/ c = [conn[k] EXCEPT !.toServer = Front(@)]
                  \/ c = [conn[k] EXCEPT !.toClient = Front(@)]
  BY DEF NetworkBreaks, FrameLost
<1>2. /\ {"thread", "addr"} \subseteq DOMAIN c
      /\ c.addr = conn[k].addr /\ c.thread = conn[k].thread
  BY <1>1 DEF IInv, Shape
<1>3. QED
  BY <1>1, <1>2, ThreadInductive DEF Moves

\* The address a Conn is allocated at is no other's, and has no entry.
LEMMA AcceptInductive ==
  ASSUME IInv, NEW k \in Conns, Accept(k)
  PROVE  IInv'
<1>1. PICK a \in Addresses :
        /\ \A j \in Conns : conn[j].addr # a
        /\ conn' = [conn EXCEPT ![k].thread = "handshake", ![k].addr = a]
  BY DEF Accept
<1>2. PICK c : c = [conn[k] EXCEPT !.thread = "handshake", !.addr = a]
  OBVIOUS
<1>3. conn' = [conn EXCEPT ![k] = c] /\ clList' = clList /\ conn[k].thread = "backlog"
  BY <1>1, <1>2 DEF Accept
<1>4. {"thread", "addr"} \subseteq DOMAIN c /\ c.thread = "handshake" /\ c.addr = a
  BY <1>2 DEF IInv, Shape
<1>5. conn'[k] = c /\ \A j \in Conns \ {k} : conn'[j] = conn[j]
  BY <1>3 DEF IInv, Shape
<1>6. Shape'
  BY <1>3, <1>4, <1>5 DEF IInv, Shape
<1>7. Allocated'
  BY <1>4, <1>5 DEF IInv, Allocated, HasConn
<1>8. Distinct'
  <2>1. \A j \in Conns \ {k} : conn'[j].addr # a /\ conn'[j].addr = conn[j].addr
    BY <1>1, <1>5
  <2>2. conn'[k].addr = a
    BY <1>4, <1>5
  <2>3. QED
    BY <2>1, <2>2 DEF IInv, Distinct
<1>9. SessionIsOwn'
  <2> SUFFICES ASSUME NEW b \in Addresses, clList[b] # NoConn
               PROVE  /\ conn'[clList[b]].addr = b
                      /\ conn'[clList[b]].thread \in Serving \cup {"disconnect"}
    BY <1>3 DEF SessionIsOwn
  <2>1. clList[b] \in Conns \ {k}
    BY <1>3 DEF IInv, Shape, SessionIsOwn, Serving
  <2>2. QED
    BY <1>5, <2>1 DEF IInv, SessionIsOwn
<1>10. QED
  BY <1>6, <1>7, <1>8, <1>9 DEF IInv

\* Reading, answering, and the end of the connection.
LEMMA ReadsInductive ==
  ASSUME IInv, NEW k \in Conns, NEW from, NEW to, NEW out, Reads(k, from, to, out),
         clList' = clList, Moves(from, to)
  PROVE  IInv'
<1>1. PICK c : c = [conn[k] EXCEPT !.thread = to, !.toServer = Tail(@), !.toClient = Sent(k, out)]
  OBVIOUS
<1>2. conn' = [conn EXCEPT ![k] = c] /\ conn[k].thread = from
  BY <1>1 DEF Reads
<1>3. {"thread", "addr"} \subseteq DOMAIN c /\ c.addr = conn[k].addr /\ c.thread = to
  BY <1>1 DEF IInv, Shape
<1>4. QED
  BY <1>2, <1>3, ThreadInductive

LEMMA ReadInductive ==
  ASSUME IInv, NEW k \in Conns,
         Handshake(k) \/ ReadHeader(k) \/ UnknownMethod(k) \/ BodyAsHeader(k) \/ ReadBody(k)
  PROVE  IInv'
<1>1. clList' = clList
  BY DEF Handshake, ReadHeader, UnknownMethod, BodyAsHeader, ReadBody
<1>2. /\ Moves("handshake", "header") /\ Moves("handshake", "disconnect")
      /\ Moves("header", "header") /\ Moves("header", "disconnect") /\ Moves("body", "call")
  BY DEF Moves, HasConn, Serving
<1>3. CASE Handshake(k)
  BY <1>1, <1>2, <1>3, ReadsInductive DEF Handshake
<1>4. CASE UnknownMethod(k)
  BY <1>1, <1>2, <1>4, ReadsInductive DEF UnknownMethod
<1>5. CASE BodyAsHeader(k)
  BY <1>1, <1>2, <1>5, ReadsInductive DEF BodyAsHeader
<1>6. CASE ReadBody(k)
  BY <1>1, <1>2, <1>6, ReadsInductive DEF ReadBody
<1>7. CASE ReadHeader(k)
  <2>1. PICK f : f = Head(conn[k].toServer)
    OBVIOUS
  <2>2. PICK c : c = [conn[k] EXCEPT !.thread = "body", !.toServer = Tail(@),
                                     !.id = f.id, !.method = f.method]
    OBVIOUS
  <2>3. conn' = [conn EXCEPT ![k] = c] /\ conn[k].thread = "header"
    BY <1>7, <2>1, <2>2 DEF ReadHeader
  <2>4. /\ {"thread", "addr"} \subseteq DOMAIN c /\ c.addr = conn[k].addr
        /\ Moves(conn[k].thread, c.thread)
    BY <2>2, <2>3 DEF IInv, Shape, Moves, HasConn, Serving
  <2>5. QED
    BY <1>1, <2>3, <2>4, ThreadInductive
<1>8. QED
  BY <1>3, <1>4, <1>5, <1>6, <1>7

LEMMA AnswerInductive ==
  ASSUME IInv, NEW k \in Conns, SendResponse(k) \/ ConnFails(k)
  PROVE  IInv'
<1>1. {"thread", "addr"} \subseteq DOMAIN conn[k]
  BY DEF IInv, Shape
<1>2. CASE SendResponse(k)
  <2>1. PICK x : x = Sent(k, Response(conn[k].id, FALSE))
    OBVIOUS
  <2>2. PICK c : c = [conn[k] EXCEPT !.thread = "header", !.id = 0, !.method = NoMethod,
                                     !.toClient = x]
    OBVIOUS
  <2>3. conn' = [conn EXCEPT ![k] = c] /\ clList' = clList /\ conn[k].thread = "reply"
    BY <1>2, <2>1, <2>2 DEF SendResponse
  <2>4. {"thread", "addr"} \subseteq DOMAIN c /\ c.addr = conn[k].addr /\ c.thread = "header"
    BY ONLY <1>1, <2>2
  <2>5. Moves(conn[k].thread, c.thread)
    BY ONLY <2>3, <2>4 DEF Moves, HasConn, Serving
  <2>6. QED
    BY <2>3, <2>4, <2>5, ThreadInductive
<1>3. CASE ConnFails(k)
  <2>1. PICK c : c = [conn[k] EXCEPT !.thread = "disconnect", !.id = 0, !.method = NoMethod]
    OBVIOUS
  <2>2. /\ conn' = [conn EXCEPT ![k] = c] /\ clList' = clList
        /\ conn[k].thread \in {"handshake", "header", "body", "reply"}
    BY <1>3, <2>1 DEF ConnFails
  <2>3. {"thread", "addr"} \subseteq DOMAIN c /\ c.addr = conn[k].addr /\ c.thread = "disconnect"
    BY ONLY <1>1, <2>1
  <2>4. Moves(conn[k].thread, c.thread)
    BY ONLY <2>2, <2>3 DEF Moves, HasConn, Serving
  <2>5. QED
    BY <2>2, <2>3, <2>4, ThreadInductive
<1>4. QED
  BY <1>2, <1>3

\* Register makes an entry for the Conn of its own thread.
LEMMA CallInductive ==
  ASSUME IInv, NEW k \in Conns, CallMethod(k)
  PROVE  IInv'
<1>1. PICK c : c = [conn[k] EXCEPT !.thread = "reply", !.served = Append(@, conn[k].id)]
  OBVIOUS
<1>2. /\ conn' = [conn EXCEPT ![k] = c] /\ conn[k].thread = "call"
      /\ clList' \in {clList, [clList EXCEPT ![conn[k].addr] = k]}
  BY <1>1 DEF CallMethod
<1>3. /\ {"thread", "addr"} \subseteq DOMAIN c /\ c.addr = conn[k].addr /\ c.thread = "reply"
  BY <1>1 DEF IInv, Shape
<1>4. Moves(conn[k].thread, c.thread)
  BY <1>2, <1>3 DEF Moves, HasConn, Serving
<1>5. Quiet
  BY <1>2, <1>3, <1>4, OneQuiet DEF IInv
<1>6. conn[k].addr \in Addresses /\ conn'[k] = c
  BY <1>2 DEF IInv, Shape, Allocated, HasConn, Serving
<1>7. Shape' /\ Allocated' /\ Distinct'
  <2>1. DOMAIN conn' = Conns /\ \A j \in Conns : {"thread", "addr"} \subseteq DOMAIN conn'[j]
    BY <1>5 DEF Quiet
  <2>2. clList' \in [Addresses -> Conns \cup {NoConn}]
    BY <1>2 DEF IInv, Shape
  <2>3. Allocated'
    BY <1>5 DEF IInv, Allocated, Quiet, Moves, HasConn, Serving
  <2>4. Distinct'
    BY <1>5 DEF IInv, Distinct, Quiet
  <2>5. QED
    BY <2>1, <2>2, <2>3, <2>4 DEF Shape
<1>8. SessionIsOwn'
  <2> SUFFICES ASSUME NEW a \in Addresses, clList'[a] # NoConn
               PROVE  /\ conn'[clList'[a]].addr = a
                      /\ conn'[clList'[a]].thread \in Serving \cup {"disconnect"}
    BY DEF SessionIsOwn
  <2>1. CASE clList'[a] = clList[a]
    <3>1. /\ clList[a] \in Conns /\ conn[clList[a]].addr = a
          /\ conn[clList[a]].thread \in Serving \cup {"disconnect"}
      BY <2>1 DEF IInv, Shape, SessionIsOwn
    <3>2. QED
      BY <1>5, <2>1, <3>1 DEF Quiet, Moves, HasConn, Serving
  <2>2. CASE a = conn[k].addr /\ clList'[a] = k
    BY <1>3, <1>6, <2>2 DEF Serving
  <2>3. QED
    BY <1>2, <2>1, <2>2 DEF IInv, Shape
<1>9. QED
  BY <1>7, <1>8 DEF IInv

\* The entry goes before the address does.
LEMMA DisconnectInductive ==
  ASSUME IInv, NEW k \in Conns, Disconnect(k)
  PROVE  IInv'
<1>1. PICK c : c = [conn[k] EXCEPT !.thread = "delete"]
  OBVIOUS
<1>2. /\ conn' = [conn EXCEPT ![k] = c] /\ conn[k].thread = "disconnect"
      /\ clList' = [clList EXCEPT ![conn[k].addr] = NoConn]
  BY <1>1 DEF Disconnect, ThreadGoes
<1>3. {"thread", "addr"} \subseteq DOMAIN c /\ c.addr = conn[k].addr /\ c.thread = "delete"
  BY <1>1 DEF IInv, Shape
<1>4. conn'[k] = c /\ \A j \in Conns \ {k} : conn'[j] = conn[j]
  BY <1>2 DEF IInv, Shape
<1>5. Shape'
  BY <1>2, <1>3, <1>4 DEF IInv, Shape
<1>6. Allocated' /\ Distinct'
  BY <1>2, <1>3, <1>4 DEF IInv, Allocated, Distinct, HasConn
<1>7. SessionIsOwn'
  <2> SUFFICES ASSUME NEW a \in Addresses, clList'[a] # NoConn
               PROVE  /\ conn'[clList'[a]].addr = a
                      /\ conn'[clList'[a]].thread \in Serving \cup {"disconnect"}
    BY DEF SessionIsOwn
  <2>1. a # conn[k].addr /\ clList'[a] = clList[a]
    BY <1>2 DEF IInv, Shape
  <2>2. clList[a] \in Conns /\ conn[clList[a]].addr = a
    BY <2>1 DEF IInv, Shape, SessionIsOwn
  <2>3. clList[a] # k
    BY <2>1, <2>2
  <2>4. QED
    BY <1>4, <2>1, <2>2, <2>3 DEF IInv, SessionIsOwn
<1>8. QED
  BY <1>5, <1>6, <1>7 DEF IInv

LEMMA DeleteInductive ==
  ASSUME IInv, NEW k \in Conns, DeleteConn(k)
  PROVE  IInv'
<1>1. PICK c : c = [conn[k] EXCEPT !.thread = "gone", !.addr = NoAddress]
  OBVIOUS
<1>2. PICK cn : cn = [conn EXCEPT ![k] = c]
  OBVIOUS
<1>3. conn' = Settled(cn, client) /\ clList' = clList /\ conn[k].thread = "delete"
  BY <1>1, <1>2 DEF DeleteConn
<1>4. {"thread", "addr"} \subseteq DOMAIN c /\ c.thread = "gone" /\ c.addr = NoAddress
  BY <1>1 DEF IInv, Shape
<1>5. /\ DOMAIN cn = Conns /\ cn[k] = c
      /\ \A j \in Conns \ {k} : cn[j] = conn[j]
      /\ \A j \in Conns : {"thread", "addr"} \subseteq DOMAIN cn[j]
  BY <1>2, <1>4 DEF IInv, Shape
<1>6. /\ DOMAIN conn' = Conns
      /\ \A j \in Conns :
           /\ {"thread", "addr"} \subseteq DOMAIN conn'[j]
           /\ \/ conn'[j].thread = cn[j].thread /\ conn'[j].addr = cn[j].addr
              \/ cn[j].thread = "gone" /\ conn'[j] = Unused
  BY <1>3, <1>5, SettledKeeps
<1>7. /\ conn'[k].thread \notin HasConn /\ conn'[k].addr = NoAddress
      /\ \A j \in Conns \ {k} :
           /\ conn'[j].addr = conn[j].addr
           /\ \/ conn'[j].thread = conn[j].thread
              \/ conn[j].thread = "gone" /\ conn'[j].thread = "unused"
  BY <1>4, <1>5, <1>6 DEF IInv, Allocated, HasConn, Serving, Unused
<1>8. Shape' /\ Allocated' /\ Distinct'
  BY <1>3, <1>6, <1>7 DEF IInv, Shape, Allocated, Distinct, HasConn, Serving
<1>9. SessionIsOwn'
  <2> SUFFICES ASSUME NEW a \in Addresses, clList[a] # NoConn
               PROVE  /\ conn'[clList[a]].addr = a
                      /\ conn'[clList[a]].thread \in Serving \cup {"disconnect"}
    BY <1>3 DEF SessionIsOwn
  <2>1. /\ clList[a] \in Conns /\ conn[clList[a]].addr = a
        /\ conn[clList[a]].thread \in Serving \cup {"disconnect"}
    BY DEF IInv, Shape, SessionIsOwn
  <2>2. clList[a] # k /\ conn[clList[a]].thread # "gone"
    BY <1>3, <2>1 DEF Serving
  <2>3. QED
    BY <1>7, <2>1, <2>2
<1>10. QED
  BY <1>8, <1>9 DEF IInv

\* When the daemon ends, its list and its addresses go with it.
LEMMA DieInductive ==
  ASSUME IInv, Die
  PROVE  IInv'
<1>1. PICK cn : cn = [k \in Conns |-> IF conn[k] = Unused THEN Unused
                        ELSE [conn[k] EXCEPT !.thread = "gone", !.addr = NoAddress]]
  OBVIOUS
<1>2. conn' = Settled(cn, client) /\ clList' = [a \in Addresses |-> NoConn]
  BY <1>1 DEF Die
<1>3. /\ DOMAIN cn = Conns
      /\ \A k \in Conns : /\ {"thread", "addr"} \subseteq DOMAIN cn[k]
                          /\ cn[k].thread \in {"gone", "unused"} /\ cn[k].addr = NoAddress
  BY <1>1 DEF IInv, Shape, Unused
<1>4. /\ DOMAIN conn' = Conns
      /\ \A k \in Conns :
           /\ {"thread", "addr"} \subseteq DOMAIN conn'[k]
           /\ \/ conn'[k].thread = cn[k].thread /\ conn'[k].addr = cn[k].addr
              \/ cn[k].thread = "gone" /\ conn'[k] = Unused
  BY <1>2, <1>3, SettledKeeps
<1>5. \A k \in Conns : conn'[k].thread \in {"gone", "unused"} /\ conn'[k].addr = NoAddress
  BY <1>3, <1>4 DEF Unused
<1>6. Shape'
  BY <1>2, <1>4 DEF Shape
<1>7. Allocated' /\ Distinct' /\ SessionIsOwn'
  BY <1>2, <1>5 DEF Allocated, Distinct, SessionIsOwn, HasConn, Serving
<1>8. QED
  BY <1>6, <1>7 DEF IInv

-------------------------------------------------------------------------------
(* The theorem.                                                            *)

LEMMA InitInductive == Init => IInv
<1> SUFFICES ASSUME Init PROVE IInv
  OBVIOUS
<1>1. \A k \in Conns : /\ {"thread", "addr"} \subseteq DOMAIN conn[k]
                       /\ conn[k].thread = "unused" /\ conn[k].addr = NoAddress
  BY DEF Init, Unused
<1>2. Shape /\ SessionIsOwn
  BY <1>1 DEF Init, Shape, SessionIsOwn
<1>3. Allocated /\ Distinct
  BY <1>1 DEF Allocated, Distinct, HasConn, Serving
<1>4. QED
  BY <1>2, <1>3 DEF IInv

LEMMA StepInductive == IInv /\ [Next]_vars => IInv'
<1> SUFFICES ASSUME IInv, [Next]_vars PROVE IInv'
  OBVIOUS
<1>1. CASE \E s \in Servers :
             GameInit(s) \/ (\E m \in Methods : Call(s, m)) \/ CallStep(s) \/ Shutdown(s)
  BY <1>1, ClientInductive
<1>2. CASE \E k \in Conns : NetworkBreaks(k) \/ FrameLost(k)
  BY <1>2, NetworkInductive
<1>3. CASE \E k \in Conns : Accept(k)
  BY <1>3, AcceptInductive
<1>4. CASE \E k \in Conns : ServeProc(k)
  BY <1>4, ReadInductive, AnswerInductive, CallInductive, DisconnectInductive, DeleteInductive
  DEF ServeProc
<1>5. CASE Die \/ \E k \in Conns : CommandCrashes(k)
  BY <1>5, DieInductive DEF CommandCrashes
<1>6. CASE Start
  BY <1>6, SameConn DEF Start
<1>7. CASE UNCHANGED vars
  BY <1>7, SameConn DEF vars
<1>8. QED
  BY <1>1, <1>2, <1>3, <1>4, <1>5, <1>6, <1>7 DEF Next

\* An entry of the client list belongs to the connection whose Conn is at its
\* address now, however often an address is used again.
THEOREM SessionsAreOwn == Spec => []SessionIsOwn
<1>1. Init => IInv
  BY InitInductive
<1>2. IInv /\ [Next]_vars => IInv'
  BY StepInductive
<1>3. IInv => SessionIsOwn
  BY DEF IInv
<1>4. QED
  BY <1>1, <1>2, <1>3, PTL DEF Spec

-------------------------------------------------------------------------------
(* The order in which a connection's calls are executed: what is served,   *)
(* what the thread holds and what is under way are ids that grow, below    *)
(* the next id of the client that holds the connection.                    *)

Frames == {Key} \cup [kind : {"request"}, id : Nat, method : Methods \cup {NoMethod}]
                \cup [kind : {"body"}, id : Nat]

Fields == {"thread", "id", "served", "toServer"}

Busy(c) == c.thread \in {"body", "call"}

InOrder(c) ==
  /\ c.served \in Seq(Nat) /\ c.toServer \in Seq(Frames) /\ c.id \in Nat
  /\ \A i, j \in DOMAIN c.served : i < j => c.served[i] < c.served[j]
  /\ \A i, j \in DOMAIN c.toServer :
       i < j /\ c.toServer[i].kind = "request" /\ c.toServer[j].kind = "request" =>
         c.toServer[i].id < c.toServer[j].id
  /\ \A i \in DOMAIN c.served, j \in DOMAIN c.toServer :
       c.toServer[j].kind = "request" => c.served[i] < c.toServer[j].id
  /\ Busy(c) => /\ \A i \in DOMAIN c.served : c.served[i] < c.id
                /\ \A j \in DOMAIN c.toServer :
                     c.toServer[j].kind = "request" => c.id < c.toServer[j].id

Below(c, n) ==
  /\ \A i \in DOMAIN c.served : c.served[i] < n
  /\ \A j \in DOMAIN c.toServer : c.toServer[j].kind = "request" => c.toServer[j].id < n
  /\ Busy(c) => c.id < n

OrderedConns ==
  /\ DOMAIN conn = Conns
  /\ \A k \in Conns : Fields \subseteq DOMAIN conn[k] /\ InOrder(conn[k])

OwnSockets ==
  /\ DOMAIN client = Servers
  /\ \A s \in Servers :
       /\ {"sock", "seq", "method", "pc"} \subseteq DOMAIN client[s]
       /\ client[s].sock \in Conns \cup {NoConn}
       /\ client[s].seq \in Nat /\ client[s].method \in Methods \cup {NoMethod}
       /\ client[s].pc = "dial" => client[s].sock = NoConn
  /\ \A s, t \in Servers :
       client[s].sock = client[t].sock /\ client[s].sock # NoConn => s = t

Holds(cl, s, cn) ==
  cl[s].sock # NoConn =>
    cn[cl[s].sock].thread # "unused" /\ Below(cn[cl[s].sock], cl[s].seq)

OrderInv ==
  OrderedConns /\ OwnSockets /\ \A s \in Servers : Holds(client, s, conn)

LEMMA FrameId ==
  ASSUME NEW f \in Frames, f.kind = "request"
  PROVE  f.id \in Nat /\ f.method \in Methods \cup {NoMethod}
BY DEF Frames, Key

LEMMA SeqFacts ==
  ASSUME NEW S, NEW q \in Seq(S)
  PROVE  Len(q) \in Nat /\ DOMAIN q = 1 .. Len(q) /\ \A i \in DOMAIN q : q[i] \in S
BY LenProperties

\* The frames left of a queue are where they were, or one further to the front.
Left(q, r, off) ==
  \A j \in DOMAIN r : j + off \in DOMAIN q /\ r[j] = q[j + off]

LEMMA TailLeft ==
  ASSUME NEW S, NEW q \in Seq(S), q # <<>>
  PROVE  Tail(q) \in Seq(S) /\ Left(q, Tail(q), 1) /\ q[1] \in S /\ Head(q) = q[1]
<1>1. /\ Tail(q) \in Seq(S) /\ Len(Tail(q)) = Len(q) - 1
      /\ \A i \in 1 .. Len(Tail(q)) : Tail(q)[i] = q[i + 1]
      /\ Head(q) = q[1] /\ Head(q) \in S
  BY HeadTailProperties
<1>2. PICK r : r = Tail(q)
  OBVIOUS
<1>3. /\ Len(q) \in Nat /\ DOMAIN q = 1 .. Len(q)
      /\ Len(r) \in Nat /\ DOMAIN r = 1 .. Len(r)
  BY <1>1, <1>2, SeqFacts
<1>4. Len(r) = Len(q) - 1 /\ \A i \in 1 .. Len(r) : r[i] = q[i + 1]
  BY <1>1, <1>2
<1>5. Left(q, r, 1)
  BY <1>3, <1>4 DEF Left
<1>6. QED
  BY <1>1, <1>2, <1>5

LEMMA FrontLeft ==
  ASSUME NEW S, NEW q \in Seq(S), q # <<>>
  PROVE  Front(q) \in Seq(S) /\ Left(q, Front(q), 0)
<1>1. Len(q) \in Nat /\ DOMAIN q = 1 .. Len(q) /\ \A i \in DOMAIN q : q[i] \in S
  BY SeqFacts
<1>2. Len(q) # 0
  BY EmptySeq, <1>1
<1>3. Front(q) = SubSeq(q, 1, Len(q) - 1)
  BY DEF Front
<1>4. PICK r : r = SubSeq(q, 1, Len(q) - 1)
  OBVIOUS
<1>5. /\ r \in Seq(S) /\ Len(r) = Len(q) - 1
      /\ \A i \in 1 .. Len(r) : r[i] = q[i]
  <2>1. Len(q) - 1 \in 0 .. Len(q)
    BY <1>1, <1>2
  <2>2. /\ 1 \in Int /\ Len(q) - 1 \in Int /\ \A i \in 1 .. Len(q) - 1 : q[i] \in S
    BY <1>1, <2>1
  <2>3. /\ SubSeq(q, 1, Len(q) - 1) \in Seq(S)
        /\ Len(SubSeq(q, 1, Len(q) - 1)) =
             IF 1 <= Len(q) - 1 THEN (Len(q) - 1) - 1 + 1 ELSE 0
        /\ \A i \in 1 .. (Len(q) - 1) - 1 + 1 :
             SubSeq(q, 1, Len(q) - 1)[i] = q[1 + i - 1]
    BY <2>2, SubSeqProperties
  <2>4. r \in Seq(S) /\ Len(r) = Len(q) - 1
    BY <1>1, <1>2, <1>4, <2>3
  <2>5. \A i \in 1 .. Len(r) : r[i] = q[i]
    <3>1. ASSUME NEW i \in 1 .. Len(r) PROVE r[i] = q[1 + i - 1] /\ 1 + i - 1 = i
      BY <1>1, <1>4, <2>3, <2>4
    <3>2. QED
      BY <3>1
  <2>6. QED
    BY <2>4, <2>5
<1>6. DOMAIN r = 1 .. Len(r)
  BY <1>5, SeqFacts
<1>7. Left(q, r, 0)
  BY <1>1, <1>2, <1>5, <1>6 DEF Left
<1>8. QED
  BY <1>3, <1>4, <1>5, <1>7

LEMMA NothingLeft ==
  ASSUME NEW S, NEW q
  PROVE  <<>> \in Seq(S) /\ Left(q, <<>>, 0)
BY EmptySeq DEF Left

\* A step that reads or loses frames keeps the order, and what was below n.
LEMMA ReadOrder ==
  ASSUME NEW c, InOrder(c), NEW d, d.served = c.served,
         NEW off \in {0, 1}, d.toServer \in Seq(Frames), Left(c.toServer, d.toServer, off),
         d.id \in Nat,
         Busy(d) =>
           \/ Busy(c) /\ d.id = c.id
           \/ /\ off = 1 /\ 1 \in DOMAIN c.toServer
              /\ c.toServer[1].kind = "request" /\ d.id = c.toServer[1].id
  PROVE  InOrder(d) /\ \A n \in Nat : Below(c, n) => Below(d, n)
<1> DEFINE req(q, i) == q[i].kind = "request"
<1>1. /\ DOMAIN c.toServer \subseteq Nat /\ DOMAIN d.toServer \subseteq Nat \ {0}
      /\ \A i \in DOMAIN c.toServer : c.toServer[i] \in Frames
  BY SeqFacts DEF InOrder
<1>2. \A i \in DOMAIN d.toServer : i + off \in DOMAIN c.toServer /\ d.toServer[i] = c.toServer[i + off]
  BY DEF Left
<1>3. \A i, j \in DOMAIN d.toServer :
        i < j /\ d.toServer[i].kind = "request" /\ d.toServer[j].kind = "request" =>
          d.toServer[i].id < d.toServer[j].id
  <2> SUFFICES ASSUME NEW i \in DOMAIN d.toServer, NEW j \in DOMAIN d.toServer,
                      i < j, d.toServer[i].kind = "request", d.toServer[j].kind = "request"
               PROVE  d.toServer[i].id < d.toServer[j].id
    OBVIOUS
  <2>1. i + off < j + off
    BY <1>1
  <2>2. QED
    BY <1>2, <2>1 DEF InOrder
<1>4. \A i \in DOMAIN d.served, j \in DOMAIN d.toServer :
        d.toServer[j].kind = "request" => d.served[i] < d.toServer[j].id
  BY <1>2 DEF InOrder
<1>5. Busy(d) => /\ \A i \in DOMAIN d.served : d.served[i] < d.id
                 /\ \A j \in DOMAIN d.toServer :
                      d.toServer[j].kind = "request" => d.id < d.toServer[j].id
  <2>1. CASE Busy(c) /\ d.id = c.id
    BY <1>2, <2>1 DEF InOrder
  <2>2. CASE /\ off = 1 /\ 1 \in DOMAIN c.toServer
             /\ c.toServer[1].kind = "request" /\ d.id = c.toServer[1].id
    <3>1. \A i \in DOMAIN d.served : d.served[i] < d.id
      BY <2>2 DEF InOrder
    <3>2. ASSUME NEW j \in DOMAIN d.toServer, d.toServer[j].kind = "request"
          PROVE  d.id < d.toServer[j].id
      <4>1. 1 < j + off /\ j + off \in DOMAIN c.toServer /\ d.toServer[j] = c.toServer[j + off]
        BY <1>1, <1>2, <2>2
      <4>2. QED
        BY <2>2, <3>2, <4>1 DEF InOrder
    <3>3. QED
      BY <3>1, <3>2
  <2>3. CASE ~Busy(d)
    BY <2>3
  <2>4. QED
    BY <2>1, <2>2, <2>3
<1>6. InOrder(d)
  BY <1>3, <1>4, <1>5 DEF InOrder
<1>7. ASSUME NEW n \in Nat, Below(c, n) PROVE Below(d, n)
  BY <1>2, <1>7 DEF Below
<1>8. QED
  BY <1>6, <1>7

LEMMA StayOrder ==
  ASSUME NEW c, InOrder(c), NEW d, d.served = c.served, d.toServer = c.toServer,
         d.id \in Nat, Busy(d) => Busy(c) /\ d.id = c.id
  PROVE  InOrder(d) /\ \A n \in Nat : Below(c, n) => Below(d, n)
BY DEF InOrder, Below

LEMMA UnusedOrder ==
  /\ Fields \subseteq DOMAIN Unused /\ InOrder(Unused) /\ ~Busy(Unused)
  /\ Unused.thread = "unused" /\ Unused.toServer = <<>> /\ Unused.served = <<>>
BY EmptySeq DEF Unused, Fields, InOrder, Busy

\* A call that is executed.
LEMMA ServeOrder ==
  ASSUME NEW c, InOrder(c), Busy(c), NEW d,
         d.served = Append(c.served, c.id), d.toServer = c.toServer, d.id = c.id, ~Busy(d)
  PROVE  InOrder(d) /\ \A n \in Nat : Below(c, n) => Below(d, n)
<1>1. /\ Len(c.served) \in Nat /\ DOMAIN c.served = 1 .. Len(c.served)
      /\ c.served \in Seq(Nat) /\ c.id \in Nat
  BY SeqFacts DEF InOrder
<1>2. /\ d.served \in Seq(Nat) /\ Len(d.served) = Len(c.served) + 1
      /\ \A i \in 1 .. Len(c.served) : d.served[i] = c.served[i]
      /\ d.served[Len(c.served) + 1] = c.id
  BY <1>1, AppendProperties
<1>3. DOMAIN d.served = 1 .. Len(c.served) + 1
  BY <1>2, SeqFacts
<1>4. \A i \in DOMAIN d.served :
        \/ i \in DOMAIN c.served /\ d.served[i] = c.served[i]
        \/ i = Len(c.served) + 1 /\ d.served[i] = c.id
  BY <1>1, <1>2, <1>3
<1>5. \A i, j \in DOMAIN d.served : i < j => d.served[i] < d.served[j]
  <2> SUFFICES ASSUME NEW i \in DOMAIN d.served, NEW j \in DOMAIN d.served, i < j
               PROVE  d.served[i] < d.served[j]
    OBVIOUS
  <2>1. i \in DOMAIN c.served /\ d.served[i] = c.served[i]
    BY <1>1, <1>3, <1>4
  <2>2. CASE j \in DOMAIN c.served /\ d.served[j] = c.served[j]
    BY <2>1, <2>2 DEF InOrder
  <2>3. CASE d.served[j] = c.id
    BY <2>1, <2>3 DEF InOrder
  <2>4. QED
    BY <1>4, <2>2, <2>3
<1>6. \A i \in DOMAIN d.served, j \in DOMAIN d.toServer :
        d.toServer[j].kind = "request" => d.served[i] < d.toServer[j].id
  BY <1>4 DEF InOrder
<1>7. InOrder(d)
  BY <1>2, <1>5, <1>6 DEF InOrder
<1>8. ASSUME NEW n \in Nat, Below(c, n) PROVE Below(d, n)
  BY <1>4, <1>8 DEF Below
<1>9. QED
  BY <1>7, <1>8

\* A request that is sent has the client's next id.
LEMMA SendOrder ==
  ASSUME NEW c, InOrder(c), NEW n \in Nat, Below(c, n), NEW m \in Methods \cup {NoMethod},
         NEW d, d.served = c.served, d.id = c.id, d.thread = c.thread,
         d.toServer = c.toServer \o Request(n, m)
  PROVE  InOrder(d) /\ Below(d, n + 1)
<1>1. /\ Len(c.toServer) \in Nat /\ DOMAIN c.toServer = 1 .. Len(c.toServer)
      /\ c.toServer \in Seq(Frames) /\ \A i \in DOMAIN c.toServer : c.toServer[i] \in Frames
  BY SeqFacts DEF InOrder
<1>2. PICK r : r = Request(n, m)
  OBVIOUS
<1>3. /\ r \in Seq(Frames) /\ Len(r) = 2
      /\ r[1].kind = "request" /\ r[1].id = n /\ r[2].kind = "body"
  BY <1>2 DEF Request, Body, Frames
<1>4. /\ d.toServer \in Seq(Frames) /\ Len(d.toServer) = Len(c.toServer) + 2
      /\ \A i \in 1 .. Len(c.toServer) + 2 :
           d.toServer[i] = IF i <= Len(c.toServer) THEN c.toServer[i] ELSE r[i - Len(c.toServer)]
  <2>1. d.toServer = c.toServer \o r
    BY <1>2
  <2>2. /\ c.toServer \o r \in Seq(Frames)
        /\ Len(c.toServer \o r) = Len(c.toServer) + Len(r)
        /\ \A i \in 1 .. Len(c.toServer) + Len(r) : (c.toServer \o r)[i] =
             IF i <= Len(c.toServer) THEN c.toServer[i] ELSE r[i - Len(c.toServer)]
    BY ONLY <1>1, <1>3, ConcatProperties
  <2>3. QED
    BY <1>3, <2>1, <2>2
<1>5. DOMAIN d.toServer = 1 .. Len(c.toServer) + 2
  BY <1>4, SeqFacts
<1>6. \A j \in DOMAIN d.toServer : d.toServer[j].kind = "request" =>
        \/ j \in DOMAIN c.toServer /\ d.toServer[j] = c.toServer[j]
        \/ j = Len(c.toServer) + 1 /\ d.toServer[j].id = n
  <2> SUFFICES ASSUME NEW j \in 1 .. Len(c.toServer) + 2, d.toServer[j].kind = "request",
                      ~(j <= Len(c.toServer))
               PROVE  j = Len(c.toServer) + 1 /\ d.toServer[j].id = n
    BY <1>1, <1>4, <1>5
  <2>1. j - Len(c.toServer) = 1 \/ j - Len(c.toServer) = 2
    BY <1>1
  <2>2. d.toServer[j] = r[j - Len(c.toServer)]
    BY <1>4
  <2>3. j - Len(c.toServer) = 1
    BY <1>3, <2>1, <2>2
  <2>4. d.toServer[j].id = n
    BY <1>3, <2>2, <2>3
  <2>5. QED
    BY <1>1, <2>3, <2>4
<1>7. Busy(d) <=> Busy(c)
  BY DEF Busy
<1>8. \A i, j \in DOMAIN d.toServer :
        i < j /\ d.toServer[i].kind = "request" /\ d.toServer[j].kind = "request" =>
          d.toServer[i].id < d.toServer[j].id
  <2> SUFFICES ASSUME NEW i \in DOMAIN d.toServer, NEW j \in DOMAIN d.toServer,
                      i < j, d.toServer[i].kind = "request", d.toServer[j].kind = "request"
               PROVE  d.toServer[i].id < d.toServer[j].id
    OBVIOUS
  <2>1. i \in DOMAIN c.toServer /\ d.toServer[i] = c.toServer[i]
    BY <1>1, <1>5, <1>6
  <2>2. CASE j \in DOMAIN c.toServer /\ d.toServer[j] = c.toServer[j]
    BY <2>1, <2>2 DEF InOrder
  <2>3. CASE d.toServer[j].id = n
    BY <2>1, <2>3 DEF Below
  <2>4. QED
    BY <1>6, <2>2, <2>3
<1>9. \A i \in DOMAIN d.served, j \in DOMAIN d.toServer :
        d.toServer[j].kind = "request" => d.served[i] < d.toServer[j].id
  BY <1>6 DEF InOrder, Below
<1>10. Busy(d) => \A j \in DOMAIN d.toServer :
         d.toServer[j].kind = "request" => d.id < d.toServer[j].id
  BY <1>6, <1>7 DEF InOrder, Below
<1>11. InOrder(d)
  BY <1>4, <1>7, <1>8, <1>9, <1>10 DEF InOrder
<1>12. Below(d, n + 1)
  <2>1. \A i \in DOMAIN d.served : d.served[i] \in Nat
    BY SeqFacts DEF InOrder
  <2>2. \A i \in DOMAIN d.served : d.served[i] < n + 1
    BY <2>1 DEF Below
  <2>3. Busy(d) => d.id < n + 1
    BY <1>7 DEF Below, InOrder
  <2>4. ASSUME NEW j \in DOMAIN d.toServer, d.toServer[j].kind = "request"
        PROVE  d.toServer[j].id < n + 1
    <3>1. CASE j \in DOMAIN c.toServer /\ d.toServer[j] = c.toServer[j]
      <4>1. d.toServer[j].id \in Nat /\ d.toServer[j].id < n
        BY <1>1, <2>4, <3>1, FrameId DEF Below
      <4>2. QED
        BY <4>1
    <3>2. CASE d.toServer[j].id = n
      BY <3>2
    <3>3. QED
      BY <1>6, <2>4, <3>1, <3>2
  <2>5. QED
    BY <2>2, <2>3, <2>4 DEF Below
<1>13. QED
  BY <1>11, <1>12

-------------------------------------------------------------------------------
(* Steps keep the order.                                                   *)

\* Ids below n are below what is larger.
LEMMA BelowGrows ==
  ASSUME NEW c, InOrder(c), NEW n \in Nat, NEW m \in Nat, n <= m, Below(c, n)
  PROVE  Below(c, m)
<1>1. \A i \in DOMAIN c.served : c.served[i] \in Nat
  BY SeqFacts DEF InOrder
<1>2. \A j \in DOMAIN c.toServer : c.toServer[j].kind = "request" => c.toServer[j].id \in Nat
  BY SeqFacts, FrameId DEF InOrder
<1>3. c.id \in Nat
  BY DEF InOrder
<1>4. QED
  BY <1>1, <1>2, <1>3 DEF Below

\* What every step but Dial and Send does to the connections.
Tame ==
  /\ DOMAIN conn' = Conns
  /\ \A k \in Conns :
       /\ Fields \subseteq DOMAIN conn'[k] /\ InOrder(conn'[k])
       /\ \A n \in Nat : Below(conn[k], n) => Below(conn'[k], n)
       /\ Held(k, client') /\ conn[k].thread # "unused" => conn'[k].thread # "unused"

LEMMA TameSame ==
  ASSUME OrderInv, conn' = conn
  PROVE  Tame
BY DEF OrderInv, OrderedConns, Tame

LEMMA TameOne ==
  ASSUME OrderInv, NEW k \in Conns, NEW c, conn' = [conn EXCEPT ![k] = c],
         Fields \subseteq DOMAIN c, InOrder(c),
         \A n \in Nat : Below(conn[k], n) => Below(c, n),
         c.thread = "unused" => conn[k].thread = "unused"
  PROVE  Tame
<1>1. DOMAIN conn' = Conns /\ conn'[k] = c /\ \A j \in Conns \ {k} : conn'[j] = conn[j]
  BY DEF OrderInv, OrderedConns
<1>2. \A j \in Conns : Fields \subseteq DOMAIN conn[j] /\ InOrder(conn[j])
  BY DEF OrderInv, OrderedConns
<1>3. QED
  BY <1>1, <1>2 DEF Tame

LEMMA SettledOrder ==
  ASSUME NEW cn, NEW cl, NEW k \in Conns, Fields \subseteq DOMAIN cn[k], InOrder(cn[k])
  PROVE  /\ Fields \subseteq DOMAIN Settled(cn, cl)[k] /\ InOrder(Settled(cn, cl)[k])
         /\ \A n \in Nat : Below(cn[k], n) => Below(Settled(cn, cl)[k], n)
         /\ Held(k, cl) => Settled(cn, cl)[k].thread = cn[k].thread
<1>1. PICK d : d = Settled(cn, cl)[k]
  OBVIOUS
<1>2. \/ d = [cn[k] EXCEPT !.toServer = <<>>, !.reset = FALSE]
      \/ d = cn[k]
      \/ ~Held(k, cl) /\ d = Unused
      \/ d = [cn[k] EXCEPT !.toClient = <<>>]
  BY <1>1 DEF Settled
<1>3. CASE d = cn[k]
  BY <1>1, <1>3
<1>4. CASE ~Held(k, cl) /\ d = Unused
  <2>1. \A n \in Nat : Below(d, n)
    BY <1>4, UnusedOrder, EmptySeq DEF Below
  <2>2. QED
    BY <1>1, <1>4, <2>1, UnusedOrder
<1>5. CASE d = [cn[k] EXCEPT !.toServer = <<>>, !.reset = FALSE]
  <2>1. /\ Fields \subseteq DOMAIN d /\ d.served = cn[k].served /\ d.toServer = <<>>
        /\ d.id = cn[k].id /\ d.thread = cn[k].thread
    BY <1>5 DEF Fields
  <2>2. /\ d.toServer \in Seq(Frames) /\ Left(cn[k].toServer, d.toServer, 0)
        /\ d.id \in Nat /\ (Busy(d) => Busy(cn[k]) /\ d.id = cn[k].id)
    BY <2>1, NothingLeft DEF InOrder, Busy
  <2>3. InOrder(d) /\ \A n \in Nat : Below(cn[k], n) => Below(d, n)
    BY <2>1, <2>2, ReadOrder
  <2>4. QED
    BY <1>1, <2>1, <2>3
<1>6. CASE d = [cn[k] EXCEPT !.toClient = <<>>]
  <2>1. /\ Fields \subseteq DOMAIN d /\ d.served = cn[k].served /\ d.toServer = cn[k].toServer
        /\ d.id = cn[k].id /\ d.thread = cn[k].thread
    BY <1>6 DEF Fields
  <2>2. InOrder(d) /\ \A n \in Nat : Below(cn[k], n) => Below(d, n)
    BY <2>1, StayOrder DEF InOrder, Busy
  <2>3. QED
    BY <1>1, <2>1, <2>2
<1>7. QED
  BY <1>2, <1>3, <1>4, <1>5, <1>6

LEMMA TameSettled ==
  ASSUME OrderInv, conn' = Settled(conn, client')
  PROVE  Tame
<1>1. DOMAIN conn' = Conns
  BY DEF Settled
<1>2. \A k \in Conns : Fields \subseteq DOMAIN conn[k] /\ InOrder(conn[k])
  BY DEF OrderInv, OrderedConns
<1>3. QED
  BY <1>1, <1>2, SettledOrder DEF Tame

\* A step of the network or the daemon.
LEMMA DaemonOrder ==
  ASSUME OrderInv, Tame, client' = client
  PROVE  OrderInv'
<1>1. OrderedConns'
  BY DEF Tame, OrderedConns
<1>2. OwnSockets'
  BY DEF OrderInv, OwnSockets
<1>3. ASSUME NEW s \in Servers PROVE Holds(client, s, conn)'
  <2> SUFFICES ASSUME client[s].sock # NoConn
               PROVE  /\ conn'[client[s].sock].thread # "unused"
                      /\ Below(conn'[client[s].sock], client[s].seq)
    BY DEF Holds
  <2>1. /\ client[s].sock \in Conns /\ client[s].seq \in Nat
        /\ conn[client[s].sock].thread # "unused"
        /\ Below(conn[client[s].sock], client[s].seq)
    BY DEF OrderInv, OwnSockets, Holds
  <2>2. Held(client[s].sock, client')
    BY DEF Held
  <2>3. QED
    BY <2>1, <2>2 DEF Tame
<1>4. QED
  BY <1>1, <1>2, <1>3 DEF OrderInv

\* A step of a server that takes no new connection and sends nothing: its id
\* does not fall while it keeps the connection.
GoesOn(c, e) ==
  /\ {"sock", "seq", "method", "pc"} \subseteq DOMAIN e
  /\ e.sock \in {c.sock, NoConn} /\ e.seq \in Nat
  /\ e.sock # NoConn => c.seq <= e.seq
  /\ e.method \in Methods \cup {NoMethod} /\ (e.pc = "dial" => e.sock = NoConn)

LEMMA ServerOrder ==
  ASSUME OrderInv, Tame, NEW s \in Servers, NEW e, client' = [client EXCEPT ![s] = e],
         GoesOn(client[s], e)
  PROVE  OrderInv'
<1>0. /\ {"sock", "seq", "method", "pc"} \subseteq DOMAIN e
      /\ e.sock \in {client[s].sock, NoConn} /\ e.seq \in Nat
      /\ e.sock # NoConn => client[s].seq <= e.seq
      /\ e.method \in Methods \cup {NoMethod} /\ (e.pc = "dial" => e.sock = NoConn)
  BY DEF GoesOn
<1>1. OrderedConns'
  BY DEF Tame, OrderedConns
<1>2. /\ DOMAIN client' = Servers /\ client'[s] = e
      /\ \A t \in Servers \ {s} : client'[t] = client[t]
  BY DEF OrderInv, OwnSockets
<1>3. OwnSockets'
  <2>1. \A t \in Servers :
          /\ {"sock", "seq", "method", "pc"} \subseteq DOMAIN client'[t]
          /\ client'[t].sock \in Conns \cup {NoConn}
          /\ client'[t].seq \in Nat /\ client'[t].method \in Methods \cup {NoMethod}
          /\ client'[t].pc = "dial" => client'[t].sock = NoConn
    BY <1>0, <1>2 DEF OrderInv, OwnSockets
  <2>2. \A t \in Servers : client'[t].sock \in {client[t].sock, NoConn}
    BY <1>0, <1>2
  <2>3. ASSUME NEW t \in Servers, NEW u \in Servers,
               client'[t].sock = client'[u].sock, client'[u].sock # NoConn
        PROVE  t = u
    BY <2>2, <2>3 DEF OrderInv, OwnSockets
  <2>4. QED
    BY <1>2, <2>1, <2>3 DEF OwnSockets
<1>4. ASSUME NEW t \in Servers PROVE Holds(client, t, conn)'
  <2> SUFFICES ASSUME client'[t].sock # NoConn
               PROVE  /\ conn'[client'[t].sock].thread # "unused"
                      /\ Below(conn'[client'[t].sock], client'[t].seq)
    BY DEF Holds
  <2>1. /\ client'[t].sock = client[t].sock /\ client[t].sock \in Conns
        /\ client[t].seq \in Nat /\ client'[t].seq \in Nat /\ client[t].seq <= client'[t].seq
    BY <1>0, <1>2 DEF OrderInv, OwnSockets
  <2>2. PICK k \in Conns : k = client[t].sock
    BY <2>1
  <2>3. conn[k].thread # "unused" /\ Below(conn[k], client[t].seq)
    BY <2>1, <2>2 DEF OrderInv, Holds
  <2>4. Held(k, client')
    BY <2>1, <2>2 DEF Held
  <2>5. InOrder(conn'[k]) /\ conn'[k].thread # "unused" /\ Below(conn'[k], client[t].seq)
    BY <2>1, <2>3, <2>4 DEF Tame
  <2>6. QED
    BY <2>1, <2>2, <2>5, BelowGrows
<1>5. QED
  BY <1>1, <1>3, <1>4 DEF OrderInv

LEMMA ServerFields ==
  ASSUME OrderInv, NEW s \in Servers
  PROVE  /\ DOMAIN client = Servers /\ {"sock", "seq", "method", "pc"} \subseteq DOMAIN client[s]
         /\ client[s].sock \in Conns \cup {NoConn}
         /\ client[s].seq \in Nat /\ client[s].method \in Methods \cup {NoMethod}
         /\ client[s].pc = "dial" => client[s].sock = NoConn
BY DEF OrderInv, OwnSockets

LEMMA ConnFields ==
  ASSUME OrderInv, NEW k \in Conns
  PROVE  /\ DOMAIN conn = Conns /\ Fields \subseteq DOMAIN conn[k] /\ InOrder(conn[k])
         /\ conn[k].id \in Nat /\ conn[k].toServer \in Seq(Frames)
BY DEF OrderInv, OrderedConns, InOrder

\* What the client reads off its connection concerns no request.
LEMMA TameReply ==
  ASSUME OrderInv, NEW k, NEW x, conn' = [conn EXCEPT ![k].toClient = x]
  PROVE  Tame
<1>1. CASE k \in Conns
  <2>1. PICK c : c = [conn[k] EXCEPT !.toClient = x]
    OBVIOUS
  <2>2. conn' = [conn EXCEPT ![k] = c]
    BY <2>1
  <2>3. /\ Fields \subseteq DOMAIN c /\ c.served = conn[k].served
        /\ c.toServer = conn[k].toServer /\ c.id = conn[k].id /\ c.thread = conn[k].thread
    BY <1>1, <2>1, ConnFields DEF Fields
  <2>4. InOrder(c) /\ \A n \in Nat : Below(conn[k], n) => Below(c, n)
    BY <1>1, <2>3, ConnFields, StayOrder DEF Busy
  <2>5. QED
    BY <1>1, <2>2, <2>3, <2>4, TameOne
<1>2. CASE k \notin Conns
  <2>1. DOMAIN conn' = Conns /\ \A j \in Conns : conn'[j] = conn[j]
    BY <1>2 DEF OrderInv, OrderedConns
  <2>2. QED
    BY <2>1, ConnFields DEF Tame
<1>3. QED
  BY <1>1, <1>2

\* The steps of a server but Dial and Send.
LEMMA CallOrder ==
  ASSUME OrderInv, NEW s \in Servers,
         \/ GameInit(s) \/ (\E m \in Methods : Call(s, m)) \/ DialFails(s) \/ SendFails(s)
         \/ Hello(s) \/ RecvHeader(s) \/ RecvBody(s) \/ RecvFails(s) \/ Shutdown(s)
  PROVE  OrderInv'
<1> DEFINE k == client[s].sock
<1>1. /\ {"sock", "seq", "method", "pc"} \subseteq DOMAIN client[s]
      /\ client[s].sock \in Conns \cup {NoConn}
      /\ client[s].seq \in Nat /\ client[s].method \in Methods \cup {NoMethod}
      /\ client[s].pc = "dial" => client[s].sock = NoConn
  BY ServerFields
<1>2. ASSUME Close(s) PROVE OrderInv'
  <2>1. PICK e : e = [client[s] EXCEPT !.sock = NoConn, !.pc = "idle", !.method = NoMethod]
    OBVIOUS
  <2>2. client' = [client EXCEPT ![s] = e] /\ Tame
    BY <1>2, <2>1, TameSettled DEF Close
  <2>3. /\ {"sock", "seq", "method", "pc"} \subseteq DOMAIN e /\ e.sock = NoConn
        /\ e.seq = client[s].seq /\ e.method = NoMethod /\ e.pc = "idle"
    BY <1>1, <2>1
  <2>4. GoesOn(client[s], e)
    BY <1>1, <2>2, <2>3 DEF GoesOn
  <2>5. QED
    BY <2>2, <2>3, <2>4, ServerOrder
<1>3. CASE GameInit(s)
  <2>1. PICK e : e = [client[s] EXCEPT !.level = "starting"]
    OBVIOUS
  <2>2. client' = [client EXCEPT ![s] = e] /\ Tame
    BY <1>3, <2>1, TameSame DEF GameInit
  <2>3. /\ {"sock", "seq", "method", "pc"} \subseteq DOMAIN e /\ e.sock = client[s].sock
        /\ e.seq = client[s].seq /\ e.method = client[s].method /\ e.pc = client[s].pc
    BY <1>1, <2>1
  <2>4. GoesOn(client[s], e)
    BY <1>1, <2>2, <2>3 DEF GoesOn
  <2>5. QED
    BY <2>2, <2>3, <2>4, ServerOrder
<1>4. ASSUME NEW m \in Methods, Call(s, m) PROVE OrderInv'
  <2>1. PICK l : l = IF m = "Register" THEN "running" ELSE client[s].level
    OBVIOUS
  <2>2. PICK p : p = IF client[s].sock = NoConn THEN "dial" ELSE "send"
    OBVIOUS
  <2>3. PICK e : e = [client[s] EXCEPT !.method = m, !.result = {}, !.level = l, !.pc = p]
    OBVIOUS
  <2>4. client' = [client EXCEPT ![s] = e] /\ Tame
    BY <1>4, <2>1, <2>2, <2>3, TameSame DEF Call
  <2>5. /\ {"sock", "seq", "method", "pc"} \subseteq DOMAIN e /\ e.sock = client[s].sock
        /\ e.seq = client[s].seq /\ e.method = m /\ e.pc = p
    BY <1>1, <2>3
  <2>6. GoesOn(client[s], e)
    BY <1>1, <2>2, <2>4, <2>5 DEF GoesOn
  <2>7. QED
    BY <2>2, <2>4, <2>5, <2>6, ServerOrder
<1>5. CASE DialFails(s)
  <2>1. PICK e : e = [client[s] EXCEPT !.pc = "idle", !.method = NoMethod]
    OBVIOUS
  <2>2. client' = [client EXCEPT ![s] = e] /\ Tame
    BY <1>5, <2>1, TameSame DEF DialFails
  <2>3. /\ {"sock", "seq", "method", "pc"} \subseteq DOMAIN e /\ e.sock = client[s].sock
        /\ e.seq = client[s].seq /\ e.method = NoMethod /\ e.pc = "idle"
    BY <1>1, <2>1
  <2>4. GoesOn(client[s], e)
    BY <1>1, <2>2, <2>3 DEF GoesOn
  <2>5. QED
    BY <2>2, <2>3, <2>4, ServerOrder
<1>6. CASE SendFails(s)
  <2>1. PICK e : e = [client[s] EXCEPT !.pc = "idle", !.seq = @ + 1, !.method = NoMethod]
    OBVIOUS
  <2>2. client' = [client EXCEPT ![s] = e] /\ Tame
    BY <1>6, <2>1, TameSame DEF SendFails
  <2>3. /\ {"sock", "seq", "method", "pc"} \subseteq DOMAIN e /\ e.sock = client[s].sock
        /\ e.seq = client[s].seq + 1 /\ e.method = NoMethod /\ e.pc = "idle"
    BY <1>1, <2>1
  <2>4. GoesOn(client[s], e)
    BY <1>1, <2>2, <2>3 DEF GoesOn
  <2>5. QED
    BY <2>2, <2>3, <2>4, ServerOrder
<1>7. CASE Hello(s)
  <2>1. CASE Close(s)
    BY <1>2, <2>1
  <2>2. CASE ClientGoes(s, "hello", "send") /\ conn' = [conn EXCEPT ![k].toClient = Tail(@)]
    <3>1. PICK e : e = [client[s] EXCEPT !.pc = "send"]
      OBVIOUS
    <3>2. client' = [client EXCEPT ![s] = e]
      BY <2>2, <3>1 DEF ClientGoes
    <3>3. /\ {"sock", "seq", "method", "pc"} \subseteq DOMAIN e /\ e.sock = client[s].sock
          /\ e.seq = client[s].seq /\ e.method = client[s].method /\ e.pc = "send"
      BY <1>1, <3>1
    <3>4. Tame
      BY <2>2, TameReply
    <3>5. GoesOn(client[s], e)
      BY <1>1, <3>2, <3>3, <3>4 DEF GoesOn
    <3>6. QED
      BY <3>2, <3>3, <3>4, <3>5, ServerOrder
  <2>3. QED
    BY <1>7, <2>1, <2>2 DEF Hello
<1>8. CASE RecvHeader(s)
  <2>1. PICK e : e = [client[s] EXCEPT !.pc = "body", !.reply = Head(conn[k].toClient)]
    OBVIOUS
  <2>2. client' = [client EXCEPT ![s] = e] /\ conn' = [conn EXCEPT ![k].toClient = Tail(@)]
    BY <1>8, <2>1 DEF RecvHeader
  <2>3. /\ {"sock", "seq", "method", "pc"} \subseteq DOMAIN e /\ e.sock = client[s].sock
        /\ e.seq = client[s].seq /\ e.method = client[s].method /\ e.pc = "body"
    BY <1>1, <2>1
  <2>4. Tame
    BY <2>2, TameReply
  <2>5. GoesOn(client[s], e)
    BY <1>1, <2>2, <2>3, <2>4 DEF GoesOn
  <2>6. QED
    BY <2>2, <2>3, <2>4, <2>5, ServerOrder
<1>9. CASE RecvBody(s)
  <2>1. PICK x : x = {r \in {[call |-> client[s].seq - 1, answer |-> Head(conn[k].toClient).id]} :
                        client[s].reply.id = client[s].seq - 1 /\ ~client[s].reply.error}
    OBVIOUS
  <2>2. PICK e : e = [client[s] EXCEPT !.pc = "idle", !.reply = NoReply, !.method = NoMethod,
                                       !.result = x]
    OBVIOUS
  <2>3. client' = [client EXCEPT ![s] = e] /\ conn' = [conn EXCEPT ![k].toClient = Tail(@)]
    BY <1>9, <2>1, <2>2 DEF RecvBody
  <2>4. /\ {"sock", "seq", "method", "pc"} \subseteq DOMAIN e /\ e.sock = client[s].sock
        /\ e.seq = client[s].seq /\ e.method = NoMethod /\ e.pc = "idle"
    BY <1>1, <2>2
  <2>5. Tame
    BY <2>3, TameReply
  <2>6. GoesOn(client[s], e)
    BY <1>1, <2>3, <2>4, <2>5 DEF GoesOn
  <2>7. QED
    BY <2>3, <2>4, <2>5, <2>6, ServerOrder
<1>10. CASE RecvFails(s)
  <2>1. CASE Close(s)
    BY <1>2, <2>1
  <2>2. CASE /\ client' = [client EXCEPT ![s].pc = "idle", ![s].reply = NoReply,
                                        ![s].method = NoMethod]
             /\ UNCHANGED conn
    <3>1. PICK e : e = [client[s] EXCEPT !.pc = "idle", !.reply = NoReply, !.method = NoMethod]
      OBVIOUS
    <3>2. client' = [client EXCEPT ![s] = e] /\ Tame
      BY <2>2, <3>1, TameSame
    <3>3. /\ {"sock", "seq", "method", "pc"} \subseteq DOMAIN e /\ e.sock = client[s].sock
          /\ e.seq = client[s].seq /\ e.method = NoMethod /\ e.pc = "idle"
      BY <1>1, <3>1
    <3>4. GoesOn(client[s], e)
      BY <1>1, <3>2, <3>3 DEF GoesOn
    <3>5. QED
      BY <3>2, <3>3, <3>4, ServerOrder
  <2>3. QED
    BY <1>10, <2>1, <2>2 DEF RecvFails
<1>11. CASE Shutdown(s)
  <2>1. client' = [client EXCEPT ![s] = NewClient] /\ Tame
    BY <1>11, TameSettled DEF Shutdown
  <2>2. /\ {"sock", "seq", "method", "pc"} \subseteq DOMAIN NewClient
        /\ NewClient.sock = NoConn /\ NewClient.seq = 0 /\ NewClient.method = NoMethod
        /\ NewClient.pc = "idle"
    BY DEF NewClient
  <2>3. GoesOn(client[s], NewClient)
    BY <2>1, <2>2 DEF GoesOn
  <2>4. QED
    BY <2>1, <2>2, <2>3, ServerOrder
<1>12. QED
  BY <1>3, <1>4, <1>5, <1>6, <1>7, <1>8, <1>9, <1>10, <1>11

\* A new connection takes the place of one nobody holds.
LEMMA DialOrder ==
  ASSUME OrderInv, NEW s \in Servers, NEW k \in Conns, Dial(s, k)
  PROVE  OrderInv'
<1>1. PICK c : c = [conn[k] EXCEPT !.thread = "backlog", !.toServer = <<Key>>,
                      !.orphan = client[s].level = "running" /\ client[s].method # "Register"]
  OBVIOUS
<1>2. PICK e : e = [client[s] EXCEPT !.pc = "hello", !.sock = k]
  OBVIOUS
<1>3. /\ conn' = [conn EXCEPT ![k] = c] /\ client' = [client EXCEPT ![s] = e]
      /\ conn[k] = Unused
  BY <1>1, <1>2 DEF Dial
<1>4. /\ c.served = <<>> /\ c.toServer = <<Key>> /\ c.id = 0 /\ c.thread = "backlog"
      /\ Fields \subseteq DOMAIN c
  BY <1>1, <1>3 DEF Unused, Fields
<1>5. /\ {"sock", "seq", "method", "pc"} \subseteq DOMAIN e /\ e.sock = k /\ e.pc = "hello"
      /\ e.seq = client[s].seq /\ e.method = client[s].method
  BY <1>2, ServerFields
<1>6. /\ <<Key>> \in Seq(Frames) /\ DOMAIN <<Key>> = {1} /\ <<Key>>[1] = Key
      /\ Key.kind # "request"
  BY DEF Frames, Key
<1>7. InOrder(c)
  BY <1>4, <1>6, EmptySeq DEF InOrder, Busy
<1>8. \A n \in Nat : Below(c, n)
  BY <1>4, <1>6, EmptySeq DEF Below, Busy
<1>9. /\ DOMAIN conn' = Conns /\ conn'[k] = c /\ \A j \in Conns \ {k} : conn'[j] = conn[j]
      /\ DOMAIN client' = Servers /\ client'[s] = e
      /\ \A t \in Servers \ {s} : client'[t] = client[t]
  BY <1>3, ConnFields, ServerFields
<1>10. \A t \in Servers : client[t].sock # k
  BY <1>3, UnusedOrder, RpcSessionAssumption DEF OrderInv, Holds
<1>11. OrderedConns'
  BY <1>4, <1>7, <1>9, ConnFields DEF OrderedConns
<1>12. OwnSockets'
  <2>1. \A t \in Servers :
          /\ {"sock", "seq", "method", "pc"} \subseteq DOMAIN client'[t]
          /\ client'[t].sock \in Conns \cup {NoConn}
          /\ client'[t].seq \in Nat /\ client'[t].method \in Methods \cup {NoMethod}
          /\ client'[t].pc = "dial" => client'[t].sock = NoConn
    BY <1>5, <1>9, ServerFields
  <2>2. ASSUME NEW t \in Servers, NEW u \in Servers,
               client'[t].sock = client'[u].sock, client'[u].sock # NoConn
        PROVE  t = u
    BY <1>5, <1>9, <1>10, <2>2 DEF OrderInv, OwnSockets
  <2>3. QED
    BY <1>9, <2>1, <2>2 DEF OwnSockets
<1>13. ASSUME NEW t \in Servers PROVE Holds(client, t, conn)'
  <2>1. CASE t = s
    BY <1>4, <1>5, <1>8, <1>9, <2>1, ServerFields DEF Holds
  <2>2. CASE t # s
    <3>1. client[t].sock # k /\ client[t].sock \in Conns \cup {NoConn}
      BY <1>10, ServerFields
    <3>2. QED
      BY <1>9, <2>2, <3>1 DEF Holds, OrderInv
  <2>3. QED
    BY <2>1, <2>2
<1>14. QED
  BY <1>11, <1>12, <1>13 DEF OrderInv

\* What is sent has the next id of the server, which goes up.
LEMMA SendStepOrder ==
  ASSUME OrderInv, NEW s \in Servers, Send(s)
  PROVE  OrderInv'
<1> DEFINE k == client[s].sock
<1>1. PICK q : q = conn[k].toServer \o IF ServerLost(k) THEN <<>>
                                       ELSE Request(client[s].seq, client[s].method)
  OBVIOUS
<1>2. PICK c : c = [conn[k] EXCEPT !.toServer = q]
  OBVIOUS
<1>3. PICK e : e = [client[s] EXCEPT !.pc = "header", !.seq = client[s].seq + 1]
  OBVIOUS
<1>4. conn' = [conn EXCEPT ![k] = c] /\ client' = [client EXCEPT ![s] = e]
  BY <1>1, <1>2, <1>3 DEF Send
<1>5. /\ DOMAIN client = Servers /\ client[s].sock \in Conns \cup {NoConn}
      /\ client[s].seq \in Nat /\ client[s].method \in Methods \cup {NoMethod}
  BY ServerFields
<1>6. /\ {"sock", "seq", "method", "pc"} \subseteq DOMAIN e /\ e.sock = client[s].sock
      /\ e.pc = "header" /\ e.seq = client[s].seq + 1 /\ e.method = client[s].method
  BY <1>3, ServerFields
<1>7. GoesOn(client[s], e)
  BY <1>5, <1>6 DEF GoesOn
<1>8. CASE k \notin Conns
  <2>1. DOMAIN conn' = Conns /\ \A j \in Conns : conn'[j] = conn[j]
    BY <1>4, <1>8 DEF OrderInv, OrderedConns
  <2>2. Tame
    BY <2>1, ConnFields DEF Tame
  <2>3. QED
    BY <1>4, <1>7, <2>2, ServerOrder
<1>9. CASE k \in Conns
  <2>1. /\ Fields \subseteq DOMAIN c /\ c.served = conn[k].served /\ c.toServer = q
        /\ c.id = conn[k].id /\ c.thread = conn[k].thread
    BY <1>2, <1>9, ConnFields DEF Fields
  <2>2. InOrder(conn[k]) /\ conn[k].toServer \in Seq(Frames)
    BY <1>9, ConnFields
  <2>3. client[s].sock # NoConn
    BY <1>9, RpcSessionAssumption
  <2>4. Below(conn[k], client[s].seq) /\ conn[k].thread # "unused"
    BY <2>3 DEF OrderInv, Holds
  <2>5. InOrder(c) /\ Below(c, client[s].seq + 1)
    <3>1. CASE ServerLost(k)
      <4>1. q = conn[k].toServer
        <5>1. conn[k].toServer \o <<>> = conn[k].toServer
          BY <2>2, ConcatEmptySeq
        <5>2. QED
          BY <1>1, <3>1, <5>1
      <4>2. InOrder(c) /\ \A n \in Nat : Below(conn[k], n) => Below(c, n)
        BY <2>1, <2>2, <4>1, StayOrder DEF Busy, InOrder
      <4>3. QED
        BY <1>5, <2>4, <4>2, BelowGrows
    <3>2. CASE ~ServerLost(k)
      <4>1. c.toServer = conn[k].toServer \o Request(client[s].seq, client[s].method)
        BY <1>1, <2>1, <3>2
      <4>2. QED
        BY <1>5, <2>1, <2>2, <2>4, <4>1, SendOrder
    <3>3. QED
      BY <3>1, <3>2
  <2>6. /\ DOMAIN conn' = Conns /\ conn'[k] = c /\ \A j \in Conns \ {k} : conn'[j] = conn[j]
        /\ DOMAIN client' = Servers /\ client'[s] = e
        /\ \A t \in Servers \ {s} : client'[t] = client[t]
    BY <1>4, <1>5, <1>9, ConnFields
  <2>7. OrderedConns'
    BY <2>1, <2>5, <2>6, ConnFields DEF OrderedConns
  <2>8. OwnSockets'
    <3>1. \A t \in Servers :
            /\ {"sock", "seq", "method", "pc"} \subseteq DOMAIN client'[t]
            /\ client'[t].sock = client[t].sock /\ client'[t].sock \in Conns \cup {NoConn}
            /\ client'[t].seq \in Nat /\ client'[t].method \in Methods \cup {NoMethod}
            /\ client'[t].pc = "dial" => client'[t].sock = NoConn
      BY <1>5, <1>6, <2>6, ServerFields
    <3>2. QED
      BY <2>6, <3>1 DEF OrderInv, OwnSockets
  <2>9. ASSUME NEW t \in Servers PROVE Holds(client, t, conn)'
    <3>1. CASE t = s
      BY <1>6, <2>1, <2>4, <2>5, <2>6, <3>1 DEF Holds
    <3>2. CASE t # s
      <4>1. client'[t] = client[t] /\ (client[t].sock # NoConn => client[t].sock # k)
        BY <2>3, <2>6, <3>2 DEF OrderInv, OwnSockets
      <4>2. client[t].sock \in Conns \cup {NoConn}
        BY ServerFields
      <4>3. QED
        BY <2>6, <4>1, <4>2 DEF Holds, OrderInv
    <3>3. QED
      BY <3>1, <3>2
  <2>10. QED
    BY <2>7, <2>8, <2>9 DEF OrderInv
<1>10. QED
  BY <1>8, <1>9

\* The steps of a connection's thread, and of the network.
LEMMA ReadTame ==
  ASSUME OrderInv, NEW k \in Conns, NEW c, conn' = [conn EXCEPT ![k] = c],
         conn[k].toServer # <<>>, Fields \subseteq DOMAIN c, c.served = conn[k].served,
         c.toServer = Tail(conn[k].toServer), c.thread # "unused", c.id \in Nat,
         Busy(c) => \/ Busy(conn[k]) /\ c.id = conn[k].id
                    \/ /\ Head(conn[k].toServer).kind = "request"
                       /\ c.id = Head(conn[k].toServer).id
  PROVE  Tame
<1>1. InOrder(conn[k]) /\ conn[k].toServer \in Seq(Frames)
  BY ConnFields
<1>2. /\ c.toServer \in Seq(Frames) /\ Left(conn[k].toServer, c.toServer, 1)
      /\ Head(conn[k].toServer) = conn[k].toServer[1]
  BY <1>1, TailLeft
<1>3. 1 \in DOMAIN conn[k].toServer
  <2>1. /\ Len(conn[k].toServer) \in Nat /\ DOMAIN conn[k].toServer = 1 .. Len(conn[k].toServer)
    BY <1>1, SeqFacts
  <2>2. Len(conn[k].toServer) # 0
    BY <1>1, EmptySeq
  <2>3. QED
    BY <2>1, <2>2
<1>4. Busy(c) => \/ Busy(conn[k]) /\ c.id = conn[k].id
                 \/ /\ 1 = 1 /\ 1 \in DOMAIN conn[k].toServer
                    /\ conn[k].toServer[1].kind = "request" /\ c.id = conn[k].toServer[1].id
  BY <1>2, <1>3
<1>5. InOrder(c) /\ \A n \in Nat : Below(conn[k], n) => Below(c, n)
  BY <1>1, <1>2, <1>4, ReadOrder
<1>6. QED
  BY <1>5, TameOne

LEMMA StayTame ==
  ASSUME OrderInv, NEW k \in Conns, NEW c, conn' = [conn EXCEPT ![k] = c],
         Fields \subseteq DOMAIN c, c.served = conn[k].served, c.toServer = conn[k].toServer,
         c.thread # "unused" \/ c.thread = conn[k].thread, c.id \in Nat,
         Busy(c) => Busy(conn[k]) /\ c.id = conn[k].id
  PROVE  Tame
<1>1. InOrder(c) /\ \A n \in Nat : Below(conn[k], n) => Below(c, n)
  BY ConnFields, StayOrder
<1>2. QED
  BY <1>1, TameOne

LEMMA NetworkOrder ==
  ASSUME OrderInv, NEW k \in Conns, NetworkBreaks(k) \/ FrameLost(k)
  PROVE  Tame
<1>1. CASE NetworkBreaks(k)
  <2>1. PICK c : c = [conn[k] EXCEPT !.reset = TRUE]
    OBVIOUS
  <2>2. conn' = [conn EXCEPT ![k] = c]
    BY <1>1, <2>1 DEF NetworkBreaks
  <2>3. /\ Fields \subseteq DOMAIN c /\ c.served = conn[k].served
        /\ c.toServer = conn[k].toServer /\ c.id = conn[k].id /\ c.thread = conn[k].thread
    BY <2>1, ConnFields DEF Fields
  <2>4. QED
    BY <2>2, <2>3, ConnFields, StayTame DEF Busy
<1>2. ASSUME conn[k].toServer # <<>>, conn' = [conn EXCEPT ![k].toServer = Front(@)]
      PROVE  Tame
  <2>1. PICK c : c = [conn[k] EXCEPT !.toServer = Front(conn[k].toServer)]
    OBVIOUS
  <2>2. conn' = [conn EXCEPT ![k] = c]
    BY <1>2, <2>1
  <2>3. /\ Fields \subseteq DOMAIN c /\ c.served = conn[k].served
        /\ c.toServer = Front(conn[k].toServer) /\ c.id = conn[k].id /\ c.thread = conn[k].thread
    BY <2>1, ConnFields DEF Fields
  <2>4. /\ c.toServer \in Seq(Frames) /\ Left(conn[k].toServer, c.toServer, 0)
        /\ InOrder(conn[k]) /\ c.id \in Nat
    BY <1>2, <2>3, ConnFields, FrontLeft
  <2>5. Busy(c) => Busy(conn[k]) /\ c.id = conn[k].id
    BY <2>3 DEF Busy
  <2>6. InOrder(c) /\ \A n \in Nat : Below(conn[k], n) => Below(c, n)
    BY <2>3, <2>4, <2>5, ReadOrder
  <2>7. QED
    BY <2>2, <2>3, <2>6, TameOne
<1>3. CASE FrameLost(k)
  <2>1. CASE conn' = [conn EXCEPT ![k].toClient = Front(@)]
    BY <2>1, TameReply
  <2>2. QED
    BY <1>2, <1>3, <2>1 DEF FrameLost
<1>4. QED
  BY <1>1, <1>3

\* Frames that are read and start no call.
LEMMA ReadsOrder ==
  ASSUME OrderInv, NEW k \in Conns, NEW from, NEW to \in {"header", "disconnect", "call"}, NEW out,
         Reads(k, from, to, out), to = "call" => from = "body"
  PROVE  Tame
<1>1. PICK q : q = Sent(k, out)
  OBVIOUS
<1>2. PICK c : c = [conn[k] EXCEPT !.thread = to, !.toServer = Tail(conn[k].toServer), !.toClient = q]
  OBVIOUS
<1>3. conn' = [conn EXCEPT ![k] = c] /\ conn[k].toServer # <<>> /\ conn[k].thread = from
  BY <1>1, <1>2 DEF Reads
<1>4. /\ Fields \subseteq DOMAIN c /\ c.served = conn[k].served
      /\ c.toServer = Tail(conn[k].toServer) /\ c.id = conn[k].id /\ c.thread = to
  BY <1>2, ConnFields DEF Fields
<1>5. c.id \in Nat /\ c.thread # "unused" /\ (Busy(c) => Busy(conn[k]) /\ c.id = conn[k].id)
  BY <1>3, <1>4, ConnFields DEF Busy
<1>6. QED
  BY <1>3, <1>4, <1>5, ReadTame

\* The daemon's end of some connections closes.
LEMMA GoneTame ==
  ASSUME OrderInv, NEW cn, conn' = Settled(cn, client), client' = client,
         \A j \in Conns : \/ cn[j] = conn[j]
                          \/ cn[j] = [conn[j] EXCEPT !.thread = "gone", !.addr = NoAddress]
  PROVE  Tame
<1>1. ASSUME NEW j \in Conns
      PROVE  /\ Fields \subseteq DOMAIN cn[j] /\ InOrder(cn[j])
             /\ \A n \in Nat : Below(conn[j], n) => Below(cn[j], n)
             /\ conn[j].thread # "unused" => cn[j].thread # "unused"
  <2>1. CASE cn[j] = conn[j]
    BY <2>1, ConnFields
  <2>2. CASE cn[j] = [conn[j] EXCEPT !.thread = "gone", !.addr = NoAddress]
    <3>1. PICK c : c = cn[j]
      OBVIOUS
    <3>2. /\ Fields \subseteq DOMAIN c /\ c.served = conn[j].served
          /\ c.toServer = conn[j].toServer /\ c.id = conn[j].id /\ c.thread = "gone"
      BY <2>2, <3>1, ConnFields DEF Fields
    <3>3. InOrder(c) /\ \A n \in Nat : Below(conn[j], n) => Below(c, n)
      BY <3>2, ConnFields, StayOrder DEF Busy
    <3>4. QED
      BY <3>1, <3>2, <3>3
  <2>3. QED
    BY <2>1, <2>2
<1>2. DOMAIN conn' = Conns
  BY DEF Settled
<1>3. ASSUME NEW j \in Conns
      PROVE  /\ Fields \subseteq DOMAIN conn'[j] /\ InOrder(conn'[j])
             /\ \A n \in Nat : Below(conn[j], n) => Below(conn'[j], n)
             /\ Held(j, client') /\ conn[j].thread # "unused" => conn'[j].thread # "unused"
  <2>1. /\ Fields \subseteq DOMAIN conn'[j] /\ InOrder(conn'[j])
        /\ \A n \in Nat : Below(cn[j], n) => Below(conn'[j], n)
        /\ Held(j, client) => conn'[j].thread = cn[j].thread
    BY <1>1, SettledOrder
  <2>2. QED
    BY <1>1, <2>1
<1>4. QED
  BY <1>2, <1>3 DEF Tame

LEMMA ThreadOrder ==
  ASSUME OrderInv, NEW k \in Conns, Accept(k) \/ ServeProc(k)
  PROVE  Tame
<1>1. CASE Accept(k)
  <2>1. PICK a \in Addresses : conn' = [conn EXCEPT ![k].thread = "handshake", ![k].addr = a]
    BY <1>1 DEF Accept
  <2>2. PICK c : c = [conn[k] EXCEPT !.thread = "handshake", !.addr = a]
    OBVIOUS
  <2>3. conn' = [conn EXCEPT ![k] = c]
    BY <2>1, <2>2
  <2>4. /\ Fields \subseteq DOMAIN c /\ c.served = conn[k].served
        /\ c.toServer = conn[k].toServer /\ c.id = conn[k].id /\ c.thread = "handshake"
    BY <2>2, ConnFields DEF Fields
  <2>5. QED
    BY <2>3, <2>4, ConnFields, StayTame DEF Busy
<1>2. CASE Handshake(k)
  BY <1>2, ReadsOrder DEF Handshake
<1>3. CASE UnknownMethod(k)
  BY <1>3, ReadsOrder DEF UnknownMethod
<1>4. CASE BodyAsHeader(k)
  BY <1>4, ReadsOrder DEF BodyAsHeader
<1>5. CASE ReadBody(k)
  BY <1>5, ReadsOrder DEF ReadBody
<1>6. CASE ReadHeader(k)
  <2>1. PICK f : f = Head(conn[k].toServer)
    OBVIOUS
  <2>2. PICK c : c = [conn[k] EXCEPT !.thread = "body", !.toServer = Tail(conn[k].toServer),
                                     !.id = f.id, !.method = f.method]
    OBVIOUS
  <2>3. /\ conn' = [conn EXCEPT ![k] = c] /\ conn[k].toServer # <<>>
        /\ f.kind = "request"
    BY <1>6, <2>1, <2>2 DEF ReadHeader
  <2>4. /\ Fields \subseteq DOMAIN c /\ c.served = conn[k].served
        /\ c.toServer = Tail(conn[k].toServer) /\ c.id = f.id /\ c.thread = "body"
    BY <2>2, ConnFields DEF Fields
  <2>5. f \in Frames
    BY <2>1, <2>3, ConnFields, TailLeft
  <2>6. c.id \in Nat
    BY <2>3, <2>4, <2>5, FrameId
  <2>7. QED
    BY <2>1, <2>3, <2>4, <2>6, ReadTame
<1>7. CASE CallMethod(k)
  <2>1. PICK c : c = [conn[k] EXCEPT !.thread = "reply", !.served = Append(conn[k].served, conn[k].id)]
    OBVIOUS
  <2>2. conn' = [conn EXCEPT ![k] = c] /\ conn[k].thread = "call"
    BY <1>7, <2>1 DEF CallMethod
  <2>3. /\ Fields \subseteq DOMAIN c /\ c.served = Append(conn[k].served, conn[k].id)
        /\ c.toServer = conn[k].toServer /\ c.id = conn[k].id /\ c.thread = "reply"
    BY <2>1, ConnFields DEF Fields
  <2>4. InOrder(c) /\ \A n \in Nat : Below(conn[k], n) => Below(c, n)
    BY <2>2, <2>3, ConnFields, ServeOrder DEF Busy
  <2>5. QED
    BY <2>2, <2>3, <2>4, TameOne
<1>8. CASE SendResponse(k)
  <2>1. PICK q : q = Sent(k, Response(conn[k].id, FALSE))
    OBVIOUS
  <2>2. PICK c : c = [conn[k] EXCEPT !.thread = "header", !.id = 0, !.method = NoMethod, !.toClient = q]
    OBVIOUS
  <2>3. conn' = [conn EXCEPT ![k] = c]
    BY <1>8, <2>1, <2>2 DEF SendResponse
  <2>4. /\ Fields \subseteq DOMAIN c /\ c.served = conn[k].served
        /\ c.toServer = conn[k].toServer /\ c.id = 0 /\ c.thread = "header"
    BY <2>2, ConnFields DEF Fields
  <2>5. c.id \in Nat /\ c.thread # "unused" /\ ~Busy(c)
    BY <2>4 DEF Busy
  <2>6. QED
    BY <2>3, <2>4, <2>5, StayTame
<1>9. CASE ConnFails(k)
  <2>1. PICK c : c = [conn[k] EXCEPT !.thread = "disconnect", !.id = 0, !.method = NoMethod]
    OBVIOUS
  <2>2. conn' = [conn EXCEPT ![k] = c]
    BY <1>9, <2>1 DEF ConnFails
  <2>3. /\ Fields \subseteq DOMAIN c /\ c.served = conn[k].served
        /\ c.toServer = conn[k].toServer /\ c.id = 0 /\ c.thread = "disconnect"
    BY <2>1, ConnFields DEF Fields
  <2>4. c.id \in Nat /\ c.thread # "unused" /\ ~Busy(c)
    BY <2>3 DEF Busy
  <2>5. QED
    BY <2>2, <2>3, <2>4, StayTame
<1>10. CASE Disconnect(k)
  <2>1. PICK c : c = [conn[k] EXCEPT !.thread = "delete"]
    OBVIOUS
  <2>2. conn' = [conn EXCEPT ![k] = c]
    BY <1>10, <2>1 DEF Disconnect, ThreadGoes
  <2>3. /\ Fields \subseteq DOMAIN c /\ c.served = conn[k].served
        /\ c.toServer = conn[k].toServer /\ c.id = conn[k].id /\ c.thread = "delete"
    BY <2>1, ConnFields DEF Fields
  <2>4. QED
    BY <2>2, <2>3, ConnFields, StayTame DEF Busy
<1>11. CASE DeleteConn(k)
  <2>1. PICK cn : cn = [conn EXCEPT ![k].thread = "gone", ![k].addr = NoAddress]
    OBVIOUS
  <2>2. conn' = Settled(cn, client) /\ client' = client
    BY <1>11, <2>1 DEF DeleteConn
  <2>3. \A j \in Conns : cn[j] = conn[j] \/ cn[j] = [conn[j] EXCEPT !.thread = "gone", !.addr = NoAddress]
    BY <2>1, ConnFields
  <2>4. QED
    BY <2>2, <2>3, GoneTame
<1>12. QED
  BY <1>1, <1>2, <1>3, <1>4, <1>5, <1>6, <1>7, <1>8, <1>9, <1>10, <1>11 DEF ServeProc

LEMMA DieOrder ==
  ASSUME OrderInv, Die
  PROVE  Tame
<1>1. PICK cn : cn = [k \in Conns |-> IF conn[k] = Unused THEN Unused
                        ELSE [conn[k] EXCEPT !.thread = "gone", !.addr = NoAddress]]
  OBVIOUS
<1>2. conn' = Settled(cn, client) /\ client' = client
  BY <1>1 DEF Die
<1>3. \A j \in Conns : \/ cn[j] = conn[j]
                       \/ cn[j] = [conn[j] EXCEPT !.thread = "gone", !.addr = NoAddress]
  BY <1>1
<1>4. QED
  BY <1>2, <1>3, GoneTame

LEMMA OrderInit == Init => OrderInv
<1> SUFFICES ASSUME Init PROVE OrderInv
  OBVIOUS
<1>1. OrderedConns
  BY UnusedOrder DEF Init, OrderedConns
<1>2. /\ DOMAIN client = Servers
      /\ \A s \in Servers :
           /\ {"sock", "seq", "method", "pc"} \subseteq DOMAIN client[s]
           /\ client[s].sock = NoConn /\ client[s].seq = 0 /\ client[s].method = NoMethod
  BY DEF Init, NewClient
<1>3. OwnSockets
  BY <1>2 DEF OwnSockets
<1>4. \A s \in Servers : Holds(client, s, conn)
  BY <1>2 DEF Holds
<1>5. QED
  BY <1>1, <1>3, <1>4 DEF OrderInv

LEMMA OrderNext == OrderInv /\ [Next]_vars => OrderInv'
<1> SUFFICES ASSUME OrderInv, [Next]_vars PROVE OrderInv'
  OBVIOUS
<1>1. ASSUME NEW s \in Servers,
             GameInit(s) \/ (\E m \in Methods : Call(s, m)) \/ CallStep(s) \/ Shutdown(s)
      PROVE  OrderInv'
  <2>1. CASE \E k \in Conns : Dial(s, k)
    BY <2>1, DialOrder
  <2>2. CASE Send(s)
    BY <2>2, SendStepOrder
  <2>3. CASE \/ GameInit(s) \/ (\E m \in Methods : Call(s, m)) \/ DialFails(s) \/ SendFails(s)
             \/ Hello(s) \/ RecvHeader(s) \/ RecvBody(s) \/ RecvFails(s) \/ Shutdown(s)
    BY <2>3, CallOrder
  <2>4. QED
    BY <1>1, <2>1, <2>2, <2>3 DEF CallStep
<1>2. ASSUME NEW k \in Conns, NetworkBreaks(k) \/ FrameLost(k) PROVE OrderInv'
  <2>1. client' = client
    BY <1>2 DEF NetworkBreaks, FrameLost
  <2>2. QED
    BY <1>2, <2>1, NetworkOrder, DaemonOrder
<1>3. ASSUME NEW k \in Conns, Accept(k) \/ ServeProc(k) PROVE OrderInv'
  <2>1. client' = client
    BY <1>3 DEF Accept, ServeProc, Handshake, ReadHeader, UnknownMethod, BodyAsHeader, ReadBody,
                CallMethod, SendResponse, ConnFails, Disconnect, DeleteConn
  <2>2. QED
    BY <1>3, <2>1, ThreadOrder, DaemonOrder
<1>4. CASE Die
  <2>1. client' = client
    BY <1>4 DEF Die
  <2>2. QED
    BY <1>4, <2>1, DieOrder, DaemonOrder
<1>5. ASSUME NEW k \in Conns, CommandCrashes(k) PROVE OrderInv'
  BY <1>4, <1>5 DEF CommandCrashes
<1>6. CASE Start \/ UNCHANGED vars
  <2>1. client' = client /\ conn' = conn
    BY <1>6 DEF Start, vars
  <2>2. QED
    BY <2>1, TameSame, DaemonOrder
<1>7. QED
  BY <1>1, <1>2, <1>3, <1>4, <1>5, <1>6 DEF Next

\* Whatever breaks, is lost or restarts, a connection's calls are executed in
\* the order the client made them in, none twice: the id of a request is above
\* those of all that its connection has carried.
THEOREM CallsServedInOrder == Spec => []ServedInOrder
<1>1. OrderInv => ServedInOrder
  BY DEF OrderInv, OrderedConns, InOrder, ServedInOrder
<1>2. QED
  BY <1>1, OrderInit, OrderNext, PTL DEF Spec

-------------------------------------------------------------------------------
(* What a client reads off its connection, and whose answer it is.         *)
(*                                                                         *)
(* The invariant is about a client e and the connection c it holds; what   *)
(* is under way on a connection nobody holds is never read by a client.    *)

Replies == {Ok, Denied} \cup [kind : {"response"}, id : Nat, error : BOOLEAN]
                        \cup [kind : {"body"}, id : Nat]

ConnField == {"thread", "id", "served", "toServer", "toClient", "reset"}

\* The call id has been executed on c.
Executed(c, id) == \E i \in DOMAIN c.served : c.served[i] = id

Lost(c) == c.thread = "gone" \/ c.reset

\* Until the daemon has answered the key it has read nothing else and sent
\* nothing; its answer is all there is until the client has read it.
Opening(e, c) ==
  IF e.pc = "hello"
    THEN \/ /\ c.thread \in {"backlog", "handshake"}
            /\ c.toClient = <<>> /\ c.toServer \in {<<>>, <<Key>>}
         \/ c.thread \in {"header", "disconnect", "delete", "gone"} /\ c.toServer = <<>>
    ELSE c.thread \notin {"backlog", "handshake"}

\* Frames come in pairs of a response and its body.
Paired(q) ==
  \A i \in DOMAIN q : i + 1 \in DOMAIN q =>
    \/ q[i].kind = "response" /\ q[i + 1].kind = "body" /\ q[i + 1].id = q[i].id
    \/ q[i].kind = "body" /\ q[i + 1].kind = "response"

\* The client is where its stream is.
First(e, q) ==
  q # <<>> => CASE e.pc = "hello" -> q[1].kind \in {"ok", "denied"}
                [] e.pc = "body"  -> q[1].kind = "body" /\ q[1].id = e.reply.id
                [] OTHER          -> q[1].kind = "response"

\* No response is without its body while the connection lasts.
Whole(e, c) ==
  ~Lost(c) => IF c.toClient = <<>> THEN e.pc # "body"
              ELSE c.toClient[Len(c.toClient)].kind # "response"

\* What is answered without an error has been executed.
Answered(e, c) ==
  /\ \A i \in DOMAIN c.toClient :
       c.toClient[i].kind = "response" =>
         c.toClient[i].error = TRUE \/ Executed(c, c.toClient[i].id)
  /\ c.thread = "reply" => Executed(c, c.id)
  /\ e.pc = "body" => e.reply.error = TRUE \/ Executed(c, e.reply.id)
  /\ \A r \in e.result : r.answer = r.call /\ Executed(c, r.call)

Wire(e, c) ==
  /\ ConnField \subseteq DOMAIN c /\ c.toClient \in Seq(Replies)
  /\ Opening(e, c) /\ Paired(c.toClient) /\ First(e, c.toClient) /\ Whole(e, c) /\ Answered(e, c)

\* A client without a connection has nothing to answer for.
Resting(e) ==
  /\ {"pc", "sock", "reply", "result"} \subseteq DOMAIN e
  /\ e.sock = NoConn \/ e.pc = "hello" => e.result = {}
  /\ e.sock = NoConn => e.pc \in {"idle", "dial"}

WireInv ==
  /\ OrderInv
  /\ \A s \in Servers : Resting(client[s])
  /\ \A s \in Servers : client[s].sock # NoConn => Wire(client[s], conn[client[s].sock])

-------------------------------------------------------------------------------
(* Streams.                                                                *)

LEMMA TailStream ==
  ASSUME NEW S, NEW q \in Seq(S), q # <<>>, Paired(q)
  PROVE  /\ Tail(q) \in Seq(S) /\ Paired(Tail(q)) /\ Head(q) = q[1] /\ 1 \in DOMAIN q
         /\ \A i \in DOMAIN Tail(q) : \E j \in DOMAIN q : Tail(q)[i] = q[j]
         /\ Tail(q) = <<>> => q[Len(q)] = q[1]
         /\ Tail(q) # <<>> => /\ 2 \in DOMAIN q /\ Tail(q)[1] = q[2]
                              /\ Tail(q)[Len(Tail(q))] = q[Len(q)]
<1>1. /\ Tail(q) \in Seq(S) /\ Len(Tail(q)) = Len(q) - 1
      /\ \A i \in 1 .. Len(Tail(q)) : Tail(q)[i] = q[i + 1]
      /\ Head(q) = q[1]
  BY HeadTailProperties
<1>2. PICK r : r = Tail(q)
  OBVIOUS
<1>3. /\ Len(q) \in Nat /\ DOMAIN q = 1 .. Len(q)
      /\ Len(r) \in Nat /\ DOMAIN r = 1 .. Len(r) /\ r \in Seq(S)
  BY <1>1, <1>2, SeqFacts
<1>4. Len(r) = Len(q) - 1 /\ \A i \in 1 .. Len(r) : r[i] = q[i + 1]
  BY <1>1, <1>2
<1>5. \A i \in DOMAIN r : i + 1 \in DOMAIN q /\ r[i] = q[i + 1]
  BY <1>3, <1>4
<1>6. Paired(r)
  <2> SUFFICES ASSUME NEW i \in DOMAIN r, i + 1 \in DOMAIN r
               PROVE  \/ r[i].kind = "response" /\ r[i + 1].kind = "body" /\ r[i + 1].id = r[i].id
                      \/ r[i].kind = "body" /\ r[i + 1].kind = "response"
    BY DEF Paired
  <2>1. r[i] = q[i + 1] /\ r[i + 1] = q[(i + 1) + 1] /\ i + 1 \in DOMAIN q /\ (i + 1) + 1 \in DOMAIN q
    BY <1>5
  <2>2. QED
    BY <2>1 DEF Paired
<1>7. r = <<>> => q[Len(q)] = q[1]
  <2>1. ASSUME r = <<>> PROVE Len(q) = 1
    BY <1>3, <1>4, <2>1, EmptySeq
  <2>2. QED
    BY <2>1
<1>8. ASSUME r # <<>> PROVE 2 \in DOMAIN q /\ r[1] = q[2] /\ r[Len(r)] = q[Len(q)]
  <2>1. Len(r) # 0
    BY <1>3, <1>8, EmptySeq
  <2>2. 1 \in 1 .. Len(r) /\ Len(r) \in 1 .. Len(r) /\ Len(r) + 1 = Len(q) /\ 2 \in 1 .. Len(q)
    BY <1>3, <1>4, <2>1
  <2>3. r[1] = q[1 + 1] /\ r[Len(r)] = q[Len(r) + 1]
    BY <1>4, <2>2
  <2>4. QED
    BY <1>3, <2>2, <2>3
<1>9. 1 \in DOMAIN q
  <2>1. Len(q) # 0
    BY <1>3, EmptySeq
  <2>2. QED
    BY <1>3, <2>1
<1>10. QED
  BY <1>1, <1>2, <1>3, <1>5, <1>6, <1>7, <1>8, <1>9

LEMMA FrontStream ==
  ASSUME NEW S, NEW q \in Seq(S), q # <<>>, Paired(q)
  PROVE  /\ Front(q) \in Seq(S) /\ Paired(Front(q))
         /\ \A i \in DOMAIN Front(q) : i \in DOMAIN q /\ Front(q)[i] = q[i]
         /\ Front(q) # <<>> => 1 \in DOMAIN Front(q)
<1>1. PICK r : r = Front(q)
  OBVIOUS
<1>2. r \in Seq(S) /\ Left(q, r, 0)
  BY <1>1, FrontLeft
<1>3. Len(r) \in Nat /\ DOMAIN r = 1 .. Len(r) /\ Len(q) \in Nat /\ DOMAIN q = 1 .. Len(q)
  BY <1>2, SeqFacts
<1>4. \A i \in DOMAIN r : i \in DOMAIN q /\ r[i] = q[i]
  <2>1. ASSUME NEW i \in DOMAIN r PROVE i + 0 = i
    BY <1>3
  <2>2. QED
    BY <1>2, <2>1 DEF Left
<1>5. Paired(r)
  BY <1>4 DEF Paired
<1>6. r # <<>> => 1 \in DOMAIN r
  <2>1. r # <<>> => Len(r) # 0
    BY <1>2, EmptySeq
  <2>2. QED
    BY <1>3, <2>1
<1>7. QED
  BY <1>1, <1>2, <1>4, <1>5, <1>6

\* An answer is sent whole, after whole answers.
LEMMA ResponseStream ==
  ASSUME NEW q \in Seq(Replies), Paired(q),
         q # <<>> => q[Len(q)].kind = "body",
         NEW id \in Nat, NEW err \in BOOLEAN
  PROVE  LET r == q \o Response(id, err) IN
           /\ r \in Seq(Replies) /\ Paired(r) /\ r # <<>> /\ r[Len(r)].kind = "body"
           /\ r[1] = IF q = <<>> THEN [kind |-> "response", id |-> id, error |-> err] ELSE q[1]
           /\ \A i \in DOMAIN r : \/ i \in DOMAIN q /\ r[i] = q[i]
                                  \/ r[i] = [kind |-> "response", id |-> id, error |-> err]
                                  \/ r[i].kind = "body"
<1> DEFINE n == Len(q)
<1>1. PICK p : p = Response(id, err)
  OBVIOUS
<1>2. /\ p \in Seq(Replies) /\ Len(p) = 2
      /\ p[1] = [kind |-> "response", id |-> id, error |-> err]
      /\ p[1].kind = "response" /\ p[1].id = id /\ p[2].kind = "body" /\ p[2].id = id
  BY <1>1 DEF Response, Body, Replies
<1>3. n \in Nat /\ DOMAIN q = 1 .. n /\ (q # <<>> => n # 0) /\ (q = <<>> => n = 0)
  BY SeqFacts, EmptySeq
<1>4. PICK r : r = q \o p
  OBVIOUS
<1>5. /\ r \in Seq(Replies) /\ Len(r) = n + 2
      /\ \A i \in 1 .. n + 2 : r[i] = IF i <= n THEN q[i] ELSE p[i - n]
  <2>1. /\ q \o p \in Seq(Replies) /\ Len(q \o p) = Len(q) + Len(p)
        /\ \A i \in 1 .. Len(q) + Len(p) :
             (q \o p)[i] = IF i <= Len(q) THEN q[i] ELSE p[i - Len(q)]
    BY ONLY <1>2, q \in Seq(Replies), ConcatProperties
  <2>2. QED
    BY <1>2, <1>4, <2>1
<1>6. DOMAIN r = 1 .. n + 2
  BY <1>5, SeqFacts
<1>7. /\ \A i \in 1 .. n : r[i] = q[i]
      /\ r[n + 1] = p[1] /\ r[n + 2] = p[2]
  <2>1. \A i \in 1 .. n : i \in 1 .. n + 2 /\ i <= n
    BY <1>3
  <2>2. n + 1 \in 1 .. n + 2 /\ ~(n + 1 <= n) /\ (n + 1) - n = 1
    BY <1>3
  <2>3. n + 2 \in 1 .. n + 2 /\ ~(n + 2 <= n) /\ (n + 2) - n = 2
    BY <1>3
  <2>4. QED
    BY <1>5, <2>1, <2>2, <2>3
<1>8. \A i \in 1 .. n + 2 : i \in 1 .. n \/ i = n + 1 \/ i = n + 2
  BY <1>3
<1>9. Paired(r)
  <2> SUFFICES ASSUME NEW i \in 1 .. n + 2, i + 1 \in 1 .. n + 2
               PROVE  \/ r[i].kind = "response" /\ r[i + 1].kind = "body" /\ r[i + 1].id = r[i].id
                      \/ r[i].kind = "body" /\ r[i + 1].kind = "response"
    BY <1>6 DEF Paired
  <2>1. CASE i + 1 \in 1 .. n
    <3>1. i \in 1 .. n
      BY <2>1, <1>3
    <3>2. r[i] = q[i] /\ r[i + 1] = q[i + 1]
      BY <1>7, <2>1, <3>1
    <3>3. QED
      BY <1>3, <2>1, <3>1, <3>2 DEF Paired
  <2>2. CASE i = n
    <3>1. q # <<>> /\ r[i] = q[n] /\ r[i + 1] = p[1]
      BY <1>3, <1>7, <2>2
    <3>2. QED
      BY <1>2, <3>1
  <2>3. CASE i = n + 1
    <3>1. i + 1 = n + 2
      BY <1>3, <2>3
    <3>2. r[i] = p[1] /\ r[i + 1] = p[2]
      BY <1>7, <2>3, <3>1
    <3>3. QED
      BY <1>2, <3>2
  <2>4. i + 1 \in 1 .. n \/ i = n \/ i = n + 1
    <3>1. n \in Nat /\ i \in Nat /\ 1 <= i /\ i <= n + 1
      BY <1>3
    <3>2. QED
      BY <3>1
  <2>5. QED
    BY <2>1, <2>2, <2>3, <2>4
<1>10. r # <<>> /\ r[Len(r)].kind = "body"
  BY <1>2, <1>3, <1>5, <1>7, EmptySeq
<1>11. r[1] = IF q = <<>> THEN [kind |-> "response", id |-> id, error |-> err] ELSE q[1]
  <2>1. CASE q = <<>>
    <3>1. r[0 + 1] = p[1]
      BY <1>3, <1>7, <2>1
    <3>2. QED
      BY <1>2, <2>1, <3>1
  <2>2. CASE q # <<>>
    BY <1>3, <1>7, <2>2
  <2>3. QED
    BY <2>1, <2>2
<1>12. \A i \in DOMAIN r : \/ i \in DOMAIN q /\ r[i] = q[i]
                           \/ r[i] = [kind |-> "response", id |-> id, error |-> err]
                           \/ r[i].kind = "body"
  BY <1>2, <1>3, <1>6, <1>7, <1>8
<1>13. QED
  BY <1>1, <1>4, <1>5, <1>9, <1>10, <1>11, <1>12

-------------------------------------------------------------------------------
(* What a step of the daemon or the network does to a connection.          *)

\* Nothing is sent, and nothing that has been executed is forgotten.
LEMMA QuietWire ==
  ASSUME NEW e, NEW c, Wire(e, c), NEW d, ConnField \subseteq DOMAIN d,
         d.toClient = c.toClient, Lost(c) => Lost(d), Opening(e, d),
         \A id : Executed(c, id) => Executed(d, id),
         d.thread = "reply" => Executed(d, d.id)
  PROVE  Wire(e, d)
<1>1. Whole(e, d)
  BY DEF Wire, Whole
<1>2. Answered(e, d)
  BY DEF Wire, Answered
<1>3. QED
  BY <1>1, <1>2 DEF Wire

\* The daemon answers a call, on a connection that may be lost.
LEMMA AnswerWire ==
  ASSUME NEW e, NEW c, Wire(e, c), e.pc # "hello",
         NEW id \in Nat, NEW err \in BOOLEAN, err = TRUE \/ Executed(c, id),
         NEW d, ConnField \subseteq DOMAIN d, d.thread = "header", c.thread # "gone",
         d.served = c.served, d.reset = c.reset,
         d.toClient = c.toClient \o IF c.reset THEN <<>> ELSE Response(id, err)
  PROVE  Wire(e, d)
<1>1. \A x : Executed(c, x) <=> Executed(d, x)
  BY DEF Executed
<1>2. Opening(e, d)
  BY DEF Opening
<1>3. c.toClient \in Seq(Replies) /\ Paired(c.toClient) /\ First(e, c.toClient)
  BY DEF Wire
<1>4. CASE c.reset
  <2>1. d.toClient = c.toClient
    <3>1. c.toClient \o <<>> = c.toClient
      BY <1>3, ConcatEmptySeq
    <3>2. QED
      BY <1>4, <3>1
  <2>2. Lost(d)
    BY <1>4 DEF Lost
  <2>3. d.thread # "reply"
    OBVIOUS
  <2>4. QED
    BY <1>1, <1>2, <2>1, <2>2, <2>3, QuietWire
<1>5. CASE ~c.reset
  <2> DEFINE q == c.toClient
             a == [kind |-> "response", id |-> id, error |-> err]
  <2>1. PICK r : r = q \o Response(id, err)
    OBVIOUS
  <2>2. d.toClient = r
    BY <1>5, <2>1
  <2>3. ~Lost(c)
    BY <1>5 DEF Lost
  <2>4. q # <<>> => q[Len(q)].kind = "body"
    <3>1. q # <<>> => q[Len(q)].kind # "response"
      BY <2>3 DEF Wire, Whole
    <3>2. ASSUME q # <<>> PROVE q[Len(q)].kind \in {"response", "body"}
      <4>1. /\ Len(q) \in Nat /\ DOMAIN q = 1 .. Len(q) /\ Len(q) # 0
        BY <1>3, <3>2, SeqFacts, EmptySeq
      <4>2. CASE Len(q) = 1
        <5>1. q[1].kind \in {"response", "body"}
          BY <1>3, <3>2 DEF First
        <5>2. QED
          BY <4>2, <5>1
      <4>3. CASE Len(q) # 1
        <5>1. PICK n \in Nat : n = Len(q)
          BY <4>1
        <5>2. n # 0 /\ n # 1 /\ DOMAIN q = 1 .. n
          BY <4>1, <4>3, <5>1
        <5>3. PICK i \in Nat : i + 1 = n
          BY <5>2
        <5>4. i \in DOMAIN q /\ i + 1 \in DOMAIN q
          BY <5>2, <5>3
        <5>5. QED
          BY <1>3, <5>1, <5>3, <5>4 DEF Paired
      <4>4. QED
        BY <4>2, <4>3
    <3>3. QED
      BY <3>1, <3>2
  <2>5. /\ r \in Seq(Replies) /\ Paired(r) /\ r # <<>> /\ r[Len(r)].kind = "body"
        /\ r[1] = IF q = <<>> THEN a ELSE q[1]
        /\ \A i \in DOMAIN r : (i \in DOMAIN q /\ r[i] = q[i]) \/ r[i] = a \/ r[i].kind = "body"
    BY <1>3, <2>1, <2>4, ResponseStream
  <2>6. First(e, r)
    <3>1. CASE q = <<>>
      <4>1. e.pc # "body" /\ r[1] = a
        BY <2>3, <2>5, <3>1 DEF Wire, Whole
      <4>2. QED
        BY <4>1 DEF First
    <3>2. CASE q # <<>>
      BY <1>3, <2>5, <3>2 DEF First
    <3>3. QED
      BY <3>1, <3>2
  <2>7. Whole(e, d)
    BY <2>2, <2>5 DEF Whole
  <2>8. Answered(e, d)
    <3>1. ASSUME NEW i \in DOMAIN r, r[i].kind = "response"
          PROVE  r[i].error = TRUE \/ Executed(d, r[i].id)
      <4>1. CASE i \in DOMAIN q /\ r[i] = q[i]
        BY <1>1, <3>1, <4>1 DEF Wire, Answered
      <4>2. CASE r[i] = a
        BY <1>1, <4>2
      <4>3. QED
        BY <2>5, <3>1, <4>1, <4>2
    <3>2. QED
      BY <1>1, <2>2, <3>1 DEF Wire, Answered
  <2>9. QED
    BY <1>2, <2>2, <2>5, <2>6, <2>7, <2>8 DEF Wire
<1>6. QED
  BY <1>4, <1>5

\* Of a connection that is lost the last frame does not arrive.
LEMMA FrontWire ==
  ASSUME NEW e, NEW c, Wire(e, c), Lost(c), c.toClient # <<>>,
         NEW d, ConnField \subseteq DOMAIN d, d.toClient = Front(c.toClient),
         d.thread = c.thread, d.reset = c.reset, d.served = c.served,
         d.id = c.id, d.toServer = c.toServer
  PROVE  Wire(e, d)
<1>1. \A x : Executed(c, x) <=> Executed(d, x)
  BY DEF Executed
<1>2. PICK r : r = Front(c.toClient)
  OBVIOUS
<1>3. /\ r \in Seq(Replies) /\ Paired(r)
      /\ \A i \in DOMAIN r : i \in DOMAIN c.toClient /\ r[i] = c.toClient[i]
      /\ r # <<>> => 1 \in DOMAIN r
  BY <1>2, FrontStream DEF Wire
<1>4. First(e, r)
  <2>1. r # <<>> => r[1] = c.toClient[1]
    BY <1>3
  <2>2. QED
    BY <2>1 DEF Wire, First
<1>5. Lost(d)
  BY DEF Lost
<1>6. Opening(e, d)
  BY DEF Wire, Opening
<1>7. Answered(e, d)
  BY <1>1, <1>2, <1>3 DEF Wire, Answered
<1>8. QED
  BY <1>2, <1>3, <1>4, <1>5, <1>6, <1>7 DEF Wire, Whole

-------------------------------------------------------------------------------
(* What a step of the client does.                                         *)

LEMMA SameWire ==
  ASSUME NEW e, NEW c, Wire(e, c), NEW f, f.pc = e.pc, f.reply = e.reply, f.result = e.result
  PROVE  Wire(f, c)
BY DEF Wire, Opening, First, Whole, Answered

\* The client begins a call, or gives one up on a connection that is lost.
LEMMA MoveWire ==
  ASSUME NEW e, NEW c, Wire(e, c), e.pc # "hello",
         e.pc = "body" => c.toClient = <<>> /\ Lost(c),
         NEW f, f.pc \notin {"hello", "body"}, f.result \in {e.result, {}}
  PROVE  Wire(f, c)
<1>1. Opening(f, c) /\ First(f, c.toClient) /\ Whole(f, c)
  BY DEF Wire, Opening, First, Whole
<1>2. Answered(f, c)
  BY DEF Wire, Answered
<1>3. QED
  BY <1>1, <1>2 DEF Wire

LEMMA SendWire ==
  ASSUME NEW e, NEW c, Wire(e, c), e.pc = "send",
         NEW f, f.pc = "header", f.result = e.result,
         NEW d, ConnField \subseteq DOMAIN d, d.toClient = c.toClient, d.thread = c.thread,
         d.reset = c.reset, d.served = c.served, d.id = c.id
  PROVE  Wire(f, d)
<1>1. Wire(f, c)
  BY MoveWire
<1>2. Opening(f, d)
  BY <1>1 DEF Wire, Opening
<1>3. \A x : Executed(c, x) => Executed(d, x)
  BY DEF Executed
<1>4. d.thread = "reply" => Executed(d, d.id)
  BY <1>1, <1>3 DEF Wire, Answered
<1>5. Lost(c) => Lost(d)
  BY DEF Lost
<1>6. QED
  BY <1>1, <1>2, <1>3, <1>4, <1>5, QuietWire

\* The frame the client reads is the head of its stream.
ReadOff(c, d) ==
  /\ ConnField \subseteq DOMAIN d /\ c.toClient # <<>> /\ d.toClient = Tail(c.toClient)
  /\ d.thread = c.thread /\ d.reset = c.reset /\ d.served = c.served
  /\ d.id = c.id /\ d.toServer = c.toServer

LEMMA ReadOffStream ==
  ASSUME NEW e, NEW c, Wire(e, c), NEW d, ReadOff(c, d)
  PROVE  /\ d.toClient \in Seq(Replies) /\ Paired(d.toClient)
         /\ Head(c.toClient) = c.toClient[1] /\ 1 \in DOMAIN c.toClient
         /\ d.toClient = <<>> => c.toClient[Len(c.toClient)] = c.toClient[1]
         /\ d.toClient # <<>> => /\ 2 \in DOMAIN c.toClient /\ d.toClient[1] = c.toClient[2]
                                 /\ d.toClient[Len(d.toClient)] = c.toClient[Len(c.toClient)]
         /\ \A x : Executed(c, x) <=> Executed(d, x)
         /\ Lost(c) <=> Lost(d)
         /\ \A i \in DOMAIN d.toClient : d.toClient[i].kind = "response" =>
              d.toClient[i].error = TRUE \/ Executed(d, d.toClient[i].id)
         /\ d.thread = "reply" => Executed(d, d.id)
         /\ \A r \in e.result : r.answer = r.call /\ Executed(d, r.call)
<1>1. c.toClient \in Seq(Replies) /\ Paired(c.toClient) /\ c.toClient # <<>>
  BY DEF Wire, ReadOff
<1>2. PICK r : r = Tail(c.toClient)
  OBVIOUS
<1>3. /\ r \in Seq(Replies) /\ Paired(r)
      /\ Head(c.toClient) = c.toClient[1] /\ 1 \in DOMAIN c.toClient
      /\ \A i \in DOMAIN r : \E j \in DOMAIN c.toClient : r[i] = c.toClient[j]
      /\ r = <<>> => c.toClient[Len(c.toClient)] = c.toClient[1]
      /\ r # <<>> => /\ 2 \in DOMAIN c.toClient /\ r[1] = c.toClient[2]
                     /\ r[Len(r)] = c.toClient[Len(c.toClient)]
  BY <1>1, <1>2, TailStream
<1>4. \A x : Executed(c, x) <=> Executed(d, x)
  BY DEF Executed, ReadOff
<1>5. Lost(c) <=> Lost(d)
  BY DEF Lost, ReadOff
<1>6. \A i \in DOMAIN r : r[i].kind = "response" => r[i].error = TRUE \/ Executed(d, r[i].id)
  BY <1>3, <1>4 DEF Wire, Answered
<1>7. /\ d.thread = "reply" => Executed(d, d.id)
      /\ \A x \in e.result : x.answer = x.call /\ Executed(d, x.call)
  BY <1>4 DEF Wire, Answered, ReadOff
<1>8. QED
  BY <1>2, <1>3, <1>4, <1>5, <1>6, <1>7 DEF ReadOff

LEMMA HelloWire ==
  ASSUME NEW e, NEW c, Wire(e, c), e.pc = "hello", NEW d, ReadOff(c, d),
         NEW f, f.pc = "send", f.result = e.result
  PROVE  Wire(f, d)
<1>1. d.toClient = <<>>
  <2>1. c.toClient[1].kind \in {"ok", "denied"}
    BY DEF Wire, First, ReadOff
  <2>2. 2 \notin DOMAIN c.toClient
    <3>1. Paired(c.toClient) /\ 1 \in DOMAIN c.toClient
      BY ReadOffStream DEF Wire
    <3>2. 1 + 1 \notin DOMAIN c.toClient
      BY <2>1, <3>1 DEF Paired
    <3>3. QED
      BY <3>2
  <2>3. QED
    BY <2>2, ReadOffStream
<1>2. Opening(f, d)
  BY DEF Wire, Opening, ReadOff
<1>3. First(f, d.toClient) /\ Whole(f, d)
  BY <1>1 DEF First, Whole
<1>4. Answered(f, d)
  BY ReadOffStream DEF Answered
<1>5. QED
  BY <1>2, <1>3, <1>4, ReadOffStream DEF Wire, ReadOff

LEMMA RecvHeaderWire ==
  ASSUME NEW e, NEW c, Wire(e, c), e.pc = "header", NEW d, ReadOff(c, d),
         NEW f, f.pc = "body", f.reply = Head(c.toClient), f.result = e.result
  PROVE  Wire(f, d)
<1>1. /\ f.reply = c.toClient[1] /\ c.toClient[1].kind = "response"
      /\ Paired(c.toClient) /\ 1 \in DOMAIN c.toClient
  BY ReadOffStream DEF Wire, First, ReadOff
<1>2. First(f, d.toClient)
  <2>1. ASSUME d.toClient # <<>>
        PROVE  d.toClient[1].kind = "body" /\ d.toClient[1].id = f.reply.id
    <3>1. 2 \in DOMAIN c.toClient /\ d.toClient[1] = c.toClient[2]
      BY <2>1, ReadOffStream
    <3>2. 1 + 1 \in DOMAIN c.toClient
      BY <3>1
    <3>3. c.toClient[1 + 1].kind = "body" /\ c.toClient[1 + 1].id = c.toClient[1].id
      BY <1>1, <3>2 DEF Paired
    <3>4. QED
      BY <1>1, <3>1, <3>3
  <2>2. QED
    BY <2>1 DEF First
<1>3. Whole(f, d)
  <2> SUFFICES ASSUME ~Lost(d)
               PROVE  d.toClient # <<>> /\ d.toClient[Len(d.toClient)].kind # "response"
    BY DEF Whole
  <2>1. c.toClient[Len(c.toClient)].kind # "response"
    <3>1. ~Lost(c)
      BY ReadOffStream
    <3>2. QED
      BY <3>1 DEF Wire, Whole, ReadOff
  <2>2. /\ d.toClient = <<>> => c.toClient[Len(c.toClient)] = c.toClient[1]
        /\ d.toClient # <<>> => d.toClient[Len(d.toClient)] = c.toClient[Len(c.toClient)]
    BY ONLY Wire(e, c), ReadOff(c, d), ReadOffStream
  <2>3. QED
    BY ONLY <1>1, <2>1, <2>2
<1>4. Opening(f, d)
  BY DEF Wire, Opening, ReadOff
<1>5. f.reply.error = TRUE \/ Executed(d, f.reply.id)
  <2>1. f.reply.error = TRUE \/ Executed(c, f.reply.id)
    BY <1>1 DEF Wire, Answered
  <2>2. \A x : Executed(c, x) => Executed(d, x)
    BY ReadOffStream
  <2>3. QED
    BY <2>1, <2>2
<1>6. Answered(f, d)
  BY <1>5, ReadOffStream DEF Answered
<1>7. QED
  BY <1>2, <1>3, <1>4, <1>6, ReadOffStream DEF Wire, ReadOff

LEMMA RecvBodyWire ==
  ASSUME NEW e, NEW c, Wire(e, c), e.pc = "body", NEW d, ReadOff(c, d),
         NEW f, f.pc = "idle", NEW id,
         f.result = {r \in {[call |-> id, answer |-> Head(c.toClient).id]} :
                       e.reply.id = id /\ ~e.reply.error}
  PROVE  Wire(f, d)
<1>1. c.toClient[1].kind = "body" /\ c.toClient[1].id = e.reply.id
  BY DEF Wire, First, ReadOff
<1>2. First(f, d.toClient)
  <2>1. ASSUME d.toClient # <<>> PROVE d.toClient[1].kind = "response"
    <3>1. 2 \in DOMAIN c.toClient /\ d.toClient[1] = c.toClient[2] /\ 1 \in DOMAIN c.toClient
      BY ONLY Wire(e, c), ReadOff(c, d), <2>1, ReadOffStream
    <3>2. 1 + 1 \in DOMAIN c.toClient
      BY <3>1
    <3>3. c.toClient[1 + 1].kind = "response"
      BY <1>1, <3>1, <3>2 DEF Paired, Wire
    <3>4. QED
      BY <3>1, <3>3
  <2>2. QED
    BY <2>1 DEF First
<1>3. Whole(f, d)
  <2> SUFFICES ASSUME ~Lost(d), d.toClient # <<>>
               PROVE  d.toClient[Len(d.toClient)].kind # "response"
    BY DEF Whole
  <2>1. ~Lost(c) /\ d.toClient[Len(d.toClient)] = c.toClient[Len(c.toClient)]
    BY ReadOffStream
  <2>2. c.toClient[Len(c.toClient)].kind # "response"
    BY <2>1 DEF Wire, Whole, ReadOff
  <2>3. QED
    BY <2>1, <2>2
<1>4. Opening(f, d)
  BY DEF Wire, Opening, ReadOff
<1>5. ASSUME NEW r \in f.result PROVE r.answer = r.call /\ Executed(d, r.call)
  <2>1. r = [call |-> id, answer |-> Head(c.toClient).id] /\ e.reply.id = id /\ ~e.reply.error
    BY <1>5
  <2>2. r.call = id /\ r.answer = c.toClient[1].id
    BY <2>1, ReadOffStream
  <2>3. Executed(c, e.reply.id)
    <3>1. e.reply.error # TRUE
      BY <2>1
    <3>2. QED
      BY <3>1 DEF Wire, Answered
  <2>4. QED
    BY <1>1, <2>1, <2>2, <2>3, ReadOffStream
<1>6. Answered(f, d)
  BY <1>5, ReadOffStream DEF Answered
<1>7. QED
  BY <1>2, <1>3, <1>4, <1>6, ReadOffStream DEF Wire, ReadOff

-------------------------------------------------------------------------------
(* The steps.                                                              *)

LEMMA HeldFacts ==
  ASSUME WireInv, NEW s \in Servers, client[s].sock # NoConn
  PROVE  /\ client[s].sock \in Conns /\ Held(client[s].sock, client)
         /\ Wire(client[s], conn[client[s].sock])
         /\ InOrder(conn[client[s].sock]) /\ conn[client[s].sock].thread # "unused"
         /\ ConnField \subseteq DOMAIN conn[client[s].sock]
<1>1. client[s].sock \in Conns
  BY ServerFields DEF WireInv
<1>2. InOrder(conn[client[s].sock]) /\ conn[client[s].sock].thread # "unused"
  BY <1>1, ConnFields DEF WireInv, OrderInv, Holds
<1>3. Wire(client[s], conn[client[s].sock])
  BY DEF WireInv
<1>4. Held(client[s].sock, client)
  BY DEF Held
<1>5. QED
  BY <1>1, <1>2, <1>3, <1>4 DEF Wire

\* The connections as a step leaves them suit the clients as they were.
Carried(S) ==
  \A t \in S : client[t].sock # NoConn => Wire(client[t], conn'[client[t].sock])

LEMMA CarriedSame ==
  ASSUME WireInv, conn' = conn
  PROVE  Carried(Servers)
BY DEF WireInv, Carried

LEMMA CarriedOne ==
  ASSUME WireInv, NEW k \in Conns, NEW d, conn' = [conn EXCEPT ![k] = d],
         \A t \in Servers : client[t].sock = k => Wire(client[t], d)
  PROVE  Carried(Servers)
<1>1. conn'[k] = d /\ \A j \in Conns \ {k} : conn'[j] = conn[j]
  BY ConnFields DEF WireInv
<1>2. QED
  BY <1>1, HeldFacts DEF WireInv, Carried

\* Nobody else holds the connection of s.
LEMMA CarriedOthers ==
  ASSUME WireInv, NEW s \in Servers, NEW d, conn' = [conn EXCEPT ![client[s].sock] = d],
         client[s].sock # NoConn
  PROVE  Carried(Servers \ {s}) /\ conn'[client[s].sock] = d
<1>1. client[s].sock \in Conns /\ DOMAIN conn = Conns
  BY HeldFacts, ConnFields DEF WireInv
<1>2. PICK k \in Conns : k = client[s].sock
  BY <1>1
<1>3. conn'[k] = d /\ \A j \in Conns \ {k} : conn'[j] = conn[j]
  BY <1>1, <1>2
<1>4. \A t \in Servers \ {s} : client[t].sock # NoConn => client[t].sock # k
  BY <1>2 DEF WireInv, OrderInv, OwnSockets
<1>5. QED
  BY <1>2, <1>3, <1>4, HeldFacts DEF WireInv, Carried

\* The daemon's end of a connection that is held closes, or has closed.
LEMMA GoneWire ==
  ASSUME NEW e, NEW c, Wire(e, c), NEW d, ConnField \subseteq DOMAIN d,
         d.thread = "gone", d.toServer = <<>>, d.toClient = c.toClient, d.served = c.served
  PROVE  Wire(e, d)
<1>1. Opening(e, d) /\ Lost(d) /\ d.thread # "reply"
  BY DEF Opening, Lost
<1>2. \A id : Executed(c, id) => Executed(d, id)
  BY DEF Executed
<1>3. QED
  BY <1>1, <1>2, QuietWire

LEMMA CarriedSettled ==
  ASSUME WireInv, NEW S \in SUBSET Servers, NEW cn, NEW cl, conn' = Settled(cn, cl),
         \A t \in S : cl[t].sock = client[t].sock,
         \A j \in Conns : \/ cn[j] = conn[j]
                          \/ cn[j] = [conn[j] EXCEPT !.thread = "gone", !.addr = NoAddress]
  PROVE  Carried(S)
<1> SUFFICES ASSUME NEW t \in S, client[t].sock # NoConn
             PROVE  Wire(client[t], conn'[client[t].sock])
  BY DEF Carried
<1>1. PICK k \in Conns : k = client[t].sock
  BY HeldFacts
<1>2. Wire(client[t], conn[k]) /\ ConnField \subseteq DOMAIN conn[k]
  BY <1>1, HeldFacts
<1>3. Held(k, cl)
  BY <1>1 DEF Held
<1>4. PICK d : d = conn'[k]
  OBVIOUS
<1>5. d = IF cn[k].thread = "gone" THEN [cn[k] EXCEPT !.toServer = <<>>, !.reset = FALSE] ELSE cn[k]
  BY <1>3, <1>4 DEF Settled
<1>6. PICK g : g = cn[k]
  OBVIOUS
<1>7. /\ ConnField \subseteq DOMAIN g /\ g.toClient = conn[k].toClient /\ g.served = conn[k].served
      /\ g.thread = "gone" \/ g = conn[k]
  <2>1. CASE g = conn[k]
    BY <1>2, <2>1
  <2>2. CASE g = [conn[k] EXCEPT !.thread = "gone", !.addr = NoAddress]
    BY <1>2, <2>2 DEF ConnField
  <2>3. QED
    BY <1>6, <2>1, <2>2
<1>8. CASE g.thread = "gone"
  <2>1. d = [g EXCEPT !.toServer = <<>>, !.reset = FALSE]
    BY <1>5, <1>6, <1>8
  <2>2. /\ ConnField \subseteq DOMAIN d /\ d.thread = "gone" /\ d.toServer = <<>>
        /\ d.toClient = conn[k].toClient /\ d.served = conn[k].served
    BY <1>7, <1>8, <2>1 DEF ConnField
  <2>3. Wire(client[t], d)
    BY <1>2, <2>2, GoneWire
  <2>4. QED
    BY <1>1, <1>4, <2>3
<1>9. CASE g.thread # "gone"
  BY <1>1, <1>2, <1>4, <1>5, <1>6, <1>7, <1>9
<1>10. QED
  BY <1>8, <1>9

LEMMA DaemonWire ==
  ASSUME WireInv, OrderInv', Carried(Servers), client' = client
  PROVE  WireInv'
BY DEF WireInv, Carried

LEMMA ClientWire ==
  ASSUME WireInv, OrderInv', NEW s \in Servers, NEW f, client' = [client EXCEPT ![s] = f],
         Resting(f), f.sock # NoConn => Wire(f, conn'[f.sock]), Carried(Servers \ {s})
  PROVE  WireInv'
<1>1. client'[s] = f /\ \A t \in Servers \ {s} : client'[t] = client[t]
  BY ServerFields DEF WireInv
<1>2. QED
  BY <1>1 DEF WireInv, Carried

LEMMA HolderFacts ==
  ASSUME WireInv, NEW k \in Conns, NEW t \in Servers, client[t].sock = k
  PROVE  /\ Held(k, client) /\ Wire(client[t], conn[k]) /\ InOrder(conn[k])
         /\ ConnField \subseteq DOMAIN conn[k] /\ client[t].sock # NoConn
         /\ conn[k].toClient \in Seq(Replies) /\ conn[k].id \in Nat
<1>1. client[t].sock # NoConn
  BY RpcSessionAssumption
<1>2. QED
  BY <1>1, HeldFacts DEF Wire, InOrder

LEMMA NetworkCarried ==
  ASSUME WireInv, NEW k \in Conns, NetworkBreaks(k) \/ FrameLost(k)
  PROVE  Carried(Servers)
<1>1. CASE NetworkBreaks(k)
  <2>1. PICK d : d = [conn[k] EXCEPT !.reset = TRUE]
    OBVIOUS
  <2>2. conn' = [conn EXCEPT ![k] = d]
    BY <1>1, <2>1 DEF NetworkBreaks
  <2>3. ASSUME NEW t \in Servers, client[t].sock = k PROVE Wire(client[t], d)
    <3>1. Wire(client[t], conn[k]) /\ ConnField \subseteq DOMAIN conn[k]
      BY <2>3, HolderFacts
    <3>2. /\ ConnField \subseteq DOMAIN d /\ d.toClient = conn[k].toClient /\ d.reset = TRUE
          /\ d.thread = conn[k].thread /\ d.toServer = conn[k].toServer
          /\ d.served = conn[k].served /\ d.id = conn[k].id
      BY <2>1, <3>1 DEF ConnField
    <3>3. Lost(d) /\ Opening(client[t], d)
      BY <3>1, <3>2 DEF Wire, Opening, Lost
    <3>4. \A x : Executed(conn[k], x) => Executed(d, x)
      BY <3>2 DEF Executed
    <3>5. d.thread = "reply" => Executed(d, d.id)
      BY <3>1, <3>2, <3>4 DEF Wire, Answered
    <3>6. QED
      BY <3>1, <3>2, <3>3, <3>4, <3>5, QuietWire
  <2>4. QED
    BY <2>2, <2>3, CarriedOne
<1>2. ASSUME FrameLost(k), conn[k].toServer # <<>>, conn' = [conn EXCEPT ![k].toServer = Front(@)]
      PROVE  Carried(Servers)
  <2>1. PICK q : q = Front(conn[k].toServer)
    OBVIOUS
  <2>2. PICK d : d = [conn[k] EXCEPT !.toServer = q]
    OBVIOUS
  <2>3. conn' = [conn EXCEPT ![k] = d]
    BY <1>2, <2>1, <2>2
  <2>4. ASSUME NEW t \in Servers, client[t].sock = k PROVE Wire(client[t], d)
    <3>1. Wire(client[t], conn[k]) /\ ConnField \subseteq DOMAIN conn[k]
      BY <2>4, HolderFacts
    <3>2. /\ ConnField \subseteq DOMAIN d /\ d.toClient = conn[k].toClient /\ d.reset = conn[k].reset
          /\ d.thread = conn[k].thread /\ d.toServer = q
          /\ d.served = conn[k].served /\ d.id = conn[k].id
      BY <2>2, <3>1 DEF ConnField
    <3>3. conn[k].toServer = <<Key>> => q = <<>>
      BY <2>1 DEF Front
    <3>4. Lost(conn[k]) => Lost(d)
      BY <3>2 DEF Lost
    <3>5. Opening(client[t], d)
      BY <1>2, <3>1, <3>2, <3>3 DEF Wire, Opening
    <3>6. \A x : Executed(conn[k], x) => Executed(d, x)
      BY <3>2 DEF Executed
    <3>7. d.thread = "reply" => Executed(d, d.id)
      BY <3>1, <3>2, <3>6 DEF Wire, Answered
    <3>8. QED
      BY <3>1, <3>2, <3>4, <3>5, <3>6, <3>7, QuietWire
  <2>5. QED
    BY <2>3, <2>4, CarriedOne
<1>3. ASSUME FrameLost(k), conn[k].toClient # <<>>, conn' = [conn EXCEPT ![k].toClient = Front(@)]
      PROVE  Carried(Servers)
  <2>1. PICK q : q = Front(conn[k].toClient)
    OBVIOUS
  <2>2. PICK d : d = [conn[k] EXCEPT !.toClient = q]
    OBVIOUS
  <2>3. conn' = [conn EXCEPT ![k] = d]
    BY <1>3, <2>1, <2>2
  <2>4. ASSUME NEW t \in Servers, client[t].sock = k PROVE Wire(client[t], d)
    <3>1. Wire(client[t], conn[k]) /\ ConnField \subseteq DOMAIN conn[k] /\ Held(k, client)
      BY <2>4, HolderFacts
    <3>2. /\ ConnField \subseteq DOMAIN d /\ d.toClient = Front(conn[k].toClient)
          /\ d.reset = conn[k].reset /\ d.thread = conn[k].thread
          /\ d.toServer = conn[k].toServer /\ d.served = conn[k].served /\ d.id = conn[k].id
      BY <2>1, <2>2, <3>1 DEF ConnField
    <3>3. Lost(conn[k])
      BY <1>3, <3>1 DEF FrameLost, ServerLost, ClientLost, Lost
    <3>4. QED
      BY <1>3, <3>1, <3>2, <3>3, FrontWire
  <2>5. QED
    BY <2>3, <2>4, CarriedOne
<1>4. QED
  BY <1>1, <1>2, <1>3 DEF FrameLost

\* A step of the thread that sends nothing, of a connection that is open.
LEMMA QuietCarried ==
  ASSUME WireInv, NEW k \in Conns, NEW d, conn' = [conn EXCEPT ![k] = d],
         \A t \in Servers : client[t].sock = k => Opening(client[t], d),
         ConnField \subseteq DOMAIN conn[k] =>
           /\ ConnField \subseteq DOMAIN d /\ d.reset = conn[k].reset
           /\ d.served = conn[k].served,
         ConnField \subseteq DOMAIN conn[k] /\ conn[k].toClient \in Seq(Replies) =>
           d.toClient = conn[k].toClient,
         conn[k].thread # "gone", d.thread # "reply"
  PROVE  Carried(Servers)
<1>1. ASSUME NEW t \in Servers, client[t].sock = k PROVE Wire(client[t], d)
  <2>1. /\ Wire(client[t], conn[k]) /\ ConnField \subseteq DOMAIN conn[k]
        /\ conn[k].toClient \in Seq(Replies)
    BY <1>1, HolderFacts
  <2>2. /\ ConnField \subseteq DOMAIN d /\ d.reset = conn[k].reset
        /\ d.served = conn[k].served /\ d.toClient = conn[k].toClient
    BY <2>1
  <2>3. Lost(conn[k]) => Lost(d)
    BY <2>2 DEF Lost
  <2>4. \A x : Executed(conn[k], x) => Executed(d, x)
    BY <2>2 DEF Executed
  <2>5. QED
    BY <1>1, <2>1, <2>2, <2>3, <2>4, QuietWire
<1>2. QED
  BY <1>1, CarriedOne

\* Who is past the opening stays there while the thread serves.
LEMMA StillOpen ==
  ASSUME WireInv, NEW k \in Conns, NEW t \in Servers, client[t].sock = k,
         \/ conn[k].thread \in {"body", "call", "reply"}
         \/ conn[k].thread = "header" /\ conn[k].toServer # <<>>
  PROVE  client[t].pc # "hello"
BY HolderFacts DEF Wire, Opening

LEMMA ReadsCarried ==
  ASSUME WireInv, NEW k \in Conns, NEW from \in {"header", "body"},
         NEW to \in {"disconnect", "call"}, Reads(k, from, to, <<>>)
  PROVE  Carried(Servers)
<1>1. PICK q : q = Sent(k, <<>>)
  OBVIOUS
<1>2. PICK d : d = [conn[k] EXCEPT !.thread = to, !.toServer = Tail(conn[k].toServer), !.toClient = q]
  OBVIOUS
<1>3. conn' = [conn EXCEPT ![k] = d] /\ conn[k].toServer # <<>> /\ conn[k].thread = from
  BY <1>1, <1>2 DEF Reads
<1>4. conn[k].toClient \in Seq(Replies) => q = conn[k].toClient
  <2>1. q = conn[k].toClient \o <<>>
    BY <1>1 DEF Sent
  <2>2. QED
    BY <2>1, ConcatEmptySeq
<1>5. DOMAIN d = DOMAIN conn[k]
  BY <1>2
<1>6. ConnField \subseteq DOMAIN conn[k] =>
        /\ ConnField \subseteq DOMAIN d /\ d.reset = conn[k].reset
        /\ d.served = conn[k].served /\ d.thread = to /\ d.toClient = q
  BY <1>2 DEF ConnField
<1>7. ASSUME NEW t \in Servers, client[t].sock = k PROVE Opening(client[t], d)
  BY <1>3, <1>6, <1>7, StillOpen, HolderFacts DEF Opening
<1>8. d.thread # "reply"
  <2>1. {"thread", "toServer", "id", "served"} \subseteq DOMAIN conn[k]
    BY ConnFields DEF WireInv, Fields
  <2>2. d.thread = to
    BY <1>2, <2>1
  <2>3. QED
    BY <1>2, <2>2
<1>9. QED
  BY <1>3, <1>4, <1>6, <1>7, <1>8, QuietCarried

LEMMA AnswerCarried ==
  ASSUME WireInv, NEW k \in Conns, NEW id \in Nat, NEW err \in BOOLEAN, NEW d, NEW q,
         conn' = [conn EXCEPT ![k] = d], q = Sent(k, Response(id, err)),
         conn[k].thread \in {"header", "reply"},
         conn[k].thread = "header" => conn[k].toServer # <<>>,
         err = TRUE \/ (conn[k].thread = "reply" /\ id = conn[k].id),
         ConnField \subseteq DOMAIN conn[k] =>
           /\ ConnField \subseteq DOMAIN d /\ d.thread = "header" /\ d.toClient = q
           /\ d.served = conn[k].served /\ d.reset = conn[k].reset
  PROVE  Carried(Servers)
<1>1. ASSUME NEW t \in Servers, client[t].sock = k PROVE Wire(client[t], d)
  <2>1. /\ Wire(client[t], conn[k]) /\ ConnField \subseteq DOMAIN conn[k] /\ Held(k, client)
        /\ client[t].pc # "hello"
    BY <1>1, HolderFacts, StillOpen
  <2>2. d.toClient = conn[k].toClient \o IF conn[k].reset THEN <<>> ELSE Response(id, err)
    BY <2>1 DEF Sent, ClientLost
  <2>3. err = TRUE \/ Executed(conn[k], id)
    BY <2>1 DEF Wire, Answered
  <2>4. /\ ConnField \subseteq DOMAIN d /\ d.thread = "header" /\ conn[k].thread # "gone"
        /\ d.served = conn[k].served /\ d.reset = conn[k].reset
    BY <2>1
  <2>5. QED
    BY <2>1, <2>2, <2>3, <2>4, AnswerWire
<1>2. QED
  BY <1>1, CarriedOne

LEMMA RefusalCarried ==
  ASSUME WireInv, NEW k \in Conns, NEW id \in Nat, Reads(k, "header", "header", Response(id, TRUE))
  PROVE  Carried(Servers)
<1>1. PICK q : q = Sent(k, Response(id, TRUE))
  OBVIOUS
<1>2. PICK d : d = [conn[k] EXCEPT !.thread = "header", !.toServer = Tail(conn[k].toServer),
                                   !.toClient = q]
  OBVIOUS
<1>3. conn' = [conn EXCEPT ![k] = d] /\ conn[k].toServer # <<>> /\ conn[k].thread = "header"
  BY <1>1, <1>2 DEF Reads
<1>4. ConnField \subseteq DOMAIN conn[k] =>
        /\ ConnField \subseteq DOMAIN d /\ d.thread = "header" /\ d.toClient = q
        /\ d.served = conn[k].served /\ d.reset = conn[k].reset
  BY <1>2 DEF ConnField
<1>5. PICK err \in BOOLEAN : err = TRUE
  OBVIOUS
<1>6. q = Sent(k, Response(id, err))
  BY <1>1, <1>5
<1>7. /\ conn[k].thread \in {"header", "reply"}
      /\ conn[k].thread = "header" => conn[k].toServer # <<>>
      /\ conn' = [conn EXCEPT ![k] = d]
  BY <1>3
<1>8. err = TRUE \/ (conn[k].thread = "reply" /\ id = conn[k].id)
  BY <1>5
<1>9. QED
  BY <1>4, <1>6, <1>7, <1>8, AnswerCarried

LEMMA HandshakeCarried ==
  ASSUME WireInv, NEW k \in Conns, NEW to \in {"header", "disconnect"}, NEW a \in {Ok, Denied},
         Reads(k, "handshake", to, <<a>>)
  PROVE  Carried(Servers)
<1>1. PICK q : q = Sent(k, <<a>>)
  OBVIOUS
<1>2. PICK r : r = Tail(conn[k].toServer)
  OBVIOUS
<1>3. PICK d : d = [conn[k] EXCEPT !.thread = to, !.toServer = r, !.toClient = q]
  OBVIOUS
<1>4. conn' = [conn EXCEPT ![k] = d] /\ conn[k].toServer # <<>> /\ conn[k].thread = "handshake"
  BY <1>1, <1>2, <1>3 DEF Reads
<1>5. ASSUME NEW t \in Servers, client[t].sock = k PROVE Wire(client[t], d)
  <2>1. /\ Wire(client[t], conn[k]) /\ ConnField \subseteq DOMAIN conn[k] /\ Held(k, client)
    BY <1>5, HolderFacts
  <2>2. /\ ConnField \subseteq DOMAIN d /\ d.thread = to /\ d.toServer = r /\ d.toClient = q
        /\ d.reset = conn[k].reset /\ d.served = conn[k].served
    BY <1>3, <2>1 DEF ConnField
  <2>3. client[t].pc = "hello" /\ conn[k].toClient = <<>> /\ conn[k].toServer = <<Key>>
    BY <1>4, <2>1 DEF Wire, Opening
  <2>4. r = <<>>
    BY <1>2, <2>3
  <2>5. q \in {<<>>, <<a>>}
    BY <1>1, <2>3 DEF Sent
  <2>6. /\ <<>> \in Seq(Replies) /\ <<a>> \in Seq(Replies) /\ DOMAIN <<a>> = {1}
        /\ <<a>>[1].kind \in {"ok", "denied"} /\ Len(<<a>>) = 1 /\ 1 + 1 \notin {1}
    BY DEF Replies, Ok, Denied
  <2>7. Opening(client[t], d)
    BY <2>2, <2>3, <2>4 DEF Opening
  <2>8. Paired(q) /\ First(client[t], q)
    <3>1. CASE q = <<>>
      BY <3>1, EmptySeq DEF Paired, First
    <3>2. CASE q = <<a>>
      <4>1. Paired(q)
        BY <2>6, <3>2 DEF Paired
      <4>2. First(client[t], q)
        BY <2>3, <2>6, <3>2 DEF First
      <4>3. QED
        BY <4>1, <4>2
    <3>3. QED
      BY <2>5, <3>1, <3>2
  <2>9. Whole(client[t], d)
    <3>1. CASE q = <<>>
      BY <2>2, <2>3, <3>1 DEF Whole
    <3>2. CASE q = <<a>>
      BY <2>2, <2>6, <3>2 DEF Whole
    <3>3. QED
      BY <2>5, <3>1, <3>2
  <2>10. Answered(client[t], d)
    <3>1. \A x : Executed(conn[k], x) <=> Executed(d, x)
      BY <2>2 DEF Executed
    <3>2. \A i \in DOMAIN q : q[i].kind # "response"
      BY <2>5, <2>6, EmptySeq
    <3>3. QED
      BY <2>1, <2>2, <2>3, <3>1, <3>2 DEF Wire, Answered
  <2>11. q \in Seq(Replies)
    BY <2>5, <2>6
  <2>12. QED
    BY <2>2, <2>7, <2>8, <2>9, <2>10, <2>11 DEF Wire
<1>6. QED
  BY <1>4, <1>5, CarriedOne

LEMMA ThreadCarried ==
  ASSUME WireInv, NEW k \in Conns, Accept(k) \/ ServeProc(k)
  PROVE  Carried(Servers)
<1>1. CASE Accept(k)
  <2>1. PICK a \in Addresses : conn' = [conn EXCEPT ![k].thread = "handshake", ![k].addr = a]
    BY <1>1 DEF Accept
  <2>2. PICK d : d = [conn[k] EXCEPT !.thread = "handshake", !.addr = a]
    OBVIOUS
  <2>3. conn' = [conn EXCEPT ![k] = d] /\ conn[k].thread = "backlog"
    BY <1>1, <2>1, <2>2 DEF Accept
  <2>4. ConnField \subseteq DOMAIN conn[k] =>
          /\ ConnField \subseteq DOMAIN d /\ d.thread = "handshake" /\ d.reset = conn[k].reset
          /\ d.served = conn[k].served /\ d.toClient = conn[k].toClient
          /\ d.toServer = conn[k].toServer
    BY <2>2 DEF ConnField
  <2>5. ASSUME NEW t \in Servers, client[t].sock = k PROVE Opening(client[t], d)
    BY <2>3, <2>4, <2>5, HolderFacts DEF Wire, Opening
  <2>6. d.thread # "reply"
    BY <2>2, ConnFields DEF WireInv, Fields
  <2>7. QED
    BY <2>3, <2>4, <2>5, <2>6, QuietCarried
<1>2. CASE Handshake(k)
  BY <1>2, HandshakeCarried DEF Handshake
<1>3. CASE UnknownMethod(k)
  <2>1. PICK f : f = Head(conn[k].toServer)
    OBVIOUS
  <2>2. /\ Reads(k, "header", "header", Response(f.id, TRUE)) /\ f.kind = "request"
        /\ conn[k].toServer # <<>>
    BY <1>3, <2>1 DEF UnknownMethod
  <2>3. f \in Frames
    BY <2>1, <2>2, ConnFields, TailLeft DEF WireInv
  <2>4. f.id \in Nat
    BY <2>2, <2>3, FrameId
  <2>5. QED
    BY <2>2, <2>4, RefusalCarried
<1>4. CASE BodyAsHeader(k)
  <2>1. CASE Reads(k, "header", "disconnect", <<>>)
    BY <2>1, ReadsCarried
  <2>2. ASSUME NEW id \in Ids, Reads(k, "header", "header", Response(id, TRUE))
        PROVE  Carried(Servers)
    <3>1. id \in Nat
      BY RpcSessionAssumption DEF Ids
    <3>2. QED
      BY <2>2, <3>1, RefusalCarried
  <2>3. QED
    BY <1>4, <2>1, <2>2 DEF BodyAsHeader
<1>5. CASE ReadBody(k)
  BY <1>5, ReadsCarried DEF ReadBody
<1>6. CASE ReadHeader(k)
  <2>1. PICK f : f = Head(conn[k].toServer)
    OBVIOUS
  <2>2. PICK d : d = [conn[k] EXCEPT !.thread = "body", !.toServer = Tail(conn[k].toServer),
                                     !.id = f.id, !.method = f.method]
    OBVIOUS
  <2>3. conn' = [conn EXCEPT ![k] = d] /\ conn[k].thread = "header" /\ conn[k].toServer # <<>>
    BY <1>6, <2>1, <2>2 DEF ReadHeader
  <2>4. ConnField \subseteq DOMAIN conn[k] =>
          /\ ConnField \subseteq DOMAIN d /\ d.thread = "body" /\ d.reset = conn[k].reset
          /\ d.served = conn[k].served /\ d.toClient = conn[k].toClient
    BY <2>2 DEF ConnField
  <2>5. ASSUME NEW t \in Servers, client[t].sock = k PROVE Opening(client[t], d)
    BY <2>3, <2>4, <2>5, HolderFacts, StillOpen DEF Opening
  <2>6. d.thread # "reply"
    BY <2>2, ConnFields DEF WireInv, Fields
  <2>7. QED
    BY <2>3, <2>4, <2>5, <2>6, QuietCarried
<1>7. CASE CallMethod(k)
  <2>1. PICK v : v = Append(conn[k].served, conn[k].id)
    OBVIOUS
  <2>2. PICK d : d = [conn[k] EXCEPT !.thread = "reply", !.served = v]
    OBVIOUS
  <2>3. conn' = [conn EXCEPT ![k] = d] /\ conn[k].thread = "call"
    BY <1>7, <2>1, <2>2 DEF CallMethod
  <2>4. ASSUME NEW t \in Servers, client[t].sock = k PROVE Wire(client[t], d)
    <3>1. /\ Wire(client[t], conn[k]) /\ ConnField \subseteq DOMAIN conn[k]
          /\ conn[k].served \in Seq(Nat) /\ conn[k].id \in Nat /\ client[t].pc # "hello"
      BY <2>3, <2>4, HolderFacts, StillOpen DEF InOrder
    <3>2. /\ ConnField \subseteq DOMAIN d /\ d.thread = "reply" /\ d.reset = conn[k].reset
          /\ d.served = v /\ d.toClient = conn[k].toClient /\ d.id = conn[k].id
      BY <2>2, <3>1 DEF ConnField
    <3>3. /\ v \in Seq(Nat) /\ Len(v) = Len(conn[k].served) + 1
          /\ \A i \in 1 .. Len(conn[k].served) : v[i] = conn[k].served[i]
          /\ v[Len(conn[k].served) + 1] = conn[k].id
      BY <2>1, <3>1, AppendProperties
    <3>4. /\ Len(conn[k].served) \in Nat /\ DOMAIN conn[k].served = 1 .. Len(conn[k].served)
          /\ DOMAIN v = 1 .. Len(conn[k].served) + 1
      BY <3>1, <3>3, SeqFacts
    <3>5. \A x : Executed(conn[k], x) => Executed(d, x)
      BY <3>2, <3>3, <3>4 DEF Executed
    <3>6. Executed(d, d.id)
      BY <3>2, <3>3, <3>4 DEF Executed
    <3>7. Opening(client[t], d) /\ (Lost(conn[k]) => Lost(d))
      BY <2>3, <3>1, <3>2 DEF Opening, Lost
    <3>8. QED
      BY <3>1, <3>2, <3>5, <3>6, <3>7, QuietWire
  <2>5. QED
    BY <2>3, <2>4, CarriedOne
<1>8. CASE SendResponse(k)
  <2>1. PICK q : q = Sent(k, Response(conn[k].id, FALSE))
    OBVIOUS
  <2>2. PICK d : d = [conn[k] EXCEPT !.thread = "header", !.id = 0, !.method = NoMethod, !.toClient = q]
    OBVIOUS
  <2>3. conn' = [conn EXCEPT ![k] = d] /\ conn[k].thread = "reply"
    BY <1>8, <2>1, <2>2 DEF SendResponse
  <2>4. ConnField \subseteq DOMAIN conn[k] =>
          /\ ConnField \subseteq DOMAIN d /\ d.thread = "header" /\ d.toClient = q
          /\ d.served = conn[k].served /\ d.reset = conn[k].reset
    BY <2>2 DEF ConnField
  <2>5. conn[k].id \in Nat
    BY ConnFields DEF WireInv
  <2>6. QED
    BY <2>1, <2>3, <2>4, <2>5, AnswerCarried
<1>9. CASE ConnFails(k)
  <2>1. PICK d : d = [conn[k] EXCEPT !.thread = "disconnect", !.id = 0, !.method = NoMethod]
    OBVIOUS
  <2>2. /\ conn' = [conn EXCEPT ![k] = d]
        /\ \/ conn[k].thread \in {"handshake", "header", "body"} /\ conn[k].toServer = <<>>
           \/ conn[k].thread = "reply"
    BY <1>9, <2>1 DEF ConnFails
  <2>3. ConnField \subseteq DOMAIN conn[k] =>
          /\ ConnField \subseteq DOMAIN d /\ d.thread = "disconnect" /\ d.reset = conn[k].reset
          /\ d.served = conn[k].served /\ d.toClient = conn[k].toClient
          /\ d.toServer = conn[k].toServer
    BY <2>1 DEF ConnField
  <2>4. ASSUME NEW t \in Servers, client[t].sock = k PROVE Opening(client[t], d)
    BY <2>2, <2>3, <2>4, HolderFacts, StillOpen DEF Opening
  <2>5. d.thread # "reply"
    BY <2>1, ConnFields DEF WireInv, Fields
  <2>6. QED
    BY <2>2, <2>3, <2>4, <2>5, QuietCarried
<1>10. CASE Disconnect(k)
  <2>1. PICK d : d = [conn[k] EXCEPT !.thread = "delete"]
    OBVIOUS
  <2>2. conn' = [conn EXCEPT ![k] = d] /\ conn[k].thread = "disconnect"
    BY <1>10, <2>1 DEF Disconnect, ThreadGoes
  <2>3. ConnField \subseteq DOMAIN conn[k] =>
          /\ ConnField \subseteq DOMAIN d /\ d.thread = "delete" /\ d.reset = conn[k].reset
          /\ d.served = conn[k].served /\ d.toClient = conn[k].toClient
          /\ d.toServer = conn[k].toServer
    BY <2>1 DEF ConnField
  <2>4. ASSUME NEW t \in Servers, client[t].sock = k PROVE Opening(client[t], d)
    BY <2>2, <2>3, <2>4, HolderFacts DEF Wire, Opening
  <2>5. d.thread # "reply"
    BY <2>1, ConnFields DEF WireInv, Fields
  <2>6. QED
    BY <2>2, <2>3, <2>4, <2>5, QuietCarried
<1>11. CASE DeleteConn(k)
  <2>1. PICK cn : cn = [conn EXCEPT ![k].thread = "gone", ![k].addr = NoAddress]
    OBVIOUS
  <2>2. conn' = Settled(cn, client)
    BY <1>11, <2>1 DEF DeleteConn
  <2>3. \A j \in Conns : cn[j] = conn[j] \/ cn[j] = [conn[j] EXCEPT !.thread = "gone", !.addr = NoAddress]
    BY <2>1, ConnFields DEF WireInv
  <2>4. QED
    BY <2>2, <2>3, CarriedSettled
<1>12. QED
  BY <1>1, <1>2, <1>3, <1>4, <1>5, <1>6, <1>7, <1>8, <1>9, <1>10, <1>11 DEF ServeProc

LEMMA DieCarried ==
  ASSUME WireInv, Die
  PROVE  Carried(Servers)
<1>1. PICK cn : cn = [k \in Conns |-> IF conn[k] = Unused THEN Unused
                        ELSE [conn[k] EXCEPT !.thread = "gone", !.addr = NoAddress]]
  OBVIOUS
<1>2. conn' = Settled(cn, client)
  BY <1>1 DEF Die
<1>3. \A j \in Conns : \/ cn[j] = conn[j]
                       \/ cn[j] = [conn[j] EXCEPT !.thread = "gone", !.addr = NoAddress]
  BY <1>1
<1>4. QED
  BY <1>2, <1>3, CarriedSettled

\* The steps of a server.
LEMMA RestFields ==
  ASSUME WireInv, NEW s \in Servers
  PROVE  /\ {"sock", "seq", "method", "pc", "reply", "result"} \subseteq DOMAIN client[s]
         /\ Resting(client[s]) /\ client[s].sock \in Conns \cup {NoConn} /\ DOMAIN client = Servers
BY ServerFields DEF WireInv, Resting

LEMMA CloseWire ==
  ASSUME WireInv, OrderInv', NEW s \in Servers, client[s].pc = "hello", Close(s)
  PROVE  WireInv'
<1>1. PICK f : f = [client[s] EXCEPT !.sock = NoConn, !.pc = "idle", !.method = NoMethod]
  OBVIOUS
<1>2. client' = [client EXCEPT ![s] = f] /\ conn' = Settled(conn, client')
  BY <1>1 DEF Close
<1>3. /\ {"pc", "sock", "reply", "result"} \subseteq DOMAIN f
      /\ f.sock = NoConn /\ f.pc = "idle" /\ f.result = client[s].result
  BY <1>1, RestFields
<1>4. Resting(f)
  BY <1>3, RestFields DEF Resting
<1>5. \A t \in Servers \ {s} : client'[t].sock = client[t].sock
  BY <1>2, RestFields
<1>6. Carried(Servers \ {s})
  BY <1>2, <1>5, CarriedSettled
<1>7. QED
  BY <1>2, <1>3, <1>4, <1>6, ClientWire

LEMMA ShutdownWire ==
  ASSUME WireInv, OrderInv', NEW s \in Servers, Shutdown(s)
  PROVE  WireInv'
<1>1. client' = [client EXCEPT ![s] = NewClient] /\ conn' = Settled(conn, client')
  BY DEF Shutdown
<1>2. Resting(NewClient) /\ NewClient.sock = NoConn
  BY DEF Resting, NewClient
<1>3. \A t \in Servers \ {s} : client'[t].sock = client[t].sock
  BY <1>1, RestFields
<1>4. Carried(Servers \ {s})
  BY <1>1, <1>3, CarriedSettled
<1>5. QED
  BY <1>1, <1>2, <1>4, ClientWire

\* A step of a server that leaves the connections as they are.
LEMMA LocalWire ==
  ASSUME WireInv, OrderInv', NEW s \in Servers, NEW f, client' = [client EXCEPT ![s] = f],
         conn' = conn, Resting(f), f.sock = client[s].sock,
         f.sock # NoConn => Wire(f, conn[f.sock])
  PROVE  WireInv'
<1>1. Carried(Servers \ {s})
  BY CarriedSame DEF Carried
<1>2. QED
  BY <1>1, ClientWire

LEMMA LocalSteps ==
  ASSUME WireInv, OrderInv', NEW s \in Servers,
         GameInit(s) \/ (\E m \in Methods : Call(s, m)) \/ DialFails(s) \/ SendFails(s)
  PROVE  WireInv'
<1>1. CASE GameInit(s)
  <2>1. PICK f : f = [client[s] EXCEPT !.level = "starting"]
    OBVIOUS
  <2>2. client' = [client EXCEPT ![s] = f] /\ conn' = conn
    BY <1>1, <2>1 DEF GameInit
  <2>3. /\ {"pc", "sock", "reply", "result"} \subseteq DOMAIN f
        /\ f.sock = client[s].sock /\ f.pc = client[s].pc /\ f.reply = client[s].reply
        /\ f.result = client[s].result
    BY <2>1, RestFields
  <2>4. Resting(f)
    BY <2>3, RestFields DEF Resting
  <2>5. f.sock # NoConn => Wire(f, conn[f.sock])
    BY <2>3, HeldFacts, SameWire
  <2>6. QED
    BY <2>2, <2>3, <2>4, <2>5, LocalWire
<1>2. ASSUME NEW m \in Methods, Call(s, m) PROVE WireInv'
  <2>1. PICK l : l = IF m = "Register" THEN "running" ELSE client[s].level
    OBVIOUS
  <2>2. PICK p : p = IF client[s].sock = NoConn THEN "dial" ELSE "send"
    OBVIOUS
  <2>3. PICK f : f = [client[s] EXCEPT !.method = m, !.result = {}, !.level = l, !.pc = p]
    OBVIOUS
  <2>4. client' = [client EXCEPT ![s] = f] /\ conn' = conn /\ client[s].pc = "idle"
    BY <1>2, <2>1, <2>2, <2>3 DEF Call
  <2>5. /\ {"pc", "sock", "reply", "result"} \subseteq DOMAIN f
        /\ f.sock = client[s].sock /\ f.pc = p /\ f.result = {}
    BY <2>3, RestFields
  <2>6. Resting(f)
    BY <2>2, <2>5 DEF Resting
  <2>7. ASSUME f.sock # NoConn PROVE Wire(f, conn[f.sock])
    <3>1. Wire(client[s], conn[f.sock]) /\ f.pc = "send"
      BY <2>2, <2>5, <2>7, HeldFacts
    <3>2. QED
      BY <2>4, <2>5, <3>1, MoveWire
  <2>8. QED
    BY <2>4, <2>5, <2>6, <2>7, LocalWire
<1>3. CASE DialFails(s)
  <2>1. PICK f : f = [client[s] EXCEPT !.pc = "idle", !.method = NoMethod]
    OBVIOUS
  <2>2. client' = [client EXCEPT ![s] = f] /\ conn' = conn /\ client[s].pc = "dial"
    BY <1>3, <2>1 DEF DialFails
  <2>3. /\ {"pc", "sock", "reply", "result"} \subseteq DOMAIN f
        /\ f.sock = client[s].sock /\ f.pc = "idle" /\ f.result = client[s].result
    BY <2>1, RestFields
  <2>4. client[s].sock = NoConn
    BY <2>2, ServerFields DEF WireInv
  <2>5. Resting(f)
    BY <2>3, <2>4, RestFields DEF Resting
  <2>6. QED
    BY <2>2, <2>3, <2>4, <2>5, LocalWire
<1>4. CASE SendFails(s)
  <2>1. PICK f : f = [client[s] EXCEPT !.pc = "idle", !.seq = @ + 1, !.method = NoMethod]
    OBVIOUS
  <2>2. client' = [client EXCEPT ![s] = f] /\ conn' = conn /\ client[s].pc = "send"
    BY <1>4, <2>1 DEF SendFails
  <2>3. /\ {"pc", "sock", "reply", "result"} \subseteq DOMAIN f
        /\ f.sock = client[s].sock /\ f.pc = "idle" /\ f.result = client[s].result
    BY <2>1, RestFields
  <2>4. Resting(f) /\ f.sock # NoConn
    BY <2>2, <2>3, RestFields DEF Resting
  <2>5. Wire(f, conn[f.sock])
    BY <2>2, <2>3, <2>4, HeldFacts, MoveWire
  <2>6. QED
    BY <2>2, <2>3, <2>4, <2>5, LocalWire
<1>5. QED
  BY <1>1, <1>2, <1>3, <1>4

LEMMA DialWire ==
  ASSUME WireInv, OrderInv', NEW s \in Servers, NEW k \in Conns, Dial(s, k)
  PROVE  WireInv'
<1>1. PICK o : o = (client[s].level = "running" /\ client[s].method # "Register")
  OBVIOUS
<1>2. PICK d : d = [conn[k] EXCEPT !.thread = "backlog", !.toServer = <<Key>>, !.orphan = o]
  OBVIOUS
<1>3. PICK f : f = [client[s] EXCEPT !.pc = "hello", !.sock = k]
  OBVIOUS
<1>4. /\ conn' = [conn EXCEPT ![k] = d] /\ client' = [client EXCEPT ![s] = f]
      /\ conn[k] = Unused /\ client[s].pc = "dial"
  BY <1>1, <1>2, <1>3 DEF Dial
<1>5. /\ ConnField \subseteq DOMAIN d /\ d.thread = "backlog" /\ d.toServer = <<Key>>
      /\ d.toClient = <<>> /\ d.reset = FALSE /\ d.served = <<>>
  BY <1>2, <1>4 DEF ConnField, Unused
<1>6. /\ {"pc", "sock", "reply", "result"} \subseteq DOMAIN f
      /\ f.sock = k /\ f.pc = "hello" /\ f.result = client[s].result
  BY <1>3, RestFields
<1>7. client[s].sock = NoConn /\ f.result = {}
  BY <1>4, <1>6, RestFields, ServerFields DEF WireInv, Resting
<1>8. Resting(f) /\ f.sock # NoConn
  BY <1>6, <1>7, RpcSessionAssumption DEF Resting
<1>9. Wire(f, d)
  <2>1. Opening(f, d) /\ Paired(<<>>) /\ First(f, <<>>) /\ Whole(f, d) /\ <<>> \in Seq(Replies)
    BY <1>5, <1>6, EmptySeq DEF Opening, Paired, First, Whole
  <2>2. Answered(f, d)
    BY <1>5, <1>6, <1>7, EmptySeq DEF Answered
  <2>3. QED
    BY <1>5, <2>1, <2>2 DEF Wire
<1>10. conn'[k] = d /\ \A j \in Conns \ {k} : conn'[j] = conn[j]
  BY <1>4, ConnFields DEF WireInv
<1>11. \A t \in Servers : client[t].sock # NoConn => client[t].sock # k
  BY <1>4, HeldFacts, UnusedOrder
<1>12. Carried(Servers \ {s})
  BY <1>10, <1>11, HeldFacts DEF Carried
<1>13. QED
  BY <1>4, <1>6, <1>8, <1>9, <1>10, <1>12, ClientWire

\* A step of a server on the connection it holds.
LEMMA OwnWire ==
  ASSUME WireInv, OrderInv', NEW s \in Servers, client[s].sock # NoConn,
         NEW f, client' = [client EXCEPT ![s] = f], f.sock = client[s].sock,
         NEW d, conn' = [conn EXCEPT ![client[s].sock] = d],
         Resting(f), Wire(f, d)
  PROVE  WireInv'
<1>1. Carried(Servers \ {s}) /\ conn'[client[s].sock] = d
  BY CarriedOthers
<1>2. QED
  BY <1>1, ClientWire

LEMMA Connected ==
  ASSUME WireInv, NEW s \in Servers, client[s].pc \in {"hello", "send", "header", "body"}
  PROVE  client[s].sock # NoConn
BY RestFields DEF Resting

LEMMA SendStepWire ==
  ASSUME WireInv, OrderInv', NEW s \in Servers, Send(s)
  PROVE  WireInv'
<1> DEFINE k == client[s].sock
<1>1. PICK q : q = conn[k].toServer \o IF ServerLost(k) THEN <<>>
                                       ELSE Request(client[s].seq, client[s].method)
  OBVIOUS
<1>2. PICK d : d = [conn[k] EXCEPT !.toServer = q]
  OBVIOUS
<1>3. PICK f : f = [client[s] EXCEPT !.pc = "header", !.seq = client[s].seq + 1]
  OBVIOUS
<1>4. /\ conn' = [conn EXCEPT ![k] = d] /\ client' = [client EXCEPT ![s] = f]
      /\ client[s].pc = "send"
  BY <1>1, <1>2, <1>3 DEF Send
<1>5. k # NoConn /\ Wire(client[s], conn[k]) /\ ConnField \subseteq DOMAIN conn[k]
  BY <1>4, Connected, HeldFacts
<1>6. /\ ConnField \subseteq DOMAIN d /\ d.toClient = conn[k].toClient /\ d.thread = conn[k].thread
      /\ d.reset = conn[k].reset /\ d.served = conn[k].served /\ d.id = conn[k].id
  BY <1>2, <1>5 DEF ConnField
<1>7. /\ {"pc", "sock", "reply", "result"} \subseteq DOMAIN f
      /\ f.sock = k /\ f.pc = "header" /\ f.result = client[s].result
  BY <1>3, RestFields
<1>8. Resting(f)
  BY <1>5, <1>7 DEF Resting
<1>9. Wire(f, d)
  BY <1>4, <1>5, <1>6, <1>7, SendWire
<1>10. QED
  BY <1>4, <1>5, <1>7, <1>8, <1>9, OwnWire

\* A frame the client takes off its connection.
LEMMA TakenOff ==
  ASSUME WireInv, NEW s \in Servers, client[s].pc \in {"hello", "header", "body"},
         conn[client[s].sock].toClient # <<>>,
         conn' = [conn EXCEPT ![client[s].sock].toClient = Tail(@)]
  PROVE  /\ client[s].sock # NoConn /\ Wire(client[s], conn[client[s].sock])
         /\ \E d : /\ conn' = [conn EXCEPT ![client[s].sock] = d]
                   /\ ReadOff(conn[client[s].sock], d)
<1> DEFINE k == client[s].sock
<1>1. k # NoConn /\ Wire(client[s], conn[k]) /\ ConnField \subseteq DOMAIN conn[k]
  BY Connected, HeldFacts
<1>2. PICK q : q = Tail(conn[k].toClient)
  OBVIOUS
<1>3. PICK d : d = [conn[k] EXCEPT !.toClient = q]
  OBVIOUS
<1>4. conn' = [conn EXCEPT ![k] = d]
  BY <1>2, <1>3
<1>5. ReadOff(conn[k], d)
  BY <1>1, <1>2, <1>3 DEF ReadOff, ConnField
<1>6. QED
  BY <1>1, <1>4, <1>5

LEMMA ReadSteps ==
  ASSUME WireInv, OrderInv', NEW s \in Servers,
         Hello(s) \/ RecvHeader(s) \/ RecvBody(s) \/ RecvFails(s)
  PROVE  WireInv'
<1> DEFINE k == client[s].sock
<1>1. CASE Hello(s)
  <2>1. CASE Close(s)
    BY <1>1, <2>1, CloseWire DEF Hello
  <2>2. CASE ClientGoes(s, "hello", "send") /\ conn' = [conn EXCEPT ![k].toClient = Tail(@)]
    <3>1. PICK f : f = [client[s] EXCEPT !.pc = "send"]
      OBVIOUS
    <3>2. /\ client' = [client EXCEPT ![s] = f] /\ client[s].pc = "hello"
          /\ conn[k].toClient # <<>>
      BY <1>1, <2>2, <3>1 DEF ClientGoes, Hello
    <3>3. /\ {"pc", "sock", "reply", "result"} \subseteq DOMAIN f
          /\ f.sock = k /\ f.pc = "send" /\ f.result = client[s].result
      BY <3>1, RestFields
    <3>4. PICK d : conn' = [conn EXCEPT ![k] = d] /\ ReadOff(conn[k], d)
      BY <2>2, <3>2, TakenOff
    <3>5. k # NoConn /\ Wire(client[s], conn[k])
      BY <2>2, <3>2, TakenOff
    <3>6. Resting(f)
      BY <3>3, <3>5 DEF Resting
    <3>7. Wire(f, d)
      BY <3>2, <3>3, <3>4, <3>5, HelloWire
    <3>8. QED
      BY <3>2, <3>3, <3>4, <3>5, <3>6, <3>7, OwnWire
  <2>3. QED
    BY <1>1, <2>1, <2>2 DEF Hello
<1>2. CASE RecvHeader(s)
  <2>1. PICK h : h = Head(conn[k].toClient)
    OBVIOUS
  <2>2. PICK f : f = [client[s] EXCEPT !.pc = "body", !.reply = h]
    OBVIOUS
  <2>3. /\ client' = [client EXCEPT ![s] = f] /\ client[s].pc = "header"
        /\ conn[k].toClient # <<>> /\ conn' = [conn EXCEPT ![k].toClient = Tail(@)]
    BY <1>2, <2>1, <2>2 DEF RecvHeader
  <2>4. /\ {"pc", "sock", "reply", "result"} \subseteq DOMAIN f /\ f.reply = h
        /\ f.sock = k /\ f.pc = "body" /\ f.result = client[s].result
    BY <2>2, RestFields
  <2>5. PICK d : conn' = [conn EXCEPT ![k] = d] /\ ReadOff(conn[k], d)
    BY <2>3, TakenOff
  <2>6. k # NoConn /\ Wire(client[s], conn[k])
    BY <2>3, TakenOff
  <2>7. Resting(f)
    BY <2>4, <2>6 DEF Resting
  <2>8. Wire(f, d)
    BY <2>1, <2>3, <2>4, <2>5, <2>6, RecvHeaderWire
  <2>9. QED
    BY <2>3, <2>4, <2>5, <2>6, <2>7, <2>8, OwnWire
<1>3. CASE RecvBody(s)
  <2>1. PICK id : id = client[s].seq - 1
    OBVIOUS
  <2>2. PICK x : x = {r \in {[call |-> id, answer |-> Head(conn[k].toClient).id]} :
                        client[s].reply.id = id /\ ~client[s].reply.error}
    OBVIOUS
  <2>3. PICK f : f = [client[s] EXCEPT !.pc = "idle", !.reply = NoReply, !.method = NoMethod,
                                       !.result = x]
    OBVIOUS
  <2>4. /\ client' = [client EXCEPT ![s] = f] /\ client[s].pc = "body"
        /\ conn[k].toClient # <<>> /\ conn' = [conn EXCEPT ![k].toClient = Tail(@)]
    BY <1>3, <2>1, <2>2, <2>3 DEF RecvBody
  <2>5. /\ {"pc", "sock", "reply", "result"} \subseteq DOMAIN f
        /\ f.sock = k /\ f.pc = "idle" /\ f.result = x
    BY <2>3, RestFields
  <2>6. PICK d : conn' = [conn EXCEPT ![k] = d] /\ ReadOff(conn[k], d)
    BY <2>4, TakenOff
  <2>7. k # NoConn /\ Wire(client[s], conn[k])
    BY <2>4, TakenOff
  <2>8. Resting(f)
    BY <2>5, <2>7 DEF Resting
  <2>9. Wire(f, d)
    <3>1. f.result = {r \in {[call |-> id, answer |-> Head(conn[k].toClient).id]} :
                        client[s].reply.id = id /\ ~client[s].reply.error}
      BY <2>2, <2>5
    <3>2. f.pc = "idle" /\ client[s].pc = "body" /\ ReadOff(conn[k], d) /\ Wire(client[s], conn[k])
      BY <2>4, <2>5, <2>6, <2>7
    <3>3. QED
      BY ONLY <3>1, <3>2, RecvBodyWire
  <2>10. QED
    BY <2>4, <2>5, <2>6, <2>7, <2>8, <2>9, OwnWire
<1>4. CASE RecvFails(s)
  <2>1. CASE client[s].pc = "hello" /\ Close(s)
    BY <2>1, CloseWire
  <2>2. CASE /\ client[s].pc \in {"header", "body"}
             /\ client' = [client EXCEPT ![s].pc = "idle", ![s].reply = NoReply,
                                        ![s].method = NoMethod]
             /\ UNCHANGED conn
    <3>1. PICK f : f = [client[s] EXCEPT !.pc = "idle", !.reply = NoReply, !.method = NoMethod]
      OBVIOUS
    <3>2. client' = [client EXCEPT ![s] = f] /\ conn' = conn
      BY <2>2, <3>1
    <3>3. /\ {"pc", "sock", "reply", "result"} \subseteq DOMAIN f
          /\ f.sock = k /\ f.pc = "idle" /\ f.result = client[s].result
      BY <3>1, RestFields
    <3>4. k # NoConn /\ conn[k].toClient = <<>> /\ Lost(conn[k])
      BY <1>4 DEF RecvFails, ServerLost, Lost
    <3>5. Resting(f)
      BY <3>3, <3>4 DEF Resting
    <3>6. Wire(f, conn[f.sock])
      BY <2>2, <3>3, <3>4, HeldFacts, MoveWire
    <3>7. QED
      BY <3>2, <3>3, <3>5, <3>6, LocalWire
  <2>3. QED
    BY <1>4, <2>1, <2>2 DEF RecvFails
<1>5. QED
  BY <1>1, <1>2, <1>3, <1>4

LEMMA WireNext == WireInv /\ [Next]_vars => WireInv'
<1> SUFFICES ASSUME WireInv, [Next]_vars PROVE WireInv'
  OBVIOUS
<1>1. OrderInv'
  BY OrderNext DEF WireInv
<1>2. ASSUME NEW s \in Servers,
             GameInit(s) \/ (\E m \in Methods : Call(s, m)) \/ CallStep(s) \/ Shutdown(s)
      PROVE  WireInv'
  <2>1. CASE \E k \in Conns : Dial(s, k)
    BY <1>1, <2>1, DialWire
  <2>2. CASE Send(s)
    BY <1>1, <2>2, SendStepWire
  <2>3. CASE GameInit(s) \/ (\E m \in Methods : Call(s, m)) \/ DialFails(s) \/ SendFails(s)
    BY <1>1, <2>3, LocalSteps
  <2>4. CASE Hello(s) \/ RecvHeader(s) \/ RecvBody(s) \/ RecvFails(s)
    BY <1>1, <2>4, ReadSteps
  <2>5. CASE Shutdown(s)
    BY <1>1, <2>5, ShutdownWire
  <2>6. QED
    BY <1>2, <2>1, <2>2, <2>3, <2>4, <2>5 DEF CallStep
<1>3. ASSUME NEW k \in Conns, NetworkBreaks(k) \/ FrameLost(k) PROVE WireInv'
  <2>1. client' = client
    BY <1>3 DEF NetworkBreaks, FrameLost
  <2>2. QED
    BY <1>1, <1>3, <2>1, NetworkCarried, DaemonWire
<1>4. ASSUME NEW k \in Conns, Accept(k) \/ ServeProc(k) PROVE WireInv'
  <2>1. client' = client
    BY <1>4 DEF Accept, ServeProc, Handshake, ReadHeader, UnknownMethod, BodyAsHeader, ReadBody,
                CallMethod, SendResponse, ConnFails, Disconnect, DeleteConn
  <2>2. QED
    BY <1>1, <1>4, <2>1, ThreadCarried, DaemonWire
<1>5. CASE Die
  <2>1. client' = client
    BY <1>5 DEF Die
  <2>2. QED
    BY <1>1, <1>5, <2>1, DieCarried, DaemonWire
<1>6. ASSUME NEW k \in Conns, CommandCrashes(k) PROVE WireInv'
  BY <1>5, <1>6 DEF CommandCrashes
<1>7. CASE Start \/ UNCHANGED vars
  <2>1. client' = client /\ conn' = conn
    BY <1>7 DEF Start, vars
  <2>2. QED
    BY <1>1, <2>1, CarriedSame, DaemonWire
<1>8. QED
  BY <1>2, <1>3, <1>4, <1>5, <1>6, <1>7 DEF Next

LEMMA WireInit == Init => WireInv
<1> SUFFICES ASSUME Init PROVE WireInv
  OBVIOUS
<1>1. OrderInv
  BY OrderInit
<1>2. Resting(NewClient) /\ NewClient.sock = NoConn
  BY DEF Resting, NewClient
<1>3. QED
  BY <1>1, <1>2 DEF Init, WireInv

-------------------------------------------------------------------------------
(* The theorems.                                                           *)

\* The client reads a header where the daemon has sent one and a body where it
\* has sent one, whatever earlier calls that failed have left in the stream.
THEOREM ClientReadsInStep == Spec => []ClientFraming
<1>1. WireInv => ClientFraming
  <2> SUFFICES ASSUME WireInv, NEW s \in Servers, client[s].sock # NoConn,
                      conn[client[s].sock].toClient # <<>>
               PROVE  LET kind == Head(conn[client[s].sock].toClient).kind IN
                        /\ client[s].pc = "hello" => kind \in {"ok", "denied"}
                        /\ client[s].pc \in {"send", "header"} => kind = "response"
                        /\ client[s].pc = "body" => kind = "body"
    BY DEF ClientFraming
  <2>1. PICK q : q = conn[client[s].sock].toClient
    OBVIOUS
  <2>2. q \in Seq(Replies) /\ Paired(q) /\ First(client[s], q) /\ q # <<>>
    BY <2>1, HeldFacts DEF Wire
  <2>3. Head(q) = q[1]
    BY <2>2, TailStream
  <2>4. QED
    BY <2>1, <2>2, <2>3 DEF First
<1>2. QED
  BY <1>1, WireInit, WireNext, PTL DEF Spec

\* A call that returns Nil has been executed once, and is handed its own reply.
THEOREM NilMeansExecutedOnce == Spec => []NilIsOwnAnswer
<1>1. WireInv => NilIsOwnAnswer
  <2> SUFFICES ASSUME WireInv, NEW s \in Servers, NEW r \in client[s].result
               PROVE  /\ r.answer = r.call
                      /\ Cardinality({i \in DOMAIN conn[client[s].sock].served :
                                        conn[client[s].sock].served[i] = r.call}) = 1
    BY DEF NilIsOwnAnswer
  <2>1. client[s].sock # NoConn
    BY RestFields DEF Resting
  <2>2. PICK c : c = conn[client[s].sock]
    OBVIOUS
  <2>3. r.answer = r.call /\ Executed(c, r.call) /\ InOrder(c)
    BY <2>1, <2>2, HeldFacts DEF Wire, Answered
  <2>4. PICK i \in DOMAIN c.served : c.served[i] = r.call
    BY <2>3 DEF Executed
  <2>5. \A j \in DOMAIN c.served : c.served[j] = r.call => j = i
    <3>1. DOMAIN c.served \subseteq Nat /\ \A j \in DOMAIN c.served : c.served[j] \in Nat
      BY <2>3, SeqFacts DEF InOrder
    <3>2. ASSUME NEW j \in DOMAIN c.served, c.served[j] = r.call, j # i PROVE FALSE
      <4>1. i < j \/ j < i
        BY <3>1, <3>2
      <4>2. c.served[i] < c.served[j] \/ c.served[j] < c.served[i]
        BY <2>3, <4>1 DEF InOrder
      <4>3. QED
        BY <2>4, <3>1, <3>2, <4>2
    <3>3. QED
      BY <3>2
  <2>6. {j \in DOMAIN c.served : c.served[j] = r.call} = {i}
    BY <2>4, <2>5
  <2>7. Cardinality({i}) = 1
    BY FS_Singleton
  <2>8. QED
    BY <2>2, <2>3, <2>6, <2>7
<1>2. QED
  BY <1>1, WireInit, WireNext, PTL DEF Spec

-------------------------------------------------------------------------------
(* A command finds its client registered: every Command has a Register     *)
(* ahead of it on its connection, unless that was dialled after the level  *)
(* had called Register.                                                    *)

InHand(c, m) == c.thread \in {"body", "call"} /\ c.method = m

Asks(f, m) == f.kind = "request" /\ f.method = m

Registered(c, l, k) == c.thread \in Serving /\ l[c.addr] = k

\* The connection k is registered, or will be before its frame n is read, or
\* that will not be read.
Ahead(c, l, k, n) ==
  \/ c.thread \in {"disconnect", "delete", "gone"}
  \/ Registered(c, l, k)
  \/ InHand(c, "Register")
  \/ \E i \in DOMAIN c.toServer : i < n /\ Asks(c.toServer[i], "Register")

Ready(c, l, k) ==
  c.orphan = FALSE =>
    /\ InHand(c, "Command") => Registered(c, l, k)
    /\ \A j \in DOMAIN c.toServer : Asks(c.toServer[j], "Command") => Ahead(c, l, k, j)

\* The thread takes no request for a body.
Requests(c) ==
  /\ \A i \in DOMAIN c.toServer :
       c.toServer[i].kind = "request" /\ i + 1 \in DOMAIN c.toServer => c.toServer[i + 1].kind = "body"
  /\ c.thread = "body" /\ c.toServer # <<>> => c.toServer[1].kind = "body"
  /\ c.thread \in {"backlog", "handshake"} => c.toServer \in {<<>>, <<Key>>}

\* No request is without its body while the connection lasts.
Full(c) ==
  ~Lost(c) => IF c.toServer = <<>> THEN c.thread # "body"
              ELSE c.toServer[Len(c.toServer)].kind # "request"

\* The level's Register has been sent, or has failed.
Past(e) ==
  e.level = "running" /\ ~(e.method = "Register" /\ e.pc \in {"hello", "send"})

Sessions(e, c, l, k) ==
  /\ Full(c)
  /\ Past(e) /\ c.orphan = FALSE /\ ~Lost(c) => Ahead(c, l, k, Len(c.toServer) + 1)

Fielded(c) ==
  /\ {"thread", "addr", "method", "orphan", "reset", "toServer", "toClient", "id"} \subseteq DOMAIN c
  /\ c.orphan \in BOOLEAN

Good(c, l, k) ==
  Fielded(c) /\ c.toServer \in Seq(Frames) /\ Requests(c) /\ Ready(c, l, k)

RegInv ==
  /\ IInv /\ WireInv
  /\ \A k \in Conns : Good(conn[k], clList, k)
  /\ \A s \in Servers : /\ "level" \in DOMAIN client[s]
                        /\ client[s].method = "Command" => client[s].level = "running"
                        /\ client[s].sock # NoConn =>
                             Sessions(client[s], conn[client[s].sock], clList, client[s].sock)

\* Who serves under d has served under c, or is registered now.
Follows(c, l, d, m, k) ==
  /\ d.orphan = c.orphan /\ (Lost(c) => Lost(d))
  /\ Registered(c, l, k) => Registered(d, m, k) \/ d.thread \in {"disconnect", "delete", "gone"}
  /\ c.thread \in {"disconnect", "delete", "gone"} => d.thread \in {"disconnect", "delete", "gone"}

\* A step that reads nothing off the connection.
LEMMA StayGood ==
  ASSUME NEW c, NEW l, NEW k, Good(c, l, k), NEW d, NEW m, Fielded(d), Follows(c, l, d, m, k),
         d.toServer = c.toServer,
         InHand(c, "Register") =>
           \/ InHand(d, "Register") \/ Registered(d, m, k)
           \/ d.thread \in {"disconnect", "delete", "gone"},
         InHand(d, "Command") => InHand(c, "Command") /\ (Registered(c, l, k) => Registered(d, m, k)),
         d.thread = "body" => c.thread = "body",
         d.thread \in {"backlog", "handshake"} => c.thread \in {"backlog", "handshake"}
  PROVE  Good(d, m, k) /\ \A e : Sessions(e, c, l, k) => Sessions(e, d, m, k)
<1>1. \A n : Ahead(c, l, k, n) => Ahead(d, m, k, n)
  BY DEF Ahead, Follows
<1>2. Ready(d, m, k)
  BY <1>1 DEF Good, Ready, Follows
<1>3. Requests(d)
  BY DEF Good, Requests
<1>4. Good(d, m, k)
  BY <1>2, <1>3 DEF Good, Fielded
<1>5. ASSUME NEW e, Sessions(e, c, l, k) PROVE Sessions(e, d, m, k)
  <2>1. Full(d)
    BY <1>5 DEF Sessions, Full, Follows
  <2>2. Past(e) /\ d.orphan = FALSE /\ ~Lost(d) => Ahead(d, m, k, Len(d.toServer) + 1)
    BY <1>1, <1>5 DEF Sessions, Follows
  <2>3. QED
    BY <2>1, <2>2 DEF Sessions
<1>6. QED
  BY <1>4, <1>5

LEMMA EmptyGood ==
  ASSUME NEW d, NEW m, NEW k, Fielded(d), d.toServer = <<>>,
         d.thread \in {"unused", "gone", "backlog"}
  PROVE  Good(d, m, k) /\ (d.thread = "gone" => \A e : Sessions(e, d, m, k))
<1>1. Requests(d) /\ Ready(d, m, k)
  BY EmptySeq DEF Requests, Ready, InHand
<1>2. Good(d, m, k)
  BY <1>1, EmptySeq DEF Good, Fielded
<1>3. ASSUME NEW e, d.thread = "gone" PROVE Sessions(e, d, m, k)
  BY <1>3 DEF Sessions, Full, Lost
<1>4. QED
  BY <1>2, <1>3

\* The last frame of a connection is lost.
LEMMA FrontGood ==
  ASSUME NEW c, NEW l, NEW k, Good(c, l, k), c.toServer # <<>>,
         NEW d, Fielded(d), d.toServer = Front(c.toServer), d.thread = c.thread,
         d.orphan = c.orphan, d.addr = c.addr, d.method = c.method, d.reset = c.reset
  PROVE  Good(d, l, k) /\ (Lost(c) => \A e : Sessions(e, d, l, k))
<1>1. PICK r : r = Front(c.toServer)
  OBVIOUS
<1>2. r \in Seq(Frames) /\ Left(c.toServer, r, 0)
  BY <1>1, FrontLeft DEF Good
<1>3. DOMAIN r \subseteq Nat
  BY <1>2, SeqFacts
<1>4. \A i \in DOMAIN r : i \in DOMAIN c.toServer /\ r[i] = c.toServer[i]
  <2>1. \A i \in DOMAIN r : i + 0 = i
    BY <1>3
  <2>2. QED
    BY <1>2, <2>1 DEF Left
<1>5. DOMAIN c.toServer \subseteq Nat /\ \A i \in DOMAIN r, j \in DOMAIN c.toServer : j < i => j \in DOMAIN r
  <2>1. /\ Len(r) \in Nat /\ DOMAIN r = 1 .. Len(r)
        /\ Len(c.toServer) \in Nat /\ DOMAIN c.toServer = 1 .. Len(c.toServer)
    BY <1>2, SeqFacts DEF Good
  <2>2. QED
    BY <2>1
<1>6. r # <<>> => 1 \in DOMAIN r
  <2>1. Len(r) \in Nat /\ DOMAIN r = 1 .. Len(r) /\ (r # <<>> => Len(r) # 0)
    BY <1>2, SeqFacts, EmptySeq
  <2>2. QED
    BY <2>1
<1>7. c.toServer = <<Key>> => r = <<>>
  BY <1>1 DEF Front
<1>8. Requests(d)
  <2>1. \A i \in DOMAIN r :
          r[i].kind = "request" /\ i + 1 \in DOMAIN r => r[i + 1].kind = "body"
    BY <1>4 DEF Good, Requests
  <2>2. c.thread = "body" /\ r # <<>> => r[1].kind = "body"
    BY <1>4, <1>6 DEF Good, Requests
  <2>3. c.thread \in {"backlog", "handshake"} => r \in {<<>>, <<Key>>}
    BY <1>7 DEF Good, Requests
  <2>4. QED
    BY <1>1, <2>1, <2>2, <2>3 DEF Requests
<1>9. Ready(d, l, k)
  <2>1. /\ InHand(d, "Command") <=> InHand(c, "Command")
        /\ InHand(d, "Register") <=> InHand(c, "Register")
        /\ Registered(d, l, k) <=> Registered(c, l, k)
    BY DEF InHand, Registered
  <2>2. ASSUME NEW j \in DOMAIN r, Ahead(c, l, k, j) PROVE Ahead(d, l, k, j)
    BY <1>1, <1>4, <1>5, <2>1, <2>2 DEF Ahead
  <2>3. QED
    BY <1>1, <1>4, <2>1, <2>2 DEF Good, Ready
<1>10. Good(d, l, k)
  BY <1>1, <1>2, <1>8, <1>9 DEF Good, Fielded
<1>11. ASSUME NEW e, Lost(c) PROVE Sessions(e, d, l, k)
  BY <1>11 DEF Sessions, Full, Lost
<1>12. QED
  BY <1>10, <1>11

\* The thread reads a frame that is no Register and takes no Command from it.
LEMMA ReadGood ==
  ASSUME NEW c, NEW l, NEW k, Good(c, l, k), c.toServer # <<>>,
         c.thread \in {"handshake", "header", "body"},
         NEW d, Fielded(d), d.toServer = Tail(c.toServer),
         d.orphan = c.orphan, d.addr = c.addr, d.reset = c.reset,
         d.thread \in {"header", "body", "call", "disconnect"},
         d.thread = "body" => c.thread = "header" /\ Head(c.toServer).kind = "request",
         Asks(Head(c.toServer), "Register") => InHand(d, "Register") \/ d.thread = "disconnect",
         InHand(c, "Register") => InHand(d, "Register") \/ d.thread = "disconnect",
         InHand(d, "Command") =>
           \/ InHand(c, "Command")
           \/ c.thread = "header" /\ Asks(Head(c.toServer), "Command")
  PROVE  Good(d, l, k) /\ \A e : Sessions(e, c, l, k) => Sessions(e, d, l, k)
<1>1. PICK r : r = Tail(c.toServer)
  OBVIOUS
<1>2. PICK q : q = c.toServer
  OBVIOUS
<1>3. q \in Seq(Frames) /\ q # <<>>
  BY <1>2 DEF Good
<1>4. /\ r \in Seq(Frames) /\ Len(r) = Len(q) - 1
      /\ \A i \in 1 .. Len(r) : r[i] = q[i + 1]
      /\ Head(q) = q[1]
  BY <1>1, <1>2, <1>3, HeadTailProperties
<1>5. /\ Len(q) \in Nat /\ DOMAIN q = 1 .. Len(q) /\ Len(q) # 0
      /\ Len(r) \in Nat /\ DOMAIN r = 1 .. Len(r) /\ (r # <<>> => Len(r) # 0) /\ (r = <<>> => Len(r) = 0)
  BY <1>3, <1>4, SeqFacts, EmptySeq
<1>6. /\ 1 \in DOMAIN q
      /\ \A i \in DOMAIN r : i \in Nat /\ i + 1 \in DOMAIN q /\ r[i] = q[i + 1]
      /\ \A i \in DOMAIN q : i = 1 \/ (i - 1 \in DOMAIN r /\ r[i - 1] = q[i] /\ i - 1 \in Nat)
      /\ Len(r) + 1 = Len(q)
  BY <1>4, <1>5
<1>7. /\ d.toServer = r /\ d.thread \notin {"backlog", "handshake", "gone", "delete", "reply"}
      /\ Registered(c, l, k) => Registered(d, l, k) \/ d.thread = "disconnect"
      /\ Lost(c) <=> Lost(d)
  BY <1>1 DEF Registered, Serving, Lost
<1>8. \A n \in Nat : Ahead(c, l, k, n + 1) => Ahead(d, l, k, n)
  <2> SUFFICES ASSUME NEW n \in Nat, Ahead(c, l, k, n + 1) PROVE Ahead(d, l, k, n)
    OBVIOUS
  <2>1. CASE Registered(c, l, k) \/ InHand(c, "Register")
    BY <1>7, <2>1 DEF Ahead
  <2>2. ASSUME NEW i \in DOMAIN q, i < n + 1, Asks(q[i], "Register") PROVE Ahead(d, l, k, n)
    <3>1. CASE i = 1
      BY <1>2, <1>4, <2>2, <3>1 DEF Ahead
    <3>2. CASE i # 1
      <4>1. i - 1 \in DOMAIN r /\ Asks(r[i - 1], "Register") /\ i \in Nat
        BY <1>5, <1>6, <2>2, <3>2
      <4>2. i - 1 < n
        BY <2>2, <4>1
      <4>3. QED
        BY <1>7, <4>1, <4>2 DEF Ahead
    <3>3. QED
      BY <3>1, <3>2
  <2>3. QED
    BY <1>2, <2>1, <2>2 DEF Ahead
<1>9. Ready(d, l, k)
  <2> SUFFICES ASSUME d.orphan = FALSE
               PROVE  /\ InHand(d, "Command") => Registered(d, l, k)
                      /\ \A j \in DOMAIN r : Asks(r[j], "Command") => Ahead(d, l, k, j)
    BY <1>7 DEF Ready
  <2>1. \A j \in DOMAIN q : Asks(q[j], "Command") => Ahead(c, l, k, j)
    BY <1>2 DEF Good, Ready
  <2>2. ASSUME NEW j \in DOMAIN r, Asks(r[j], "Command") PROVE Ahead(d, l, k, j)
    BY <1>6, <1>8, <2>1, <2>2
  <2>3. ASSUME InHand(d, "Command") PROVE Registered(c, l, k)
    <3>1. CASE InHand(c, "Command")
      BY <3>1 DEF Good, Ready
    <3>2. CASE c.thread = "header" /\ Asks(q[1], "Command")
      <4>1. Ahead(c, l, k, 1)
        BY <1>6, <2>1, <3>2
      <4>2. \A i \in DOMAIN q : ~(i < 1)
        BY <1>5
      <4>3. QED
        BY <1>2, <3>2, <4>1, <4>2 DEF Ahead, InHand
    <3>3. QED
      BY <1>2, <1>4, <2>3, <3>1, <3>2
  <2>4. QED
    BY <1>7, <2>2, <2>3 DEF InHand
<1>10. Requests(d)
  <2>1. \A i \in DOMAIN r :
          r[i].kind = "request" /\ i + 1 \in DOMAIN r => r[i + 1].kind = "body"
    BY <1>2, <1>6 DEF Good, Requests
  <2>2. d.thread = "body" /\ r # <<>> => r[1].kind = "body"
    <3>1. ASSUME d.thread = "body", r # <<>> PROVE r[1].kind = "body"
      <4>1. 1 \in DOMAIN r /\ q[1].kind = "request"
        BY <1>2, <1>4, <1>5, <3>1
      <4>2. r[1] = q[1 + 1] /\ 1 + 1 \in DOMAIN q
        BY <1>6, <4>1
      <4>3. QED
        BY <1>2, <1>6, <4>1, <4>2 DEF Good, Requests
    <3>2. QED
      BY <3>1
  <2>3. QED
    BY <1>7, <2>1, <2>2 DEF Requests
<1>11. Good(d, l, k)
  BY <1>4, <1>7, <1>9, <1>10 DEF Good, Fielded
<1>12. ASSUME NEW e, Sessions(e, c, l, k) PROVE Sessions(e, d, l, k)
  <2>1. Full(d)
    <3> SUFFICES ASSUME ~Lost(d)
                 PROVE  IF r = <<>> THEN d.thread # "body" ELSE r[Len(r)].kind # "request"
      BY <1>7 DEF Full
    <3>1. q[Len(q)].kind # "request"
      BY <1>2, <1>3, <1>7, <1>12 DEF Sessions, Full
    <3>2. CASE r = <<>>
      <4>1. q[1].kind # "request"
        BY <1>5, <1>6, <3>1, <3>2
      <4>2. QED
        BY <1>2, <1>4, <3>2, <4>1
    <3>3. CASE r # <<>>
      <4>1. Len(r) \in DOMAIN r
        BY <1>5, <3>3
      <4>2. r[Len(r)] = q[Len(q)]
        BY <1>6, <4>1
      <4>3. QED
        BY <3>1, <3>3, <4>2
    <3>4. QED
      BY <3>2, <3>3
  <2>2. Past(e) /\ d.orphan = FALSE /\ ~Lost(d) => Ahead(d, l, k, Len(r) + 1)
    <3>1. Past(e) /\ d.orphan = FALSE /\ ~Lost(d) => Ahead(c, l, k, Len(q) + 1)
      BY <1>2, <1>7, <1>12 DEF Sessions
    <3>2. Len(q) + 1 = (Len(r) + 1) + 1 /\ Len(r) + 1 \in Nat
      BY <1>5, <1>6
    <3>3. QED
      BY <1>8, <3>1, <3>2
  <2>3. QED
    BY <1>7, <2>1, <2>2 DEF Sessions
<1>13. QED
  BY <1>11, <1>12

\* A client that sends, on a connection that lasts.
LEMMA SendGood ==
  ASSUME NEW c, NEW l, NEW k, Good(c, l, k), NEW e, Sessions(e, c, l, k), ~Lost(c),
         c.thread \notin {"backlog", "handshake"}, e.pc = "send",
         NEW n \in Nat, NEW w \in Methods \cup {NoMethod}, w = e.method,
         w = "Command" => e.level = "running",
         NEW d, Fielded(d), d.toServer = c.toServer \o Request(n, w), d.thread = c.thread,
         d.orphan = c.orphan, d.addr = c.addr, d.method = c.method, d.reset = c.reset,
         NEW f, f.level = e.level, f.method = w, f.pc = "header"
  PROVE  Good(d, l, k) /\ Sessions(f, d, l, k)
<1>1. PICK q : q = c.toServer
  OBVIOUS
<1>2. PICK p : p = Request(n, w)
  OBVIOUS
<1>3. PICK r : r = q \o p
  OBVIOUS
<1>4. PICK z \in Nat : z = Len(q)
  BY <1>1, SeqFacts DEF Good
<1>5. /\ q \in Seq(Frames) /\ DOMAIN q = 1 .. z /\ (q = <<>> => z = 0) /\ (q # <<>> => z # 0)
      /\ \A i \in DOMAIN q : q[i] \in Frames
  BY <1>1, <1>4, SeqFacts, EmptySeq DEF Good
<1>6. /\ p \in Seq(Frames) /\ Len(p) = 2
      /\ p[1].kind = "request" /\ p[1].method = w /\ p[2].kind = "body"
  BY <1>2 DEF Request, Body, Frames
<1>7. /\ r \in Seq(Frames) /\ Len(r) = z + 2
      /\ \A i \in 1 .. z + 2 : r[i] = IF i <= z THEN q[i] ELSE p[i - z]
  <2>1. /\ q \o p \in Seq(Frames) /\ Len(q \o p) = Len(q) + Len(p)
        /\ \A i \in 1 .. Len(q) + Len(p) : (q \o p)[i] = IF i <= Len(q) THEN q[i] ELSE p[i - Len(q)]
    <3>1. q \in Seq(Frames) /\ p \in Seq(Frames)
      BY <1>5, <1>6
    <3>2. QED
      BY ONLY <3>1, ConcatProperties
  <2>2. QED
    BY <1>3, <1>4, <1>6, <2>1
<1>8. /\ DOMAIN r = 1 .. z + 2 /\ r # <<>>
      /\ \A i \in 1 .. z : r[i] = q[i]
      /\ r[z + 1] = p[1] /\ r[z + 2] = p[2]
  <2>1. DOMAIN r = 1 .. z + 2 /\ r # <<>>
    BY <1>7, SeqFacts, EmptySeq
  <2>2. \A i \in 1 .. z : i \in 1 .. z + 2 /\ i <= z
    OBVIOUS
  <2>3. z + 1 \in 1 .. z + 2 /\ ~(z + 1 <= z) /\ (z + 1) - z = 1
    OBVIOUS
  <2>4. z + 2 \in 1 .. z + 2 /\ ~(z + 2 <= z) /\ (z + 2) - z = 2
    OBVIOUS
  <2>5. QED
    BY <1>7, <2>1, <2>2, <2>3, <2>4
<1>9. \A i \in 1 .. z + 2 : i \in 1 .. z \/ i = z + 1 \/ i = z + 2
  OBVIOUS
<1>10. d.toServer = r
  BY <1>1, <1>2, <1>3
<1>11. IF q = <<>> THEN c.thread # "body" ELSE q[z].kind # "request"
  BY <1>1, <1>4 DEF Sessions, Full
<1>12. Requests(d)
  <2>1. ASSUME NEW i \in 1 .. z + 2, r[i].kind = "request", i + 1 \in 1 .. z + 2
        PROVE  r[i + 1].kind = "body"
    <3>1. CASE i \in 1 .. z /\ i + 1 \in 1 .. z
      <4>1. r[i] = q[i] /\ r[i + 1] = q[i + 1]
        BY <1>8, <3>1
      <4>2. QED
        BY <1>1, <1>5, <2>1, <3>1, <4>1 DEF Good, Requests
    <3>2. CASE i = z
      <4>1. q # <<>> /\ r[i] = q[z]
        BY <1>5, <1>8, <3>2
      <4>2. QED
        BY <1>11, <2>1, <4>1
    <3>3. CASE i = z + 1
      <4>1. i + 1 = z + 2
        BY <3>3
      <4>2. QED
        BY <1>6, <1>8, <4>1
    <3>4. i + 1 \in 1 .. z \/ i = z \/ i = z + 1
      <4>1. i \in Nat /\ 1 <= i /\ i <= z + 1
        BY <2>1
      <4>2. QED
        BY <4>1
    <3>5. QED
      BY <3>1, <3>2, <3>3, <3>4
  <2>2. c.thread = "body" => r[1].kind = "body"
    <3>1. ASSUME c.thread = "body" PROVE r[1].kind = "body"
      <4>1. q # <<>>
        BY <1>11, <3>1
      <4>2. 1 \in 1 .. z
        BY <1>5, <4>1
      <4>3. QED
        BY <1>1, <1>8, <3>1, <4>1, <4>2 DEF Good, Requests
    <3>2. QED
      BY <3>1
  <2>3. QED
    BY <1>8, <1>10, <2>1, <2>2 DEF Requests
<1>13. \A x \in Nat : Ahead(c, l, k, x) => Ahead(d, l, k, x)
  BY <1>1, <1>5, <1>8, <1>10 DEF Ahead, Registered, InHand
<1>14. Past(e) /\ c.orphan = FALSE => Ahead(d, l, k, z + 1)
  <2>1. Past(e) /\ c.orphan = FALSE => Ahead(c, l, k, z + 1)
    BY <1>1, <1>4 DEF Sessions
  <2>2. QED
    BY <1>13, <2>1
<1>15. Ready(d, l, k)
  <2> SUFFICES ASSUME d.orphan = FALSE
               PROVE  /\ InHand(d, "Command") => Registered(d, l, k)
                      /\ \A j \in 1 .. z + 2 : Asks(r[j], "Command") => Ahead(d, l, k, j)
    BY <1>8, <1>10 DEF Ready
  <2>1. InHand(d, "Command") => Registered(d, l, k)
    BY DEF Good, Ready, InHand, Registered
  <2>2. ASSUME NEW j \in 1 .. z + 2, Asks(r[j], "Command") PROVE Ahead(d, l, k, j)
    <3>1. CASE j \in 1 .. z
      <4>1. Asks(q[j], "Command")
        BY <1>8, <2>2, <3>1
      <4>2. Ahead(c, l, k, j)
        BY <1>1, <1>5, <3>1, <4>1 DEF Good, Ready
      <4>3. QED
        BY <1>13, <4>2
    <3>2. CASE j = z + 1
      <4>1. w = "Command"
        BY <1>6, <1>8, <2>2, <3>2 DEF Asks
      <4>2. Past(e)
        BY <4>1 DEF Past
      <4>3. QED
        BY <1>14, <3>2, <4>2
    <3>3. CASE j = z + 2
      BY <1>6, <1>8, <2>2, <3>3 DEF Asks
    <3>4. QED
      BY <1>9, <3>1, <3>2, <3>3
  <2>3. QED
    BY <2>1, <2>2
<1>16. Sessions(f, d, l, k)
  <2>1. Full(d)
    BY <1>6, <1>7, <1>8, <1>10 DEF Full
  <2>2. ASSUME Past(f), d.orphan = FALSE PROVE Ahead(d, l, k, Len(r) + 1)
    <3>1. CASE w = "Register"
      <4>1. z + 1 \in DOMAIN r /\ z + 1 < Len(r) + 1 /\ Asks(r[z + 1], "Register")
        BY <1>6, <1>7, <1>8, <3>1 DEF Asks
      <4>2. QED
        BY <1>10, <4>1 DEF Ahead
    <3>2. CASE w # "Register"
      <4>1. Past(e)
        BY <2>2, <3>2 DEF Past
      <4>2. Ahead(d, l, k, z + 1)
        BY <1>14, <2>2, <4>1
      <4>3. \A i \in DOMAIN r : i < z + 1 => i < Len(r) + 1
        BY <1>7, <1>8
      <4>4. QED
        BY <1>10, <4>2, <4>3 DEF Ahead
    <3>3. QED
      BY <3>1, <3>2
  <2>3. QED
    BY <1>10, <2>1, <2>2 DEF Sessions
<1>17. Good(d, l, k)
  BY <1>7, <1>10, <1>12, <1>15 DEF Good, Fielded
<1>18. QED
  BY <1>16, <1>17

\* The connection k as a step leaves it suits the clients as they were.
Kept(S, k) ==
  /\ Good(conn'[k], clList', k)
  /\ \A t \in S : client[t].sock = k => Sessions(client[t], conn'[k], clList', k)

LEMMA ConnGood ==
  ASSUME RegInv, NEW k \in Conns
  PROVE  /\ Good(conn[k], clList, k) /\ Fielded(conn[k]) /\ DOMAIN conn = Conns
         /\ \A t \in Servers : client[t].sock = k => Sessions(client[t], conn[k], clList, k)
<1>1. \A t \in Servers : client[t].sock = k => client[t].sock # NoConn
  BY RpcSessionAssumption
<1>2. QED
  BY <1>1 DEF RegInv, Good, Fielded, IInv, Shape

LEMMA KeptFrom ==
  ASSUME RegInv, NEW k \in Conns, NEW d, conn'[k] = d, Good(d, clList', k),
         \A e : Sessions(e, conn[k], clList, k) => Sessions(e, d, clList', k)
  PROVE  Kept(Servers, k)
BY ConnGood DEF Kept

LEMMA KeptSame ==
  ASSUME RegInv, NEW k \in Conns, conn'[k] = conn[k],
         Registered(conn[k], clList, k) => Registered(conn[k], clList', k)
  PROVE  Kept(Servers, k)
<1>1. PICK c : c = conn[k]
  OBVIOUS
<1>2. PICK l : l = clList
  OBVIOUS
<1>3. PICK m : m = clList'
  OBVIOUS
<1>4. Good(c, l, k) /\ Fielded(c)
  BY <1>1, <1>2, ConnGood
<1>5. Follows(c, l, c, m, k)
  BY <1>1, <1>2, <1>3 DEF Follows
<1>6. Registered(c, l, k) => Registered(c, m, k)
  BY <1>1, <1>2, <1>3
<1>7. Good(c, m, k) /\ \A e : Sessions(e, c, l, k) => Sessions(e, c, m, k)
  BY ONLY <1>4, <1>5, <1>6, StayGood
<1>8. QED
  BY <1>1, <1>2, <1>3, <1>7, KeptFrom

\* A step on k that leaves the client list and the other connections alone.
LEMMA KeptOthers ==
  ASSUME RegInv, NEW k \in Conns, NEW d, conn' = [conn EXCEPT ![k] = d], clList' = clList,
         Good(d, clList, k), \A e : Sessions(e, conn[k], clList, k) => Sessions(e, d, clList, k)
  PROVE  \A j \in Conns : Kept(Servers, j)
<1>1. conn'[k] = d /\ \A j \in Conns \ {k} : conn'[j] = conn[j]
  BY ConnGood
<1>2. Kept(Servers, k)
  BY <1>1, KeptFrom
<1>3. \A j \in Conns \ {k} : Kept(Servers, j)
  BY <1>1, KeptSame
<1>4. QED
  BY <1>2, <1>3

LEMMA KeptSettled ==
  ASSUME RegInv, NEW S \in SUBSET Servers, NEW cn, NEW cl, conn' = Settled(cn, cl),
         \A t \in S : cl[t].sock = client[t].sock,
         NEW k \in Conns,
         \/ cn[k] = conn[k] /\ clList'= clList
         \/ cn[k] = [conn[k] EXCEPT !.thread = "gone", !.addr = NoAddress]
         \/ cn[k] = conn[k] /\ conn[k] = Unused
  PROVE  Kept(S, k)
<1>1. PICK c : c = cn[k]
  OBVIOUS
<1>2. PICK d : d = conn'[k]
  OBVIOUS
<1>3. Fielded(c) /\ (c.thread = "gone" \/ Good(c, clList', k))
  <2>1. Fielded(conn[k]) /\ Good(conn[k], clList, k)
    BY ConnGood
  <2>2. CASE c = conn[k] /\ clList' = clList
    BY <2>1, <2>2
  <2>3. CASE c = [conn[k] EXCEPT !.thread = "gone", !.addr = NoAddress]
    BY <2>1, <2>3 DEF Fielded
  <2>4. CASE c = Unused
    <3>1. Fielded(Unused) /\ Unused.toServer = <<>> /\ Unused.thread = "unused"
      BY DEF Fielded, Unused
    <3>2. QED
      BY <2>4, <3>1, EmptyGood
  <2>5. QED
    BY <1>1, <2>2, <2>3, <2>4
<1>4. d = IF Held(k, cl)
            THEN IF c.thread = "gone" THEN [c EXCEPT !.toServer = <<>>, !.reset = FALSE] ELSE c
            ELSE IF c.thread = "gone" THEN Unused ELSE [c EXCEPT !.toClient = <<>>]
  BY <1>1, <1>2 DEF Settled
<1>5. \A t \in S : client[t].sock = k => Held(k, cl)
  BY DEF Held
<1>6. CASE Held(k, cl) /\ c.thread = "gone"
  <2>1. Fielded(d) /\ d.toServer = <<>> /\ d.thread = "gone"
    BY <1>3, <1>4, <1>6 DEF Fielded
  <2>2. QED
    BY <1>2, <2>1, EmptyGood DEF Kept
<1>7. CASE Held(k, cl) /\ c.thread # "gone"
  <2>1. d = c
    BY <1>4, <1>7
  <2>2. (c = conn[k] /\ clList' = clList) \/ (c = Unused /\ c = conn[k])
    BY <1>1, <1>3, <1>7, ConnGood DEF Fielded
  <2>3. CASE c = conn[k] /\ clList' = clList
    BY <1>2, <2>1, <2>3, KeptSame DEF Kept
  <2>4. CASE c = Unused /\ c = conn[k]
    <3>1. ~Registered(conn[k], clList, k)
      BY <2>4 DEF Registered, Unused, Serving
    <3>2. QED
      BY <1>2, <2>1, <2>4, <3>1, KeptSame DEF Kept
  <2>5. QED
    BY <2>2, <2>3, <2>4
<1>8. CASE ~Held(k, cl) /\ c.thread = "gone"
  <2>1. Fielded(Unused) /\ Unused.toServer = <<>> /\ Unused.thread = "unused"
    BY DEF Fielded, Unused
  <2>2. Good(d, clList', k)
    BY <1>4, <1>8, <2>1, EmptyGood
  <2>3. QED
    BY <1>2, <1>5, <1>8, <2>2 DEF Kept
<1>9. CASE ~Held(k, cl) /\ c.thread # "gone"
  <2>1. d = [c EXCEPT !.toClient = <<>>]
    BY <1>4, <1>9
  <2>2. /\ Fielded(d) /\ d.thread = c.thread /\ d.addr = c.addr /\ d.method = c.method
        /\ d.orphan = c.orphan /\ d.reset = c.reset /\ d.toServer = c.toServer
    BY <1>3, <2>1 DEF Fielded
  <2>3. PICK m : m = clList'
    OBVIOUS
  <2>4. Good(c, m, k)
    BY <1>3, <1>9, <2>3
  <2>5. /\ Registered(c, m, k) <=> Registered(d, m, k)
        /\ InHand(c, "Register") <=> InHand(d, "Register")
        /\ InHand(c, "Command") <=> InHand(d, "Command")
        /\ Lost(c) <=> Lost(d)
    BY <2>2 DEF Registered, InHand, Lost
  <2>6. Follows(c, m, d, m, k)
    BY <2>2, <2>5 DEF Follows
  <2>7. Good(d, m, k)
    BY ONLY <2>2, <2>4, <2>5, <2>6, StayGood
  <2>8. QED
    BY <1>2, <1>5, <1>9, <2>3, <2>7 DEF Kept
<1>10. QED
  BY <1>6, <1>7, <1>8, <1>9

LEMMA DaemonReg ==
  ASSUME RegInv, IInv', WireInv', \A k \in Conns : Kept(Servers, k), client' = client
  PROVE  RegInv'
<1>1. \A k \in Conns : Good(conn'[k], clList', k)
  BY DEF Kept
<1>2. ASSUME NEW s \in Servers, client[s].sock # NoConn
      PROVE  Sessions(client[s], conn'[client[s].sock], clList', client[s].sock)
  <2>1. client[s].sock \in Conns
    BY <1>2, HeldFacts DEF RegInv
  <2>2. QED
    BY <2>1 DEF Kept
<1>3. \A s \in Servers : /\ "level" \in DOMAIN client[s]
                         /\ client[s].method = "Command" => client[s].level = "running"
  BY DEF RegInv
<1>4. QED
  BY <1>1, <1>2, <1>3 DEF RegInv

LEMMA ClientReg ==
  ASSUME RegInv, IInv', WireInv', NEW s \in Servers, NEW f, client' = [client EXCEPT ![s] = f],
         "level" \in DOMAIN f, f.method = "Command" => f.level = "running",
         \A k \in Conns : Kept(Servers \ {s}, k),
         f.sock # NoConn => Sessions(f, conn'[f.sock], clList', f.sock)
  PROVE  RegInv'
<1>1. client'[s] = f /\ \A t \in Servers \ {s} : client'[t] = client[t]
  BY ServerFields DEF RegInv, WireInv
<1>2. \A k \in Conns : Good(conn'[k], clList', k)
  BY DEF Kept
<1>3. ASSUME NEW t \in Servers \ {s}, client[t].sock # NoConn
      PROVE  Sessions(client[t], conn'[client[t].sock], clList', client[t].sock)
  <2>1. client[t].sock \in Conns
    BY <1>3, HeldFacts DEF RegInv
  <2>2. QED
    BY <2>1 DEF Kept
<1>4. \A t \in Servers : /\ "level" \in DOMAIN client'[t]
                         /\ client'[t].method = "Command" => client'[t].level = "running"
  BY <1>1 DEF RegInv
<1>5. QED
  BY <1>1, <1>2, <1>3, <1>4 DEF RegInv

-------------------------------------------------------------------------------
(* The steps of the daemon and of the network.                             *)

\* The thread of k reads a frame that has nothing to register.
LEMMA ReadsKept ==
  ASSUME RegInv, NEW k \in Conns, NEW from \in {"handshake", "header", "body"},
         NEW to \in {"header", "call", "disconnect"}, from = "body" <=> to = "call",
         NEW out, Reads(k, from, to, out), clList' = clList,
         ~Asks(Head(conn[k].toServer), "Register")
  PROVE  \A j \in Conns : Kept(Servers, j)
<1>1. PICK c : c = conn[k]
  OBVIOUS
<1>2. PICK x : x = Sent(k, out)
  OBVIOUS
<1>3. PICK d : d = [c EXCEPT !.thread = to, !.toServer = Tail(c.toServer), !.toClient = x]
  OBVIOUS
<1>4. conn' = [conn EXCEPT ![k] = d] /\ c.thread = from /\ c.toServer # <<>>
  BY <1>1, <1>2, <1>3 DEF Reads
<1>5. Good(c, clList, k) /\ Fielded(c)
  BY <1>1, ConnGood
<1>6. /\ Fielded(d) /\ d.thread = to /\ d.toServer = Tail(c.toServer) /\ d.orphan = c.orphan
      /\ d.addr = c.addr /\ d.reset = c.reset /\ d.method = c.method
  BY ONLY <1>3, <1>5 DEF Fielded
<1>7. /\ InHand(c, "Register") => InHand(d, "Register")
      /\ InHand(d, "Command") => InHand(c, "Command")
  BY <1>4, <1>6 DEF InHand
<1>8. ~Asks(Head(c.toServer), "Register")
  BY <1>1
<1>9. /\ c.thread \in {"handshake", "header", "body"} /\ d.thread # "body"
      /\ d.thread \in {"header", "body", "call", "disconnect"}
  BY <1>4, <1>6
<1>10. Good(d, clList, k) /\ \A e : Sessions(e, c, clList, k) => Sessions(e, d, clList, k)
  BY ONLY <1>4, <1>5, <1>6, <1>7, <1>8, <1>9, ReadGood
<1>11. QED
  BY <1>1, <1>4, <1>10, KeptOthers

LEMMA ReadKept ==
  ASSUME RegInv, NEW k \in Conns,
         Handshake(k) \/ ReadHeader(k) \/ UnknownMethod(k) \/ BodyAsHeader(k) \/ ReadBody(k)
  PROVE  \A j \in Conns : Kept(Servers, j)
<1>1. clList' = clList
  BY DEF Handshake, ReadHeader, UnknownMethod, BodyAsHeader, ReadBody
<1>2. PICK c : c = conn[k]
  OBVIOUS
<1>3. Good(c, clList, k) /\ Fielded(c)
  BY <1>2, ConnGood
<1>4. c.toServer # <<>> => Head(c.toServer) = c.toServer[1]
  BY <1>3, HeadTailProperties DEF Good
<1>5. CASE Handshake(k)
  <2>1. c.thread = "handshake" /\ c.toServer # <<>>
    BY <1>2, <1>5 DEF Handshake, Reads
  <2>2. Head(c.toServer) = Key
    BY <1>3, <1>4, <2>1 DEF Good, Requests
  <2>3. ~Asks(Head(c.toServer), "Register")
    BY <2>2 DEF Asks, Key
  <2>4. PICK to \in {"header", "disconnect"} : \E out : Reads(k, "handshake", to, out)
    BY <1>5 DEF Handshake
  <2>5. QED
    BY <1>1, <1>2, <2>3, <2>4, ReadsKept
<1>6. CASE UnknownMethod(k)
  <2>1. ~Asks(Head(conn[k].toServer), "Register")
    BY <1>6 DEF UnknownMethod, Asks
  <2>2. \E out : Reads(k, "header", "header", out)
    BY <1>6 DEF UnknownMethod
  <2>3. QED
    BY <1>1, <2>1, <2>2, ReadsKept
<1>7. CASE BodyAsHeader(k)
  <2>1. ~Asks(Head(conn[k].toServer), "Register")
    BY <1>7 DEF BodyAsHeader, Asks
  <2>2. PICK to \in {"header", "disconnect"} : \E out : Reads(k, "header", to, out)
    BY <1>7 DEF BodyAsHeader
  <2>3. QED
    BY <1>1, <2>1, <2>2, ReadsKept
<1>8. CASE ReadBody(k)
  <2>1. c.thread = "body" /\ c.toServer # <<>>
    BY <1>2, <1>8 DEF ReadBody, Reads
  <2>2. ~Asks(Head(c.toServer), "Register")
    BY <1>3, <1>4, <2>1 DEF Good, Requests, Asks
  <2>3. Reads(k, "body", "call", <<>>)
    BY <1>8 DEF ReadBody
  <2>4. QED
    BY <1>1, <1>2, <2>2, <2>3, ReadsKept
<1>9. CASE ReadHeader(k)
  <2>1. PICK f : f = Head(c.toServer)
    OBVIOUS
  <2>2. PICK d : d = [c EXCEPT !.thread = "body", !.toServer = Tail(c.toServer),
                               !.id = f.id, !.method = f.method]
    OBVIOUS
  <2>3. /\ conn' = [conn EXCEPT ![k] = d] /\ c.thread = "header" /\ c.toServer # <<>>
        /\ f.kind = "request"
    BY <1>2, <1>9, <2>1, <2>2 DEF ReadHeader
  <2>4. /\ Fielded(d) /\ d.thread = "body" /\ d.toServer = Tail(c.toServer) /\ d.orphan = c.orphan
        /\ d.addr = c.addr /\ d.reset = c.reset /\ d.method = f.method
    BY ONLY <1>3, <2>2 DEF Fielded
  <2>5. /\ Asks(Head(c.toServer), "Register") => InHand(d, "Register")
        /\ InHand(d, "Command") => Asks(Head(c.toServer), "Command")
        /\ ~InHand(c, "Register") /\ Head(c.toServer).kind = "request"
    BY <2>1, <2>3, <2>4 DEF Asks, InHand
  <2>6. /\ c.thread \in {"handshake", "header", "body"}
        /\ d.thread \in {"header", "body", "call", "disconnect"}
    BY <2>3, <2>4
  <2>7. Good(d, clList, k) /\ \A e : Sessions(e, c, clList, k) => Sessions(e, d, clList, k)
    BY ONLY <1>3, <2>3, <2>4, <2>5, <2>6, ReadGood
  <2>8. QED
    BY <1>1, <1>2, <2>3, <2>7, KeptOthers
<1>10. QED
  BY <1>5, <1>6, <1>7, <1>8, <1>9

\* A step of k that reads nothing and leaves the client list alone.
LEMMA StayKept ==
  ASSUME RegInv, NEW k \in Conns, NEW c, c = conn[k], NEW d, conn' = [conn EXCEPT ![k] = d],
         clList' = clList, Fielded(d), d.toServer = c.toServer, d.orphan = c.orphan,
         Lost(c) => Lost(d),
         Registered(c, clList, k) => Registered(d, clList, k) \/ d.thread = "disconnect",
         c.thread \in {"disconnect", "delete", "gone"} => d.thread = c.thread,
         InHand(c, "Register") => InHand(d, "Register") \/ d.thread = "disconnect",
         InHand(d, "Command") => InHand(c, "Command") /\ d.addr = c.addr,
         d.thread = "body" => c.thread = "body",
         d.thread \in {"backlog", "handshake"} => c.thread \in {"backlog", "handshake"}
  PROVE  \A j \in Conns : Kept(Servers, j)
<1>1. PICK l : l = clList
  OBVIOUS
<1>2. Good(c, l, k)
  BY <1>1, ConnGood
<1>3. Follows(c, l, d, l, k)
  BY <1>1 DEF Follows
<1>4. InHand(c, "Register") =>
        \/ InHand(d, "Register") \/ Registered(d, l, k)
        \/ d.thread \in {"disconnect", "delete", "gone"}
  OBVIOUS
<1>5. InHand(d, "Command") => InHand(c, "Command") /\ (Registered(c, l, k) => Registered(d, l, k))
  BY DEF InHand, Registered, Serving
<1>6. Good(d, l, k) /\ \A e : Sessions(e, c, l, k) => Sessions(e, d, l, k)
  BY <1>2, <1>3, <1>4, <1>5, StayGood
<1>7. QED
  BY <1>1, <1>6, KeptOthers

LEMMA NetworkKept ==
  ASSUME RegInv, NEW k \in Conns, NetworkBreaks(k) \/ FrameLost(k)
  PROVE  \A j \in Conns : Kept(Servers, j)
<1>1. clList' = clList
  BY DEF NetworkBreaks, FrameLost
<1>2. PICK c : c = conn[k]
  OBVIOUS
<1>3. Good(c, clList, k) /\ Fielded(c)
  BY <1>2, ConnGood
<1>4. CASE NetworkBreaks(k)
  <2>1. PICK d : d = [c EXCEPT !.reset = TRUE]
    OBVIOUS
  <2>2. conn' = [conn EXCEPT ![k] = d]
    BY <1>2, <1>4, <2>1 DEF NetworkBreaks
  <2>3. /\ Fielded(d) /\ d.thread = c.thread /\ d.toServer = c.toServer /\ d.orphan = c.orphan
        /\ d.addr = c.addr /\ d.method = c.method /\ d.reset = TRUE
    BY ONLY <1>3, <2>1 DEF Fielded
  <2>4. /\ Lost(d) /\ (Registered(c, clList, k) => Registered(d, clList, k))
        /\ InHand(c, "Register") => InHand(d, "Register")
        /\ InHand(d, "Command") => InHand(c, "Command")
    BY <2>3 DEF Lost, Registered, InHand
  <2>5. QED
    BY <1>1, <1>2, <2>2, <2>3, <2>4, StayKept
<1>5. CASE FrameLost(k) /\ conn' = [conn EXCEPT ![k].toClient = Front(@)]
  <2>1. PICK d : d = [c EXCEPT !.toClient = Front(c.toClient)]
    OBVIOUS
  <2>2. conn' = [conn EXCEPT ![k] = d]
    BY <1>2, <1>5, <2>1
  <2>3. /\ Fielded(d) /\ d.thread = c.thread /\ d.toServer = c.toServer /\ d.orphan = c.orphan
        /\ d.addr = c.addr /\ d.method = c.method /\ d.reset = c.reset
    BY ONLY <1>3, <2>1 DEF Fielded
  <2>4. /\ (Lost(c) => Lost(d)) /\ (Registered(c, clList, k) => Registered(d, clList, k))
        /\ InHand(c, "Register") => InHand(d, "Register")
        /\ InHand(d, "Command") => InHand(c, "Command")
    BY <2>3 DEF Lost, Registered, InHand
  <2>5. QED
    BY <1>1, <1>2, <2>2, <2>3, <2>4, StayKept
<1>6. CASE FrameLost(k) /\ conn[k].toServer # <<>> /\ conn' = [conn EXCEPT ![k].toServer = Front(@)]
  <2>1. PICK d : d = [c EXCEPT !.toServer = Front(c.toServer)]
    OBVIOUS
  <2>2. conn' = [conn EXCEPT ![k] = d] /\ c.toServer # <<>>
    BY <1>2, <1>6, <2>1
  <2>3. /\ Fielded(d) /\ d.thread = c.thread /\ d.toServer = Front(c.toServer)
        /\ d.orphan = c.orphan /\ d.addr = c.addr /\ d.method = c.method /\ d.reset = c.reset
    BY ONLY <1>3, <2>1 DEF Fielded
  <2>4. PICK l : l = clList
    OBVIOUS
  <2>5. Good(d, l, k) /\ (Lost(c) => \A e : Sessions(e, d, l, k))
    BY <1>3, <2>2, <2>3, <2>4, FrontGood
  <2>6. \A t \in Servers : client[t].sock = k => Lost(c)
    BY <1>2, <1>6 DEF FrameLost, ServerLost, ClientLost, Held, Lost
  <2>7. conn'[k] = d /\ \A j \in Conns \ {k} : conn'[j] = conn[j]
    BY <2>2, ConnGood
  <2>8. Kept(Servers, k)
    BY <1>1, <2>4, <2>5, <2>6, <2>7 DEF Kept
  <2>9. \A j \in Conns \ {k} : Kept(Servers, j)
    BY <1>1, <2>7, KeptSame
  <2>10. QED
    BY <2>8, <2>9
<1>7. QED
  BY <1>4, <1>5, <1>6 DEF FrameLost

LEMMA ThreadKept ==
  ASSUME RegInv, NEW k \in Conns, Accept(k) \/ SendResponse(k) \/ ConnFails(k)
  PROVE  \A j \in Conns : Kept(Servers, j)
<1>1. clList' = clList
  BY DEF Accept, SendResponse, ConnFails
<1>2. PICK c : c = conn[k]
  OBVIOUS
<1>3. Good(c, clList, k) /\ Fielded(c)
  BY <1>2, ConnGood
<1>4. CASE Accept(k)
  <2>1. PICK a : conn' = [conn EXCEPT ![k].thread = "handshake", ![k].addr = a]
    BY <1>4 DEF Accept
  <2>2. PICK d : d = [c EXCEPT !.thread = "handshake", !.addr = a]
    OBVIOUS
  <2>3. conn' = [conn EXCEPT ![k] = d] /\ c.thread = "backlog"
    BY <1>2, <1>4, <2>1, <2>2 DEF Accept
  <2>4. /\ Fielded(d) /\ d.thread = "handshake" /\ d.toServer = c.toServer /\ d.orphan = c.orphan
        /\ d.reset = c.reset
    BY ONLY <1>3, <2>2 DEF Fielded
  <2>5. /\ (Lost(c) => Lost(d)) /\ ~Registered(c, clList, k)
        /\ ~InHand(c, "Register") /\ ~InHand(d, "Command")
    BY <2>3, <2>4 DEF Lost, Registered, InHand, Serving
  <2>6. QED
    BY <1>1, <1>2, <2>3, <2>4, <2>5, StayKept
<1>5. CASE SendResponse(k)
  <2>1. PICK x : x = Sent(k, Response(conn[k].id, FALSE))
    OBVIOUS
  <2>2. PICK d : d = [c EXCEPT !.thread = "header", !.id = 0, !.method = NoMethod, !.toClient = x]
    OBVIOUS
  <2>3. conn' = [conn EXCEPT ![k] = d] /\ c.thread = "reply"
    BY <1>2, <1>5, <2>1, <2>2 DEF SendResponse
  <2>4. /\ Fielded(d) /\ d.thread = "header" /\ d.toServer = c.toServer /\ d.orphan = c.orphan
        /\ d.reset = c.reset /\ d.addr = c.addr
    BY ONLY <1>3, <2>2 DEF Fielded
  <2>5. /\ (Lost(c) => Lost(d)) /\ (Registered(c, clList, k) => Registered(d, clList, k))
        /\ ~InHand(c, "Register") /\ ~InHand(d, "Command")
    BY <2>3, <2>4 DEF Lost, Registered, InHand, Serving
  <2>6. QED
    BY <1>1, <1>2, <2>3, <2>4, <2>5, StayKept
<1>6. CASE ConnFails(k)
  <2>1. PICK d : d = [c EXCEPT !.thread = "disconnect", !.id = 0, !.method = NoMethod]
    OBVIOUS
  <2>2. /\ conn' = [conn EXCEPT ![k] = d]
        /\ c.thread \in {"handshake", "header", "body", "reply"}
    BY <1>2, <1>6, <2>1 DEF ConnFails
  <2>3. /\ Fielded(d) /\ d.thread = "disconnect" /\ d.toServer = c.toServer /\ d.orphan = c.orphan
        /\ d.reset = c.reset
    BY ONLY <1>3, <2>1 DEF Fielded
  <2>4. (Lost(c) => Lost(d)) /\ ~InHand(d, "Command")
    BY <2>2, <2>3 DEF Lost, InHand
  <2>5. QED
    BY <1>1, <1>2, <2>2, <2>3, <2>4, StayKept
<1>7. QED
  BY <1>4, <1>5, <1>6

\* The entry of a Conn is made by its own Register and lost by its own end.
LEMMA CallKept ==
  ASSUME RegInv, NEW k \in Conns, CallMethod(k)
  PROVE  \A j \in Conns : Kept(Servers, j)
<1>1. PICK c : c = conn[k]
  OBVIOUS
<1>2. PICK l : l = clList
  OBVIOUS
<1>3. PICK m : m = clList'
  OBVIOUS
<1>4. PICK d : d = [c EXCEPT !.thread = "reply", !.served = Append(c.served, c.id)]
  OBVIOUS
<1>5. conn' = [conn EXCEPT ![k] = d] /\ c.thread = "call"
  BY <1>1, <1>4 DEF CallMethod
<1>6. Good(c, l, k) /\ Fielded(c)
  BY <1>1, <1>2, ConnGood
<1>7. /\ Fielded(d) /\ d.thread = "reply" /\ d.toServer = c.toServer /\ d.orphan = c.orphan
      /\ d.reset = c.reset /\ d.addr = c.addr
  BY ONLY <1>4, <1>6 DEF Fielded
<1>8. PICK a : a = c.addr
  OBVIOUS
<1>9. l \in [Addresses -> Conns \cup {NoConn}] /\ a \in Addresses /\ NoConn \notin Conns
  BY <1>1, <1>2, <1>5, <1>8, RpcSessionAssumption
     DEF RegInv, IInv, Shape, Allocated, HasConn, Serving
<1>10. m = IF c.method = "Register" /\ l[a] = NoConn THEN [l EXCEPT ![a] = k] ELSE l
  BY <1>1, <1>2, <1>3, <1>8 DEF CallMethod
<1>11. \A j \in Conns : \A b : l[b] = j => m[b] = j
  BY <1>9, <1>10
<1>12. c.method = "Register" => m[a] = k
  <2>1. CASE l[a] = NoConn
    BY <1>9, <1>10, <2>1
  <2>2. CASE l[a] # NoConn
    <3>1. l[a] \in Conns /\ conn[l[a]].addr = a /\ a # NoAddress
      BY <1>2, <1>9, <2>2, RpcSessionAssumption DEF RegInv, IInv, SessionIsOwn
    <3>2. l[a] = k
      BY <1>1, <1>8, <3>1 DEF RegInv, IInv, Distinct
    <3>3. QED
      BY <1>11, <3>2
  <2>3. QED
    BY <2>1, <2>2
<1>13. /\ (Lost(c) => Lost(d)) /\ (Registered(c, l, k) => Registered(d, m, k))
       /\ InHand(c, "Register") => Registered(d, m, k)
       /\ ~InHand(d, "Command")
  BY <1>5, <1>7, <1>8, <1>11, <1>12 DEF Lost, Registered, InHand, Serving
<1>14. Follows(c, l, d, m, k)
  BY <1>5, <1>7, <1>13 DEF Follows
<1>15. Good(d, m, k) /\ \A e : Sessions(e, c, l, k) => Sessions(e, d, m, k)
  BY <1>6, <1>7, <1>13, <1>14, StayGood
<1>16. conn'[k] = d /\ \A j \in Conns \ {k} : conn'[j] = conn[j]
  BY <1>5, ConnGood
<1>17. Kept(Servers, k)
  BY <1>1, <1>2, <1>3, <1>15, <1>16, KeptFrom
<1>18. \A j \in Conns \ {k} : Kept(Servers, j)
  <2>1. \A j \in Conns : Registered(conn[j], l, j) => Registered(conn[j], m, j)
    BY <1>11 DEF Registered
  <2>2. QED
    BY <1>2, <1>3, <1>16, <2>1, KeptSame
<1>19. QED
  BY <1>17, <1>18

LEMMA DisconnectKept ==
  ASSUME RegInv, NEW k \in Conns, Disconnect(k)
  PROVE  \A j \in Conns : Kept(Servers, j)
<1>1. PICK c : c = conn[k]
  OBVIOUS
<1>2. PICK l : l = clList
  OBVIOUS
<1>3. PICK m : m = clList'
  OBVIOUS
<1>4. PICK d : d = [c EXCEPT !.thread = "delete"]
  OBVIOUS
<1>5. /\ conn' = [conn EXCEPT ![k] = d] /\ c.thread = "disconnect"
      /\ m = [l EXCEPT ![c.addr] = NoConn]
  BY <1>1, <1>2, <1>3, <1>4 DEF Disconnect, ThreadGoes
<1>6. Good(c, l, k) /\ Fielded(c)
  BY <1>1, <1>2, ConnGood
<1>7. /\ Fielded(d) /\ d.thread = "delete" /\ d.toServer = c.toServer /\ d.orphan = c.orphan
      /\ d.reset = c.reset
  BY ONLY <1>4, <1>6 DEF Fielded
<1>8. (Lost(c) => Lost(d)) /\ ~Registered(c, l, k) /\ ~InHand(c, "Register") /\ ~InHand(d, "Command")
  BY <1>5, <1>7 DEF Lost, Registered, InHand, Serving
<1>9. Follows(c, l, d, m, k)
  BY <1>7, <1>8 DEF Follows
<1>10. Good(d, m, k) /\ \A e : Sessions(e, c, l, k) => Sessions(e, d, m, k)
  BY <1>6, <1>7, <1>8, <1>9, StayGood
<1>11. conn'[k] = d /\ \A j \in Conns \ {k} : conn'[j] = conn[j]
  BY <1>5, ConnGood
<1>12. Kept(Servers, k)
  BY <1>1, <1>2, <1>3, <1>10, <1>11, KeptFrom
<1>13. ASSUME NEW j \in Conns \ {k} PROVE Kept(Servers, j)
  <2>1. ASSUME Registered(conn[j], l, j) PROVE Registered(conn[j], m, j)
    <3>1. conn[j].addr \in Addresses /\ conn[j].addr # NoAddress
      BY <2>1, RpcSessionAssumption
         DEF RegInv, IInv, Allocated, Registered, HasConn
    <3>2. conn[j].addr # c.addr
      BY <1>1, <3>1 DEF RegInv, IInv, Distinct
    <3>3. QED
      BY <1>2, <1>5, <2>1, <3>1, <3>2 DEF Registered, RegInv, IInv, Shape
  <2>2. QED
    BY <1>2, <1>3, <1>11, <2>1, KeptSame
<1>14. QED
  BY <1>12, <1>13

LEMMA EndKept ==
  ASSUME RegInv, (\E k \in Conns : DeleteConn(k)) \/ Die
  PROVE  \A j \in Conns : Kept(Servers, j)
<1>1. CASE Die
  <2>1. PICK cn : /\ cn = [k \in Conns |-> IF conn[k] = Unused THEN Unused
                             ELSE [conn[k] EXCEPT !.thread = "gone", !.addr = NoAddress]]
                  /\ conn' = Settled(cn, client)
    BY <1>1 DEF Die
  <2>2. ASSUME NEW j \in Conns PROVE Kept(Servers, j)
    <3>1. \/ cn[j] = [conn[j] EXCEPT !.thread = "gone", !.addr = NoAddress]
          \/ cn[j] = conn[j] /\ conn[j] = Unused
      BY <2>1
    <3>2. QED
      BY <2>1, <3>1, KeptSettled
  <2>3. QED
    BY <2>2
<1>2. ASSUME NEW k \in Conns, DeleteConn(k) PROVE \A j \in Conns : Kept(Servers, j)
  <2>1. PICK cn : /\ cn = [conn EXCEPT ![k].thread = "gone", ![k].addr = NoAddress]
                  /\ conn' = Settled(cn, client) /\ clList' = clList
    BY <1>2 DEF DeleteConn
  <2>2. PICK d : d = [conn[k] EXCEPT !.thread = "gone", !.addr = NoAddress]
    OBVIOUS
  <2>3. cn = [conn EXCEPT ![k] = d]
    BY <2>1, <2>2
  <2>4. cn[k] = d /\ \A j \in Conns \ {k} : cn[j] = conn[j]
    BY <2>3, ConnGood
  <2>5. ASSUME NEW j \in Conns PROVE Kept(Servers, j)
    <3>1. \/ cn[j] = conn[j] /\ clList' = clList
          \/ cn[j] = [conn[j] EXCEPT !.thread = "gone", !.addr = NoAddress]
      BY <2>1, <2>2, <2>4
    <3>2. QED
      BY <2>1, <3>1, KeptSettled
  <2>6. QED
    BY <2>5
<1>3. QED
  BY <1>1, <1>2

-------------------------------------------------------------------------------
(* The steps of the servers.                                               *)

\* The connection of s when s has gone on to f, and its thread to d.
LEMMA OwnReg ==
  ASSUME RegInv, IInv', WireInv', NEW s \in Servers, client[s].sock # NoConn, clList' = clList,
         NEW f, client' = [client EXCEPT ![s] = f], f.sock = client[s].sock,
         "level" \in DOMAIN f, f.method = "Command" => f.level = "running",
         NEW d, conn' = [conn EXCEPT ![client[s].sock] = d],
         Good(d, clList, client[s].sock), Sessions(f, d, clList, client[s].sock)
  PROVE  RegInv'
<1>1. PICK k \in Conns : k = client[s].sock
  BY HeldFacts DEF RegInv
<1>2. conn'[k] = d /\ \A j \in Conns \ {k} : conn'[j] = conn[j]
  BY <1>1, ConnGood
<1>3. \A j \in Conns \ {k} : Kept(Servers \ {s}, j)
  BY <1>2, KeptSame DEF Kept
<1>4. \A t \in Servers \ {s} : client[t].sock # k
  BY <1>1 DEF RegInv, WireInv, OrderInv, OwnSockets
<1>5. Kept(Servers \ {s}, k)
  BY <1>1, <1>2, <1>4 DEF Kept
<1>6. \A j \in Conns : Kept(Servers \ {s}, j)
  BY <1>3, <1>5
<1>7. f.sock # NoConn => Sessions(f, conn'[f.sock], clList', f.sock)
  BY <1>1, <1>2
<1>8. QED
  BY <1>6, <1>7, ClientReg

\* No connection changes.
LEMMA LocalReg ==
  ASSUME RegInv, IInv', WireInv', NEW s \in Servers, conn' = conn, clList' = clList,
         NEW f, client' = [client EXCEPT ![s] = f], f.sock = client[s].sock,
         "level" \in DOMAIN f, f.method = "Command" => f.level = "running",
         f.sock # NoConn => \/ Past(f) => Past(client[s])
                            \/ Lost(conn[f.sock])
  PROVE  RegInv'
<1>1. \A k \in Conns : Kept(Servers \ {s}, k)
  BY KeptSame DEF Kept
<1>2. ASSUME f.sock # NoConn PROVE Sessions(f, conn[f.sock], clList, f.sock)
  <2>1. PICK k : k = f.sock
    OBVIOUS
  <2>2. Sessions(client[s], conn[k], clList, k)
    BY <1>2, <2>1 DEF RegInv
  <2>3. QED
    BY <1>2, <2>1, <2>2 DEF Sessions
<1>3. QED
  BY <1>1, <1>2, ClientReg

\* s takes a frame that the daemon has sent.
LEMMA TakeReg ==
  ASSUME RegInv, IInv', WireInv', NEW s \in Servers, client[s].sock # NoConn, clList' = clList,
         conn' = [conn EXCEPT ![client[s].sock].toClient = Tail(@)],
         NEW f, client' = [client EXCEPT ![s] = f], f.sock = client[s].sock,
         "level" \in DOMAIN f, f.method = "Command" => f.level = "running",
         Past(f) => Past(client[s])
  PROVE  RegInv'
<1>1. PICK k \in Conns : k = client[s].sock
  BY HeldFacts DEF RegInv
<1>2. PICK c : c = conn[k]
  OBVIOUS
<1>3. PICK l : l = clList
  OBVIOUS
<1>4. Good(c, l, k) /\ Fielded(c) /\ Sessions(client[s], c, l, k)
  BY <1>1, <1>2, <1>3, ConnGood
<1>5. PICK d : d = [c EXCEPT !.toClient = Tail(c.toClient)]
  OBVIOUS
<1>6. conn' = [conn EXCEPT ![k] = d]
  BY <1>1, <1>2, <1>5
<1>7. /\ Fielded(d) /\ d.thread = c.thread /\ d.toServer = c.toServer /\ d.orphan = c.orphan
      /\ d.addr = c.addr /\ d.method = c.method /\ d.reset = c.reset
  BY ONLY <1>4, <1>5 DEF Fielded
<1>8. /\ (Lost(c) => Lost(d)) /\ (Registered(c, l, k) => Registered(d, l, k))
      /\ InHand(c, "Register") => InHand(d, "Register")
      /\ InHand(d, "Command") => InHand(c, "Command")
  BY <1>7 DEF Lost, Registered, InHand
<1>9. Follows(c, l, d, l, k)
  BY <1>7, <1>8 DEF Follows
<1>10. Good(d, l, k) /\ Sessions(client[s], d, l, k)
  BY <1>4, <1>7, <1>8, <1>9, StayGood
<1>11. Sessions(f, d, l, k)
  BY <1>10 DEF Sessions
<1>12. QED
  BY <1>1, <1>3, <1>6, <1>10, <1>11, OwnReg

\* s leaves its connection.
LEMMA LeaveReg ==
  ASSUME RegInv, IInv', WireInv', NEW s \in Servers, clList' = clList,
         conn' = Settled(conn, client'),
         NEW f, client' = [client EXCEPT ![s] = f], f.sock = NoConn,
         "level" \in DOMAIN f, f.method # "Command"
  PROVE  RegInv'
<1>1. \A t \in Servers \ {s} : client'[t].sock = client[t].sock
  BY ServerFields DEF RegInv, WireInv
<1>2. ASSUME NEW k \in Conns PROVE Kept(Servers \ {s}, k)
  <2>1. PICK cl : cl = client'
    OBVIOUS
  <2>2. QED
    BY <1>1, <2>1, KeptSettled
<1>3. QED
  BY <1>2, ClientReg

LEMMA ServerReg ==
  ASSUME RegInv, NEW s \in Servers
  PROVE  /\ {"sock", "seq", "method", "pc", "reply", "result", "level"} \subseteq DOMAIN client[s]
         /\ client[s].method \in Methods \cup {NoMethod} /\ client[s].seq \in Nat
         /\ client[s].method = "Command" => client[s].level = "running"
         /\ client[s].pc \in {"hello", "send", "header", "body"} =>
              client[s].sock # NoConn /\ Wire(client[s], conn[client[s].sock])
         /\ client[s].pc = "dial" => client[s].sock = NoConn
         /\ client[s].sock # NoConn => client[s].pc # "dial"
<1>1. {"sock", "seq", "method", "pc", "reply", "result"} \subseteq DOMAIN client[s]
  BY RestFields DEF RegInv
<1>2. /\ "level" \in DOMAIN client[s]
      /\ client[s].method = "Command" => client[s].level = "running"
  BY DEF RegInv
<1>3. /\ client[s].method \in Methods \cup {NoMethod} /\ client[s].seq \in Nat
      /\ client[s].pc = "dial" => client[s].sock = NoConn
  BY ServerFields DEF RegInv, WireInv
<1>4. client[s].pc \in {"hello", "send", "header", "body"} =>
        client[s].sock # NoConn /\ Wire(client[s], conn[client[s].sock])
  BY Connected, HeldFacts DEF RegInv
<1>5. QED
  BY <1>1, <1>2, <1>3, <1>4

LEMMA LocalStepsReg ==
  ASSUME RegInv, IInv', WireInv', NEW s \in Servers,
         GameInit(s) \/ (\E m \in Methods : Call(s, m)) \/ DialFails(s) \/ SendFails(s)
  PROVE  RegInv'
<1>1. conn' = conn /\ clList' = clList
  BY DEF GameInit, Call, DialFails, SendFails
<1>2. PICK e : e = client[s]
  OBVIOUS
<1>3. /\ {"sock", "seq", "method", "pc", "reply", "result", "level"} \subseteq DOMAIN e
      /\ e.method = "Command" => e.level = "running"
      /\ e.pc = "dial" => e.sock = NoConn
  BY <1>2, ServerReg
<1>4. CASE GameInit(s)
  <2>1. PICK f : f = [e EXCEPT !.level = "starting"]
    OBVIOUS
  <2>2. client' = [client EXCEPT ![s] = f] /\ e.level = "none"
    BY <1>2, <1>4, <2>1 DEF GameInit
  <2>3. "level" \in DOMAIN f /\ f.level = "starting" /\ f.method = e.method /\ f.sock = e.sock
    BY ONLY <1>3, <2>1
  <2>4. ~Past(f) /\ f.method # "Command"
    BY <1>3, <2>2, <2>3 DEF Past
  <2>5. QED
    BY <1>1, <1>2, <2>2, <2>3, <2>4, LocalReg
<1>5. ASSUME NEW m \in Methods, Call(s, m) PROVE RegInv'
  <2>1. PICK lv : lv = IF m = "Register" THEN "running" ELSE e.level
    OBVIOUS
  <2>2. PICK p : p = IF e.sock = NoConn THEN "dial" ELSE "send"
    OBVIOUS
  <2>3. PICK f : f = [e EXCEPT !.method = m, !.result = {}, !.level = lv, !.pc = p]
    OBVIOUS
  <2>4. /\ client' = [client EXCEPT ![s] = f] /\ e.pc = "idle"
        /\ \/ e.level = "starting" /\ m \in {"Printf", "Register"}
           \/ e.level = "running" /\ m # "Register"
    BY <1>2, <1>5, <2>1, <2>2, <2>3 DEF Call
  <2>5. /\ "level" \in DOMAIN f /\ f.level = lv /\ f.method = m /\ f.sock = e.sock /\ f.pc = p
    BY ONLY <1>3, <2>3
  <2>6. f.method = "Command" => f.level = "running"
    BY <2>1, <2>4, <2>5
  <2>7. f.sock # NoConn /\ Past(f) => Past(e)
    BY <2>1, <2>2, <2>4, <2>5 DEF Past
  <2>8. QED
    BY <1>1, <1>2, <2>4, <2>5, <2>6, <2>7, LocalReg
<1>6. NoMethod # "Command"
  BY DEF NoMethod
<1>7. CASE DialFails(s)
  <2>1. PICK f : f = [e EXCEPT !.pc = "idle", !.method = NoMethod]
    OBVIOUS
  <2>2. client' = [client EXCEPT ![s] = f] /\ e.pc = "dial"
    BY <1>2, <1>7, <2>1 DEF DialFails
  <2>3. "level" \in DOMAIN f /\ f.method = NoMethod /\ f.sock = e.sock
    BY ONLY <1>3, <2>1
  <2>4. QED
    BY <1>1, <1>2, <1>3, <1>6, <2>2, <2>3, LocalReg
<1>8. CASE SendFails(s)
  <2>1. PICK f : f = [e EXCEPT !.pc = "idle", !.seq = e.seq + 1, !.method = NoMethod]
    OBVIOUS
  <2>2. client' = [client EXCEPT ![s] = f] /\ Lost(conn[e.sock])
    BY <1>2, <1>8, <2>1 DEF SendFails, ServerLost, Lost
  <2>3. "level" \in DOMAIN f /\ f.method = NoMethod /\ f.sock = e.sock
    BY ONLY <1>3, <2>1
  <2>4. QED
    BY <1>1, <1>2, <1>6, <2>2, <2>3, LocalReg
<1>9. QED
  BY <1>4, <1>5, <1>7, <1>8

LEMMA TakeStepsReg ==
  ASSUME RegInv, IInv', WireInv', NEW s \in Servers,
         Hello(s) \/ RecvHeader(s) \/ RecvBody(s) \/ RecvFails(s) \/ Shutdown(s)
  PROVE  RegInv'
<1>1. clList' = clList
  BY DEF Hello, RecvHeader, RecvBody, RecvFails, Shutdown
<1>2. PICK e : e = client[s]
  OBVIOUS
<1>3. /\ {"sock", "seq", "method", "pc", "reply", "result", "level"} \subseteq DOMAIN e
      /\ e.method = "Command" => e.level = "running"
      /\ e.pc \in {"hello", "send", "header", "body"} => e.sock # NoConn
  BY <1>2, ServerReg
<1>4. NoMethod # "Command"
  BY DEF NoMethod
<1>5. CASE Close(s)
  <2>1. PICK f : f = [e EXCEPT !.sock = NoConn, !.pc = "idle", !.method = NoMethod]
    OBVIOUS
  <2>2. client' = [client EXCEPT ![s] = f] /\ conn' = Settled(conn, client')
    BY <1>2, <1>5, <2>1 DEF Close
  <2>3. "level" \in DOMAIN f /\ f.method = NoMethod /\ f.sock = NoConn
    BY ONLY <1>3, <2>1
  <2>4. QED
    BY <1>1, <1>4, <2>2, <2>3, LeaveReg
<1>6. CASE Shutdown(s)
  <2>1. client' = [client EXCEPT ![s] = NewClient] /\ conn' = Settled(conn, client')
    BY <1>6 DEF Shutdown
  <2>2. "level" \in DOMAIN NewClient /\ NewClient.method = NoMethod /\ NewClient.sock = NoConn
    BY DEF NewClient
  <2>3. QED
    BY <1>1, <1>4, <2>1, <2>2, LeaveReg
<1>7. CASE ClientGoes(s, "hello", "send") /\ conn' = [conn EXCEPT ![client[s].sock].toClient = Tail(@)]
  <2>1. PICK f : f = [e EXCEPT !.pc = "send"]
    OBVIOUS
  <2>2. client' = [client EXCEPT ![s] = f] /\ e.pc = "hello"
    BY <1>2, <1>7, <2>1 DEF ClientGoes
  <2>3. /\ "level" \in DOMAIN f /\ f.method = e.method /\ f.sock = e.sock /\ f.level = e.level
        /\ f.pc = "send"
    BY ONLY <1>3, <2>1
  <2>4. Past(f) => Past(e)
    BY <2>2, <2>3 DEF Past
  <2>5. QED
    BY <1>1, <1>2, <1>3, <1>7, <2>2, <2>3, <2>4, TakeReg
<1>8. CASE RecvHeader(s)
  <2>1. PICK h : h = Head(conn[e.sock].toClient)
    OBVIOUS
  <2>2. PICK f : f = [e EXCEPT !.pc = "body", !.reply = h]
    OBVIOUS
  <2>3. /\ client' = [client EXCEPT ![s] = f] /\ e.pc = "header"
        /\ conn' = [conn EXCEPT ![client[s].sock].toClient = Tail(@)]
    BY <1>2, <1>8, <2>1, <2>2 DEF RecvHeader
  <2>4. /\ "level" \in DOMAIN f /\ f.method = e.method /\ f.sock = e.sock /\ f.level = e.level
    BY ONLY <1>3, <2>2
  <2>5. Past(f) => Past(e)
    BY <2>3, <2>4 DEF Past
  <2>6. QED
    BY <1>1, <1>2, <1>3, <2>3, <2>4, <2>5, TakeReg
<1>9. CASE RecvBody(s)
  <2>1. PICK f : /\ \E x : f = [e EXCEPT !.pc = "idle", !.reply = NoReply, !.method = NoMethod, !.result = x]
                 /\ client' = [client EXCEPT ![s] = f]
    BY <1>2, <1>9 DEF RecvBody
  <2>2. /\ conn' = [conn EXCEPT ![client[s].sock].toClient = Tail(@)]
        /\ e.pc = "body"
    BY <1>2, <1>9 DEF RecvBody
  <2>3. /\ "level" \in DOMAIN f /\ f.method = NoMethod /\ f.sock = e.sock /\ f.level = e.level
    BY ONLY <1>3, <2>1
  <2>4. Past(f) => Past(e)
    BY <2>2, <2>3 DEF Past
  <2>5. QED
    BY <1>1, <1>2, <1>3, <1>4, <2>1, <2>2, <2>3, <2>4, TakeReg
<1>10. CASE /\ client[s].pc \in {"header", "body"}
            /\ client' = [client EXCEPT ![s].pc = "idle", ![s].reply = NoReply, ![s].method = NoMethod]
            /\ UNCHANGED conn
  <2>1. PICK f : f = [e EXCEPT !.pc = "idle", !.reply = NoReply, !.method = NoMethod]
    OBVIOUS
  <2>2. client' = [client EXCEPT ![s] = f] /\ e.pc \in {"header", "body"} /\ conn' = conn
    BY <1>2, <1>10, <2>1
  <2>3. /\ "level" \in DOMAIN f /\ f.method = NoMethod /\ f.sock = e.sock /\ f.level = e.level
    BY ONLY <1>3, <2>1
  <2>4. Past(f) => Past(e)
    BY <2>2, <2>3 DEF Past
  <2>5. QED
    BY <1>1, <1>2, <1>4, <2>2, <2>3, <2>4, LocalReg
<1>11. QED
  BY <1>5, <1>6, <1>7, <1>8, <1>9, <1>10 DEF Hello, RecvFails

\* A connection dialled before Register is not an orphan; one dialled by
\* Register carries it next; any other is an orphan.
LEMMA DialReg ==
  ASSUME RegInv, IInv', WireInv', NEW s \in Servers, NEW k \in Conns, Dial(s, k)
  PROVE  RegInv'
<1>1. PICK e : e = client[s]
  OBVIOUS
<1>2. PICK o \in BOOLEAN : o = (e.level = "running" /\ e.method # "Register")
  OBVIOUS
<1>3. PICK d : d = [conn[k] EXCEPT !.thread = "backlog", !.toServer = <<Key>>, !.orphan = o]
  OBVIOUS
<1>4. PICK f : f = [e EXCEPT !.pc = "hello", !.sock = k]
  OBVIOUS
<1>5. /\ conn' = [conn EXCEPT ![k] = d] /\ client' = [client EXCEPT ![s] = f]
      /\ conn[k] = Unused /\ clList' = clList
  BY <1>1, <1>2, <1>3, <1>4 DEF Dial
<1>6. /\ Fielded(d) /\ d.thread = "backlog" /\ d.toServer = <<Key>> /\ d.orphan = o
      /\ d.reset = FALSE
  BY <1>2, <1>3, <1>5 DEF Fielded, Unused
<1>7. /\ {"sock", "seq", "method", "pc", "reply", "result", "level"} \subseteq DOMAIN e
      /\ e.method = "Command" => e.level = "running"
  BY <1>1, ServerReg
<1>8. /\ "level" \in DOMAIN f /\ f.level = e.level /\ f.method = e.method
      /\ f.sock = k /\ f.pc = "hello"
  BY ONLY <1>4, <1>7
<1>9. Good(d, clList', k)
  <2>1. PICK q : q = <<Key>>
    OBVIOUS
  <2>2. q \in Seq(Frames) /\ DOMAIN q = {1} /\ q[1].kind = "key" /\ q # <<>>
    BY <2>1 DEF Frames, Key
  <2>3. Requests(d)
    BY <1>6, <2>1, <2>2 DEF Requests
  <2>4. Ready(d, clList', k)
    BY <1>6, <2>1, <2>2 DEF Ready, InHand, Asks
  <2>5. QED
    BY <1>6, <2>1, <2>2, <2>3, <2>4 DEF Good
<1>10. Sessions(f, d, clList', k)
  <2>1. Full(d)
    BY <1>6 DEF Full, Key
  <2>2. ~(Past(f) /\ d.orphan = FALSE)
    BY <1>2, <1>6, <1>8 DEF Past
  <2>3. QED
    BY <2>1, <2>2 DEF Sessions
<1>11. conn'[k] = d /\ \A j \in Conns \ {k} : conn'[j] = conn[j]
  BY <1>5, ConnGood
<1>12. \A t \in Servers : client[t].sock # k
  <2>1. \A t \in Servers : client[t].sock # NoConn => client[t].sock # k
    BY <1>5, HeldFacts DEF RegInv, Unused
  <2>2. QED
    BY <2>1, RpcSessionAssumption
<1>13. Kept(Servers \ {s}, k)
  BY <1>9, <1>11, <1>12 DEF Kept
<1>14. \A j \in Conns \ {k} : Kept(Servers \ {s}, j)
  BY <1>5, <1>11, KeptSame DEF Kept
<1>15. \A j \in Conns : Kept(Servers \ {s}, j)
  BY <1>13, <1>14
<1>16. f.sock # NoConn => Sessions(f, conn'[f.sock], clList', f.sock)
  BY <1>8, <1>10, <1>11
<1>17. QED
  BY <1>5, <1>7, <1>8, <1>15, <1>16, ClientReg

LEMMA SendReg ==
  ASSUME RegInv, IInv', WireInv', NEW s \in Servers, Send(s)
  PROVE  RegInv'
<1>1. PICK e : e = client[s]
  OBVIOUS
<1>2. PICK k : k = e.sock
  OBVIOUS
<1>3. PICK c : c = conn[k]
  OBVIOUS
<1>4. PICK l : l = clList
  OBVIOUS
<1>5. e.pc = "send"
  BY <1>1 DEF Send
<1>6. /\ {"sock", "seq", "method", "pc", "reply", "result", "level"} \subseteq DOMAIN e
      /\ e.method \in Methods \cup {NoMethod} /\ e.seq \in Nat
      /\ e.method = "Command" => e.level = "running"
      /\ k # NoConn /\ Wire(e, c)
  BY <1>1, <1>2, <1>3, <1>5, ServerReg
<1>7. k \in Conns
  BY <1>1, <1>2, <1>6, HeldFacts DEF RegInv
<1>8. Good(c, l, k) /\ Fielded(c) /\ Sessions(e, c, l, k)
  BY <1>1, <1>2, <1>3, <1>4, <1>7, ConnGood
<1>9. PICK q : q = c.toServer \o IF ServerLost(k) THEN <<>> ELSE Request(e.seq, e.method)
  OBVIOUS
<1>10. PICK d : d = [c EXCEPT !.toServer = q]
  OBVIOUS
<1>11. PICK f : f = [e EXCEPT !.pc = "header", !.seq = e.seq + 1]
  OBVIOUS
<1>12. conn' = [conn EXCEPT ![k] = d] /\ client' = [client EXCEPT ![s] = f] /\ clList' = clList
  BY <1>1, <1>2, <1>3, <1>9, <1>10, <1>11 DEF Send
<1>13. /\ Fielded(d) /\ d.thread = c.thread /\ d.toServer = q /\ d.orphan = c.orphan
       /\ d.addr = c.addr /\ d.method = c.method /\ d.reset = c.reset
  BY ONLY <1>8, <1>10 DEF Fielded
<1>14. "level" \in DOMAIN f /\ f.level = e.level /\ f.method = e.method /\ f.sock = k /\ f.pc = "header"
  BY ONLY <1>2, <1>6, <1>11
<1>15. ServerLost(k) <=> Lost(c)
  BY <1>3 DEF ServerLost, Lost
<1>16. Good(d, l, k) /\ Sessions(f, d, l, k)
  <2>1. CASE Lost(c)
    <3>1. d.toServer = c.toServer
      <4>1. q = c.toServer \o <<>>
        BY <1>9, <1>15, <2>1
      <4>2. c.toServer \in Seq(Frames)
        BY <1>8 DEF Good
      <4>3. c.toServer \o <<>> = c.toServer
        BY ONLY <4>2
      <4>4. QED
        BY <1>13, <4>1, <4>3
    <3>2. /\ Lost(d) /\ (Registered(c, l, k) => Registered(d, l, k))
          /\ InHand(c, "Register") => InHand(d, "Register")
          /\ InHand(d, "Command") => InHand(c, "Command")
      BY <1>13, <2>1 DEF Lost, Registered, InHand
    <3>3. Follows(c, l, d, l, k)
      BY <1>13, <3>2 DEF Follows
    <3>4. Good(d, l, k)
      BY <1>8, <1>13, <3>1, <3>2, <3>3, StayGood
    <3>5. Sessions(f, d, l, k)
      BY <3>2 DEF Sessions, Full
    <3>6. QED
      BY <3>4, <3>5
  <2>2. CASE ~Lost(c)
    <3>1. d.toServer = c.toServer \o Request(e.seq, e.method)
      BY <1>9, <1>13, <1>15, <2>2
    <3>2. c.thread \notin {"backlog", "handshake"}
      BY <1>5, <1>6 DEF Wire, Opening
    <3>3. PICK n \in Nat, w \in Methods \cup {NoMethod} : n = e.seq /\ w = e.method
      BY <1>6
    <3>4. d.toServer = c.toServer \o Request(n, w)
      BY <3>1, <3>3
    <3>5. f.level = e.level /\ f.method = w /\ f.pc = "header" /\ (w = "Command" => e.level = "running")
      BY <1>6, <1>14, <3>3
    <3>6. QED
      BY ONLY <1>5, <1>8, <1>13, <2>2, <3>2, <3>3, <3>4, <3>5, SendGood
  <2>3. QED
    BY <2>1, <2>2
<1>17. f.method = "Command" => f.level = "running"
  BY <1>6, <1>14
<1>18. QED
  BY <1>1, <1>2, <1>4, <1>6, <1>12, <1>14, <1>16, <1>17, OwnReg

LEMMA RegNext == RegInv /\ [Next]_vars => RegInv'
<1> SUFFICES ASSUME RegInv, [Next]_vars PROVE RegInv'
  OBVIOUS
<1>1. IInv' /\ WireInv'
  BY StepInductive, WireNext DEF RegInv
<1>2. ASSUME NEW s \in Servers,
             GameInit(s) \/ (\E m \in Methods : Call(s, m)) \/ CallStep(s) \/ Shutdown(s)
      PROVE  RegInv'
  <2>1. CASE \E k \in Conns : Dial(s, k)
    BY <1>1, <2>1, DialReg
  <2>2. CASE Send(s)
    BY <1>1, <2>2, SendReg
  <2>3. CASE GameInit(s) \/ (\E m \in Methods : Call(s, m)) \/ DialFails(s) \/ SendFails(s)
    BY <1>1, <2>3, LocalStepsReg
  <2>4. CASE Hello(s) \/ RecvHeader(s) \/ RecvBody(s) \/ RecvFails(s) \/ Shutdown(s)
    BY <1>1, <2>4, TakeStepsReg
  <2>5. QED
    BY <1>2, <2>1, <2>2, <2>3, <2>4 DEF CallStep
<1>3. ASSUME NEW k \in Conns, NetworkBreaks(k) \/ FrameLost(k) PROVE RegInv'
  <2>1. client' = client
    BY <1>3 DEF NetworkBreaks, FrameLost
  <2>2. QED
    BY <1>1, <1>3, <2>1, NetworkKept, DaemonReg
<1>4. ASSUME NEW k \in Conns, Accept(k) \/ ServeProc(k) PROVE RegInv'
  <2>1. client' = client
    BY <1>4 DEF Accept, ServeProc, Handshake, ReadHeader, UnknownMethod, BodyAsHeader, ReadBody,
                CallMethod, SendResponse, ConnFails, Disconnect, DeleteConn
  <2>2. \A j \in Conns : Kept(Servers, j)
    BY <1>4, ReadKept, ThreadKept, CallKept, DisconnectKept, EndKept DEF ServeProc
  <2>3. QED
    BY <1>1, <2>1, <2>2, DaemonReg
<1>5. CASE Die
  <2>1. client' = client
    BY <1>5 DEF Die
  <2>2. QED
    BY <1>1, <1>5, <2>1, EndKept, DaemonReg
<1>6. ASSUME NEW k \in Conns, CommandCrashes(k) PROVE RegInv'
  BY <1>5, <1>6 DEF CommandCrashes
<1>7. CASE Start \/ UNCHANGED vars
  <2>1. client' = client /\ conn' = conn /\ clList' = clList
    BY <1>7 DEF Start, vars
  <2>2. \A j \in Conns : Kept(Servers, j)
    BY <2>1, KeptSame
  <2>3. QED
    BY <1>1, <2>1, <2>2, DaemonReg
<1>8. QED
  BY <1>2, <1>3, <1>4, <1>5, <1>6, <1>7 DEF Next

LEMMA RegInit == Init => RegInv
<1> SUFFICES ASSUME Init PROVE RegInv
  OBVIOUS
<1>1. IInv /\ WireInv
  BY InitInductive, WireInit
<1>2. \A k \in Conns : conn[k] = Unused
  BY DEF Init
<1>3. Fielded(Unused) /\ Unused.toServer = <<>> /\ Unused.thread = "unused"
  BY DEF Fielded, Unused
<1>4. \A k \in Conns : Good(conn[k], clList, k)
  BY <1>2, <1>3, EmptyGood
<1>5. \A s \in Servers : /\ "level" \in DOMAIN client[s] /\ client[s].method = NoMethod
                         /\ client[s].sock = NoConn
  BY DEF Init, NewClient
<1>6. NoMethod # "Command"
  BY DEF NoMethod
<1>7. QED
  BY <1>1, <1>4, <1>5, <1>6 DEF RegInv

-------------------------------------------------------------------------------
\* GetClient finds a client for every command, unless the connection was
\* dialled after the level's Register had failed.
THEOREM CommandsFindTheirClient == Spec => []CommandIsRegistered
<1>1. RegInv => CommandIsRegistered
  <2> SUFFICES ASSUME RegInv, NEW k \in Conns, conn[k].thread = "call", conn[k].method = "Command"
               PROVE  clList[conn[k].addr] = k \/ conn[k].orphan
    BY DEF CommandIsRegistered
  <2>1. Ready(conn[k], clList, k) /\ conn[k].orphan \in BOOLEAN
    BY DEF RegInv, Good, Fielded
  <2>2. InHand(conn[k], "Command")
    BY DEF InHand
  <2>3. CASE conn[k].orphan = FALSE
    BY <2>1, <2>2, <2>3 DEF Ready, Registered
  <2>4. CASE conn[k].orphan = TRUE
    BY <2>4
  <2>5. QED
    BY <2>1, <2>3, <2>4
<1>2. QED
  BY <1>1, RegInit, RegNext, PTL DEF Spec


-------------------------------------------------------------------------------
(* Types: the ids under way are those of calls within the bound, and every *)
(* frame is read by who expects its kind.                                  *)

ClientType ==
  [level : {"none", "starting", "running"},
   pc : {"idle", "dial", "hello", "send", "header", "body"},
   sock : Conns \cup {NoConn}, seq : Ids, method : Methods \cup {NoMethod},
   result : SUBSET [call : Ids, answer : Ids],
   reply : [kind : {"response"}, id : Ids, error : BOOLEAN]]

\* A call that is still to be sent is within the bound.
Calling(e) ==
  /\ e.pc \in {"dial", "hello", "send"} => e.seq < MaxCalls
  /\ e.pc \in {"header", "body"} => e.seq # 0
  /\ e.pc # "idle" => e.method \in Methods

ConnTyped(c) ==
  /\ {"thread", "addr", "id", "method", "toServer", "toClient", "served", "orphan", "reset"}
       \subseteq DOMAIN c
  /\ c.thread \in HasConn \cup {"unused", "backlog", "gone"}
  /\ c.id \in Ids /\ c.method \in Methods \cup {NoMethod}
  /\ c.toServer \in Seq(ToServer) /\ c.toClient \in Seq(ToClient) /\ c.served \in Seq(Ids)

TypeInv ==
  /\ IInv /\ WireInv
  /\ up \in BOOLEAN
  /\ client \in [Servers -> ClientType] /\ \A s \in Servers : Calling(client[s])
  /\ \A k \in Conns : ConnTyped(conn[k])

\* The numbers a call takes are ids, and so is the next within the bound.
LEMMA IdFacts ==
  /\ Ids \subseteq Nat /\ 0 \in Ids /\ MaxCalls \in Ids
  /\ \A n \in Ids : n < MaxCalls => n + 1 \in Ids /\ n + 1 # 0
  /\ \A n \in Ids : n # 0 => n - 1 \in Ids
BY RpcSessionAssumption DEF Ids

\* What each side writes is made of frames of its direction.
LEMMA FrameTypes ==
  /\ \A id \in Ids, m \in Methods : Request(id, m) \in Seq(ToServer)
  /\ <<Key>> \in Seq(ToServer) /\ <<Ok>> \in Seq(ToClient) /\ <<Denied>> \in Seq(ToClient)
  /\ \A id \in Ids, err \in BOOLEAN : Response(id, err) \in Seq(ToClient)
<1>1. \A id \in Ids, m \in Methods : Request(id, m) \in Seq(ToServer)
  BY DEF Request, ToServer, Body
<1>2. <<Key>> \in Seq(ToServer) /\ <<Ok>> \in Seq(ToClient) /\ <<Denied>> \in Seq(ToClient)
  BY DEF ToServer, ToClient
<1>3. \A id \in Ids, err \in BOOLEAN : Response(id, err) \in Seq(ToClient)
  BY DEF Response, ToClient, Body
<1>4. QED
  BY <1>1, <1>2, <1>3

\* A frame's kind tells its fields.
LEMMA FrameKinds ==
  /\ \A f \in ToServer : f.kind = "request" => f.id \in Ids /\ f.method \in Methods
  /\ \A f \in ToClient : f.kind = "response" => f \in [kind : {"response"}, id : Ids, error : BOOLEAN]
  /\ \A f \in ToClient : f.kind = "body" => f.id \in Ids
BY DEF ToServer, ToClient, Key, Ok, Denied

\* A queue with a frame taken from an end still holds frames.
LEMMA EndsTyped ==
  ASSUME NEW S, NEW q \in Seq(S), q # <<>>
  PROVE  Tail(q) \in Seq(S) /\ Front(q) \in Seq(S) /\ Head(q) \in S /\ Head(q) = q[1]
BY TailLeft, FrontLeft, HeadTailProperties

\* A connection nobody has dialled.
LEMMA UnusedTyped == ConnTyped(Unused)
BY IdFacts DEF ConnTyped, Unused

\* The connections as a step leaves them.
ConnsTyped(cn) == \A k \in Conns : ConnTyped(cn[k])

\* A step that changes one connection.
LEMMA OneTyped ==
  ASSUME TypeInv, NEW k \in Conns, NEW d, conn' = [conn EXCEPT ![k] = d], ConnTyped(d)
  PROVE  ConnsTyped(conn')
BY DEF TypeInv, IInv, Shape, ConnsTyped

\* A connection both ends have left is free again.
LEMMA SettledTyped ==
  ASSUME NEW cn, NEW cl, ConnsTyped(cn)
  PROVE  ConnsTyped(Settled(cn, cl))
<1> SUFFICES ASSUME NEW k \in Conns PROVE ConnTyped(Settled(cn, cl)[k])
  BY DEF ConnsTyped
<1>1. PICK c : c = cn[k]
  OBVIOUS
<1>2. ConnTyped(c)
  BY <1>1 DEF ConnsTyped
<1>3. \/ Settled(cn, cl)[k] = [c EXCEPT !.toServer = <<>>, !.reset = FALSE]
      \/ Settled(cn, cl)[k] = c \/ Settled(cn, cl)[k] = Unused
      \/ Settled(cn, cl)[k] = [c EXCEPT !.toClient = <<>>]
  BY <1>1 DEF Settled
<1>4. ConnTyped([c EXCEPT !.toServer = <<>>, !.reset = FALSE])
  BY <1>2 DEF ConnTyped
<1>5. ConnTyped([c EXCEPT !.toClient = <<>>])
  BY <1>2 DEF ConnTyped
<1>6. QED
  BY <1>2, <1>3, <1>4, <1>5, UnusedTyped

\* A thread that deletes its Conn.
LEMMA GoneTyped ==
  ASSUME NEW c, ConnTyped(c)
  PROVE  ConnTyped([c EXCEPT !.thread = "gone", !.addr = NoAddress])
BY DEF ConnTyped

\* What the daemon writes, or loses, after what is there.
LEMMA SentTyped ==
  ASSUME TypeInv, NEW k \in Conns, NEW out \in Seq(ToClient)
  PROVE  Sent(k, out) \in Seq(ToClient)
<1>1. PICK q \in Seq(ToClient) : q = conn[k].toClient
  BY DEF TypeInv, ConnTyped
<1>2. q \o <<>> \in Seq(ToClient) /\ q \o out \in Seq(ToClient)
  OBVIOUS
<1>3. QED
  BY <1>1, <1>2 DEF Sent

\* The daemon's steps on a connection.
LEMMA ReadsTyped ==
  ASSUME TypeInv, NEW k \in Conns, NEW from, NEW to \in HasConn, NEW out \in Seq(ToClient),
         Reads(k, from, to, out)
  PROVE  ConnsTyped(conn')
<1>1. PICK c : c = conn[k]
  OBVIOUS
<1>2. PICK x \in Seq(ToClient) : x = Sent(k, out)
  BY SentTyped
<1>3. ConnTyped(c) /\ c.toServer # <<>>
  BY <1>1 DEF TypeInv, Reads
<1>4. PICK r \in Seq(ToServer) : r = Tail(c.toServer)
  BY <1>3, EndsTyped DEF ConnTyped
<1>5. PICK d : d = [c EXCEPT !.thread = to, !.toServer = r, !.toClient = x]
  OBVIOUS
<1>6. conn' = [conn EXCEPT ![k] = d]
  BY <1>1, <1>2, <1>4, <1>5 DEF Reads
<1>7. ConnTyped(d)
  BY ONLY <1>2, <1>3, <1>4, <1>5, to \in HasConn DEF ConnTyped
<1>8. QED
  BY <1>6, <1>7, OneTyped

\* The steps of a connection's thread and of the network.
LEMMA ThreadTyped ==
  ASSUME TypeInv, NEW k \in Conns,
         NetworkBreaks(k) \/ FrameLost(k) \/ Accept(k) \/ ServeProc(k)
  PROVE  ConnsTyped(conn')
<1>1. PICK c : c = conn[k]
  OBVIOUS
<1>2. ConnTyped(c)
  BY <1>1 DEF TypeInv
<1>3. {"handshake", "header", "disconnect", "call", "delete", "body", "reply"} \subseteq HasConn
  BY DEF HasConn, Serving
<1>4. <<>> \in Seq(ToClient) /\ FALSE \in BOOLEAN /\ TRUE \in BOOLEAN /\ NoMethod \in Methods \cup {NoMethod}
  OBVIOUS
<1>5. CASE NetworkBreaks(k)
  <2>1. PICK d : d = [c EXCEPT !.reset = TRUE]
    OBVIOUS
  <2>2. conn' = [conn EXCEPT ![k] = d] /\ ConnTyped(d)
    BY <1>1, <1>2, <1>5, <2>1 DEF NetworkBreaks, ConnTyped
  <2>3. QED
    BY <2>2, OneTyped
<1>6. CASE FrameLost(k)
  <2>1. CASE c.toServer # <<>> /\ conn' = [conn EXCEPT ![k].toServer = Front(@)]
    <3>1. PICK r \in Seq(ToServer) : r = Front(c.toServer)
      BY <1>2, <2>1, EndsTyped DEF ConnTyped
    <3>2. PICK d : d = [c EXCEPT !.toServer = r]
      OBVIOUS
    <3>3. conn' = [conn EXCEPT ![k] = d] /\ ConnTyped(d)
      BY <1>1, <1>2, <2>1, <3>1, <3>2 DEF ConnTyped
    <3>4. QED
      BY <3>3, OneTyped
  <2>2. CASE c.toClient # <<>> /\ conn' = [conn EXCEPT ![k].toClient = Front(@)]
    <3>1. PICK r \in Seq(ToClient) : r = Front(c.toClient)
      BY <1>2, <2>2, EndsTyped DEF ConnTyped
    <3>2. PICK d : d = [c EXCEPT !.toClient = r]
      OBVIOUS
    <3>3. conn' = [conn EXCEPT ![k] = d] /\ ConnTyped(d)
      BY <1>1, <1>2, <2>2, <3>1, <3>2 DEF ConnTyped
    <3>4. QED
      BY <3>3, OneTyped
  <2>3. QED
    BY <1>1, <1>6, <2>1, <2>2 DEF FrameLost
<1>7. CASE Accept(k)
  <2>1. PICK a : conn' = [conn EXCEPT ![k].thread = "handshake", ![k].addr = a]
    BY <1>7 DEF Accept
  <2>2. PICK d : d = [c EXCEPT !.thread = "handshake", !.addr = a]
    OBVIOUS
  <2>3. conn' = [conn EXCEPT ![k] = d] /\ ConnTyped(d)
    BY <1>1, <1>2, <1>3, <2>1, <2>2 DEF ConnTyped
  <2>4. QED
    BY <2>3, OneTyped
<1>8. CASE Handshake(k)
  BY <1>3, <1>8, FrameTypes, ReadsTyped DEF Handshake
<1>9. CASE UnknownMethod(k)
  <2>1. PICK f : f = Head(conn[k].toServer)
    OBVIOUS
  <2>2. f \in ToServer /\ f.kind = "request" /\ Reads(k, "header", "header", Response(f.id, TRUE))
    BY <1>1, <1>2, <1>9, <2>1, EndsTyped DEF UnknownMethod, ConnTyped
  <2>3. f.id \in Ids
    BY <2>2, FrameKinds
  <2>4. QED
    BY <1>3, <1>4, <2>2, <2>3, FrameTypes, ReadsTyped
<1>10. CASE BodyAsHeader(k)
  BY <1>3, <1>4, <1>10, FrameTypes, ReadsTyped DEF BodyAsHeader
<1>11. CASE ReadBody(k)
  BY <1>3, <1>4, <1>11, ReadsTyped DEF ReadBody
<1>12. CASE ReadHeader(k)
  <2>1. PICK f : f = Head(c.toServer)
    OBVIOUS
  <2>2. c.toServer # <<>> /\ f.kind = "request"
    BY <1>1, <1>12, <2>1 DEF ReadHeader
  <2>3. f \in ToServer /\ Tail(c.toServer) \in Seq(ToServer)
    BY <1>2, <2>1, <2>2, EndsTyped DEF ConnTyped
  <2>4. f.id \in Ids /\ f.method \in Methods
    BY <2>2, <2>3, FrameKinds
  <2>5. PICK r \in Seq(ToServer) : r = Tail(c.toServer)
    BY <2>3
  <2>6. PICK d : d = [c EXCEPT !.thread = "body", !.toServer = r, !.id = f.id, !.method = f.method]
    OBVIOUS
  <2>7. conn' = [conn EXCEPT ![k] = d]
    BY <1>1, <1>12, <2>1, <2>5, <2>6 DEF ReadHeader
  <2>8. ConnTyped(d)
    BY ONLY <1>2, <1>3, <2>4, <2>5, <2>6 DEF ConnTyped
  <2>9. QED
    BY <2>7, <2>8, OneTyped
<1>13. CASE CallMethod(k)
  <2>1. PICK q \in Seq(Ids) : q = Append(c.served, c.id)
    BY <1>2, AppendProperties DEF ConnTyped
  <2>2. PICK d : d = [c EXCEPT !.thread = "reply", !.served = q]
    OBVIOUS
  <2>3. conn' = [conn EXCEPT ![k] = d]
    BY <1>1, <1>13, <2>1, <2>2 DEF CallMethod
  <2>4. ConnTyped(d)
    BY ONLY <1>2, <1>3, <2>1, <2>2 DEF ConnTyped
  <2>5. QED
    BY <2>3, <2>4, OneTyped
<1>14. CASE SendResponse(k)
  <2>1. Response(c.id, FALSE) \in Seq(ToClient)
    BY <1>2, <1>4, FrameTypes DEF ConnTyped
  <2>2. PICK x \in Seq(ToClient) : x = Sent(k, Response(c.id, FALSE))
    BY <2>1, SentTyped
  <2>3. PICK d : d = [c EXCEPT !.thread = "header", !.id = 0, !.method = NoMethod, !.toClient = x]
    OBVIOUS
  <2>4. conn' = [conn EXCEPT ![k] = d]
    BY <1>1, <1>14, <2>2, <2>3 DEF SendResponse
  <2>5. ConnTyped(d)
    BY ONLY <1>2, <1>3, <1>4, <2>2, <2>3, IdFacts DEF ConnTyped
  <2>6. QED
    BY <2>4, <2>5, OneTyped
<1>15. CASE ConnFails(k)
  <2>1. PICK d : d = [c EXCEPT !.thread = "disconnect", !.id = 0, !.method = NoMethod]
    OBVIOUS
  <2>2. conn' = [conn EXCEPT ![k] = d]
    BY <1>1, <1>15, <2>1 DEF ConnFails
  <2>3. ConnTyped(d)
    BY ONLY <1>2, <1>3, <1>4, <2>1, IdFacts DEF ConnTyped
  <2>4. QED
    BY <2>2, <2>3, OneTyped
<1>16. CASE Disconnect(k)
  <2>1. PICK d : d = [c EXCEPT !.thread = "delete"]
    OBVIOUS
  <2>2. conn' = [conn EXCEPT ![k] = d] /\ ConnTyped(d)
    BY <1>1, <1>2, <1>3, <1>16, <2>1 DEF Disconnect, ThreadGoes, ConnTyped
  <2>3. QED
    BY <2>2, OneTyped
<1>17. CASE DeleteConn(k)
  <2>1. PICK cn : /\ cn = [conn EXCEPT ![k].thread = "gone", ![k].addr = NoAddress]
                  /\ conn' = Settled(cn, client)
    BY <1>17 DEF DeleteConn
  <2>2. PICK d : d = [c EXCEPT !.thread = "gone", !.addr = NoAddress]
    OBVIOUS
  <2>3. cn = [conn EXCEPT ![k] = d] /\ ConnTyped(d)
    BY <1>1, <1>2, <2>1, <2>2, GoneTyped
  <2>4. ConnsTyped(cn)
    BY <2>3 DEF TypeInv, IInv, Shape, ConnsTyped
  <2>5. QED
    BY <2>1, <2>4, SettledTyped
<1>18. QED
  BY <1>5, <1>6, <1>7, <1>8, <1>9, <1>10, <1>11, <1>12, <1>13, <1>14, <1>15, <1>16, <1>17 DEF ServeProc

\* The daemon's end takes every thread with it.
LEMMA DieTyped ==
  ASSUME TypeInv, Die
  PROVE  ConnsTyped(conn')
<1>1. PICK cn : /\ cn = [k \in Conns |-> IF conn[k] = Unused THEN Unused
                           ELSE [conn[k] EXCEPT !.thread = "gone", !.addr = NoAddress]]
                /\ conn' = Settled(cn, client)
  BY DEF Die
<1>2. ConnsTyped(cn)
  BY <1>1, GoneTyped, UnusedTyped DEF ConnsTyped, TypeInv
<1>3. QED
  BY <1>1, <1>2, SettledTyped

\* A server that goes on to f.
LEMMA ServerTyped ==
  ASSUME TypeInv, NEW s \in Servers, NEW f, client' = [client EXCEPT ![s] = f],
         f \in ClientType, Calling(f)
  PROVE  client' \in [Servers -> ClientType] /\ \A t \in Servers : Calling(client'[t])
BY DEF TypeInv

LEMMA FromTyped ==
  ASSUME TypeInv, NEW s \in Servers
  PROVE  /\ client[s] \in ClientType /\ Calling(client[s])
         /\ client[s].pc \in {"hello", "send", "header", "body"} =>
              /\ client[s].sock # NoConn /\ client[s].sock \in Conns
              /\ Wire(client[s], conn[client[s].sock]) /\ ConnTyped(conn[client[s].sock])
<1>1. client[s].pc \in {"hello", "send", "header", "body"} => client[s].sock # NoConn
  BY Connected DEF TypeInv
<1>2. client[s].sock # NoConn => client[s].sock \in Conns /\ Wire(client[s], conn[client[s].sock])
  BY HeldFacts DEF TypeInv
<1>3. QED
  BY <1>1, <1>2 DEF TypeInv

\* The frame s takes off its connection.
LEMMA TakenTyped ==
  ASSUME TypeInv, NEW s \in Servers, client[s].pc \in {"hello", "header", "body"},
         conn[client[s].sock].toClient # <<>>
  PROVE  /\ Head(conn[client[s].sock].toClient) \in ToClient
         /\ client[s].pc = "header" => Head(conn[client[s].sock].toClient).kind = "response"
         /\ client[s].pc = "body" => Head(conn[client[s].sock].toClient).kind = "body"
         /\ conn' = [conn EXCEPT ![client[s].sock].toClient = Tail(@)] => ConnsTyped(conn')
<1>1. PICK k \in Conns : k = client[s].sock
  BY FromTyped
<1>2. PICK c : c = conn[k]
  OBVIOUS
<1>3. ConnTyped(c) /\ Wire(client[s], c) /\ c.toClient # <<>>
  BY <1>1, <1>2, FromTyped
<1>4. PICK r \in Seq(ToClient) : r = Tail(c.toClient)
  BY <1>3, EndsTyped DEF ConnTyped
<1>5. Head(c.toClient) \in ToClient /\ Head(c.toClient) = c.toClient[1]
  BY <1>3, EndsTyped DEF ConnTyped
<1>6. PICK d : d = [c EXCEPT !.toClient = r]
  OBVIOUS
<1>7. ConnTyped(d)
  BY ONLY <1>3, <1>4, <1>6 DEF ConnTyped
<1>8. ASSUME conn' = [conn EXCEPT ![k].toClient = Tail(@)] PROVE ConnsTyped(conn')
  <2>1. conn' = [conn EXCEPT ![k] = d]
    BY <1>2, <1>4, <1>6, <1>8
  <2>2. QED
    BY <1>7, <2>1, OneTyped
<1>9. /\ client[s].pc = "header" => Head(c.toClient).kind = "response"
      /\ client[s].pc = "body" => Head(c.toClient).kind = "body"
  BY <1>3, <1>5 DEF Wire, First
<1>10. QED
  BY <1>1, <1>2, <1>5, <1>8, <1>9

\* The steps of a game server: the id of its next call is within the bound,
\* and the frame it takes is of the kind it stores.
LEMMA ClientTypes ==
  ASSUME TypeInv, NEW s \in Servers,
         GameInit(s) \/ (\E m \in Methods : Call(s, m)) \/ CallStep(s) \/ Shutdown(s)
  PROVE  /\ client' \in [Servers -> ClientType] /\ \A t \in Servers : Calling(client'[t])
         /\ ConnsTyped(conn')
<1>1. PICK e : e = client[s]
  OBVIOUS
<1>2. e \in ClientType /\ Calling(e)
  BY <1>1, FromTyped
<1>3. conn' = conn => ConnsTyped(conn')
  BY DEF TypeInv, ConnsTyped
<1>4. conn' = Settled(conn, client') => ConnsTyped(conn')
  <2>1. ConnsTyped(conn)
    BY DEF TypeInv, ConnsTyped
  <2>2. QED
    BY <2>1, SettledTyped
<1>5. e.method \in Methods \cup {NoMethod} /\ e.seq \in Ids /\ e.sock \in Conns \cup {NoConn}
  BY <1>2 DEF ClientType
<1>6. NoReply \in [kind : {"response"}, id : Ids, error : BOOLEAN]
  BY IdFacts DEF NoReply
<1>7. CASE GameInit(s)
  <2>1. PICK f : f = [e EXCEPT !.level = "starting"]
    OBVIOUS
  <2>2. client' = [client EXCEPT ![s] = f] /\ conn' = conn
    BY <1>1, <1>7, <2>1 DEF GameInit
  <2>3. f \in ClientType /\ Calling(f)
    BY ONLY <1>2, <2>1 DEF ClientType, Calling
  <2>4. QED
    BY <1>3, <2>2, <2>3, ServerTyped
<1>8. ASSUME NEW m \in Methods, Call(s, m)
      PROVE  /\ client' \in [Servers -> ClientType] /\ \A t \in Servers : Calling(client'[t])
             /\ ConnsTyped(conn')
  <2>1. PICK lv \in {"none", "starting", "running"} : lv = IF m = "Register" THEN "running" ELSE e.level
    BY <1>2 DEF ClientType
  <2>2. PICK p \in {"dial", "send"} : p = IF e.sock = NoConn THEN "dial" ELSE "send"
    OBVIOUS
  <2>3. PICK f : f = [e EXCEPT !.method = m, !.result = {}, !.level = lv, !.pc = p]
    OBVIOUS
  <2>4. client' = [client EXCEPT ![s] = f] /\ conn' = conn /\ e.seq < MaxCalls
    BY <1>1, <1>8, <2>1, <2>2, <2>3 DEF Call
  <2>5. f \in ClientType
    BY ONLY <1>2, <2>1, <2>2, <2>3, m \in Methods DEF ClientType
  <2>6. f.seq = e.seq /\ f.pc = p /\ f.method = m
    BY ONLY <1>2, <2>3 DEF ClientType
  <2>7. Calling(f)
    BY <2>2, <2>4, <2>6 DEF Calling
  <2>8. QED
    BY <1>3, <2>4, <2>5, <2>7, ServerTyped
<1>9. ASSUME NEW k \in Conns, Dial(s, k)
      PROVE  /\ client' \in [Servers -> ClientType] /\ \A t \in Servers : Calling(client'[t])
             /\ ConnsTyped(conn')
  <2>1. PICK f : f = [e EXCEPT !.pc = "hello", !.sock = k]
    OBVIOUS
  <2>2. PICK o : o = (client[s].level = "running" /\ client[s].method # "Register")
    OBVIOUS
  <2>3. PICK d : d = [conn[k] EXCEPT !.thread = "backlog", !.toServer = <<Key>>, !.orphan = o]
    OBVIOUS
  <2>4. /\ client' = [client EXCEPT ![s] = f] /\ conn' = [conn EXCEPT ![k] = d]
        /\ e.pc = "dial"
    BY <1>1, <1>9, <2>1, <2>2, <2>3 DEF Dial
  <2>5. f \in ClientType
    BY ONLY <1>2, <2>1, k \in Conns DEF ClientType
  <2>6. f.seq = e.seq /\ f.pc = "hello" /\ f.method = e.method
    BY ONLY <1>2, <2>1 DEF ClientType
  <2>7. Calling(f)
    BY <1>2, <2>4, <2>6 DEF Calling
  <2>8. ConnTyped(conn[k])
    BY DEF TypeInv
  <2>9. ConnTyped(d)
    BY ONLY <2>3, <2>8, FrameTypes DEF ConnTyped
  <2>10. QED
    BY <2>4, <2>5, <2>7, <2>9, ServerTyped, OneTyped
<1>10. CASE DialFails(s)
  <2>1. PICK f : f = [e EXCEPT !.pc = "idle", !.method = NoMethod]
    OBVIOUS
  <2>2. client' = [client EXCEPT ![s] = f] /\ conn' = conn
    BY <1>1, <1>10, <2>1 DEF DialFails
  <2>3. f \in ClientType /\ Calling(f)
    BY ONLY <1>2, <2>1 DEF ClientType, Calling
  <2>4. QED
    BY <1>3, <2>2, <2>3, ServerTyped
<1>11. CASE SendFails(s)
  <2>1. PICK f : f = [e EXCEPT !.pc = "idle", !.seq = e.seq + 1, !.method = NoMethod]
    OBVIOUS
  <2>2. client' = [client EXCEPT ![s] = f] /\ conn' = conn /\ e.pc = "send"
    BY <1>1, <1>11, <2>1 DEF SendFails
  <2>3. e.seq + 1 \in Ids
    BY <1>2, <1>5, <2>2, IdFacts DEF Calling
  <2>4. f \in ClientType /\ f.pc = "idle"
    BY ONLY <1>2, <2>1, <2>3 DEF ClientType
  <2>5. Calling(f)
    BY ONLY <2>4 DEF Calling
  <2>6. QED
    BY <1>3, <2>2, <2>4, <2>5, ServerTyped
<1>12. CASE Close(s)
  <2>1. PICK f : f = [e EXCEPT !.sock = NoConn, !.pc = "idle", !.method = NoMethod]
    OBVIOUS
  <2>2. client' = [client EXCEPT ![s] = f] /\ conn' = Settled(conn, client')
    BY <1>1, <1>12, <2>1 DEF Close
  <2>3. f \in ClientType /\ f.pc = "idle"
    BY ONLY <1>2, <2>1 DEF ClientType
  <2>4. Calling(f)
    BY ONLY <2>3 DEF Calling
  <2>5. QED
    BY <1>4, <2>2, <2>3, <2>4, ServerTyped
<1>13. CASE Hello(s)
  <2>1. CASE ClientGoes(s, "hello", "send") /\ conn' = [conn EXCEPT ![client[s].sock].toClient = Tail(@)]
    <3>1. PICK f : f = [e EXCEPT !.pc = "send"]
      OBVIOUS
    <3>2. client' = [client EXCEPT ![s] = f] /\ e.pc = "hello"
      BY <1>1, <2>1, <3>1 DEF ClientGoes
    <3>3. f \in ClientType /\ f.seq = e.seq /\ f.pc = "send" /\ f.method = e.method
      BY ONLY <1>2, <3>1 DEF ClientType
    <3>4. Calling(f)
      BY <1>2, <3>2, <3>3 DEF Calling
    <3>5. ConnsTyped(conn')
      BY <1>1, <1>13, <2>1, <3>2, TakenTyped DEF Hello
    <3>6. QED
      BY <3>2, <3>3, <3>4, <3>5, ServerTyped
  <2>2. QED
    BY <1>12, <1>13, <2>1 DEF Hello
<1>14. CASE Send(s)
  <2>1. PICK k \in Conns : k = e.sock
    BY <1>1, <1>14, FromTyped DEF Send
  <2>2. PICK c : c = conn[k]
    OBVIOUS
  <2>3. ConnTyped(c)
    BY <2>2 DEF TypeInv
  <2>4. e.pc = "send"
    BY <1>1, <1>14 DEF Send
  <2>5. e.seq + 1 \in Ids /\ e.seq + 1 # 0 /\ e.method \in Methods
    BY <1>2, <1>5, <2>4, IdFacts DEF Calling
  <2>6. PICK q \in Seq(ToServer) :
          q = c.toServer \o IF ServerLost(k) THEN <<>> ELSE Request(e.seq, e.method)
    <3>1. PICK p \in Seq(ToServer) : p = IF ServerLost(k) THEN <<>> ELSE Request(e.seq, e.method)
      <4>1. <<>> \in Seq(ToServer)
        BY ONLY TRUE
      <4>2. Request(e.seq, e.method) \in Seq(ToServer)
        BY <1>2, <2>5, FrameTypes DEF ClientType
      <4>3. CASE ServerLost(k)
        BY ONLY <4>1, <4>3
      <4>4. CASE ~ServerLost(k)
        BY ONLY <4>2, <4>4
      <4>5. QED
        BY ONLY <4>3, <4>4
    <3>2. PICK r \in Seq(ToServer) : r = c.toServer
      BY <2>3 DEF ConnTyped
    <3>3. r \o p \in Seq(ToServer)
      BY ONLY r \in Seq(ToServer), p \in Seq(ToServer)
    <3>4. QED
      BY <3>1, <3>2, <3>3
  <2>7. PICK d : d = [c EXCEPT !.toServer = q]
    OBVIOUS
  <2>8. PICK f : f = [e EXCEPT !.pc = "header", !.seq = e.seq + 1]
    OBVIOUS
  <2>9. conn' = [conn EXCEPT ![k] = d] /\ client' = [client EXCEPT ![s] = f]
    BY <1>1, <1>14, <2>1, <2>2, <2>6, <2>7, <2>8 DEF Send
  <2>10. ConnTyped(d)
    BY ONLY <2>3, <2>6, <2>7 DEF ConnTyped
  <2>11. f \in ClientType /\ f.seq = e.seq + 1 /\ f.pc = "header" /\ f.method = e.method
    BY ONLY <1>2, <2>5, <2>8 DEF ClientType
  <2>12. Calling(f)
    BY <2>5, <2>11 DEF Calling
  <2>13. QED
    BY <2>9, <2>10, <2>11, <2>12, ServerTyped, OneTyped
<1>15. CASE RecvHeader(s)
  <2>1. PICK h : h = Head(conn[client[s].sock].toClient)
    OBVIOUS
  <2>2. /\ e.pc = "header" /\ conn[client[s].sock].toClient # <<>>
        /\ conn' = [conn EXCEPT ![client[s].sock].toClient = Tail(@)]
    BY <1>1, <1>15 DEF RecvHeader
  <2>3. h \in [kind : {"response"}, id : Ids, error : BOOLEAN] /\ ConnsTyped(conn')
    BY <1>1, <2>1, <2>2, TakenTyped, FrameKinds
  <2>4. PICK f : f = [e EXCEPT !.pc = "body", !.reply = h]
    OBVIOUS
  <2>5. client' = [client EXCEPT ![s] = f]
    BY <1>1, <1>15, <2>1, <2>4 DEF RecvHeader
  <2>6. f \in ClientType /\ f.seq = e.seq /\ f.pc = "body" /\ f.method = e.method
    BY ONLY <1>2, <2>3, <2>4 DEF ClientType
  <2>7. Calling(f)
    BY <1>2, <2>2, <2>6 DEF Calling
  <2>8. QED
    BY <2>3, <2>5, <2>6, <2>7, ServerTyped
<1>16. CASE RecvBody(s)
  <2>1. PICK h : h = Head(conn[client[s].sock].toClient)
    OBVIOUS
  <2>2. /\ e.pc = "body" /\ conn[client[s].sock].toClient # <<>>
        /\ conn' = [conn EXCEPT ![client[s].sock].toClient = Tail(@)]
    BY <1>1, <1>16 DEF RecvBody
  <2>3. h.id \in Ids /\ ConnsTyped(conn')
    BY <1>1, <2>1, <2>2, TakenTyped, FrameKinds
  <2>4. PICK id \in Ids : id = e.seq - 1
    BY <1>2, <1>5, <2>2, IdFacts DEF Calling
  <2>5. PICK x : x = {r \in {[call |-> id, answer |-> h.id]} : e.reply.id = id /\ ~e.reply.error}
    OBVIOUS
  <2>6. x \in SUBSET [call : Ids, answer : Ids]
    BY <2>3, <2>5
  <2>7. PICK f : f = [e EXCEPT !.pc = "idle", !.reply = NoReply, !.method = NoMethod, !.result = x]
    OBVIOUS
  <2>8. client' = [client EXCEPT ![s] = f]
    BY <1>1, <1>16, <2>1, <2>4, <2>5, <2>7 DEF RecvBody
  <2>9. f \in ClientType /\ f.pc = "idle"
    BY ONLY <1>2, <1>6, <2>6, <2>7 DEF ClientType
  <2>10. Calling(f)
    BY ONLY <2>9 DEF Calling
  <2>11. QED
    BY <2>3, <2>8, <2>9, <2>10, ServerTyped
<1>17. CASE /\ client[s].pc \in {"header", "body"}
            /\ client' = [client EXCEPT ![s].pc = "idle", ![s].reply = NoReply, ![s].method = NoMethod]
            /\ UNCHANGED conn
  <2>1. PICK f : f = [e EXCEPT !.pc = "idle", !.reply = NoReply, !.method = NoMethod]
    OBVIOUS
  <2>2. client' = [client EXCEPT ![s] = f]
    BY <1>1, <1>17, <2>1
  <2>3. f \in ClientType /\ f.pc = "idle"
    BY ONLY <1>2, <1>6, <2>1 DEF ClientType
  <2>4. Calling(f)
    BY ONLY <2>3 DEF Calling
  <2>5. QED
    BY <1>3, <1>17, <2>2, <2>3, <2>4, ServerTyped
<1>18. CASE RecvFails(s)
  BY <1>12, <1>17, <1>18 DEF RecvFails
<1>19. CASE Shutdown(s)
  <2>1. client' = [client EXCEPT ![s] = NewClient] /\ conn' = Settled(conn, client')
    BY <1>19 DEF Shutdown
  <2>2. NewClient \in ClientType /\ Calling(NewClient)
    BY <1>6, IdFacts DEF NewClient, ClientType, Calling
  <2>3. QED
    BY <1>4, <2>1, <2>2, ServerTyped
<1>20. QED
  BY <1>7, <1>8, <1>9, <1>10, <1>11, <1>13, <1>14, <1>15, <1>16, <1>18, <1>19 DEF CallStep

\* Every step keeps the types.
LEMMA TypeNext == TypeInv /\ [Next]_vars => TypeInv'
<1> SUFFICES ASSUME TypeInv, [Next]_vars PROVE TypeInv'
  OBVIOUS
<1>1. IInv' /\ WireInv'
  BY StepInductive, WireNext DEF TypeInv
<1>2. ASSUME up' \in BOOLEAN, client' = client, ConnsTyped(conn') PROVE TypeInv'
  BY <1>1, <1>2 DEF TypeInv, ConnsTyped
<1>3. ASSUME NEW s \in Servers,
             GameInit(s) \/ (\E m \in Methods : Call(s, m)) \/ CallStep(s) \/ Shutdown(s)
      PROVE  TypeInv'
  <2>1. up' = up
    BY <1>3 DEF GameInit, Call, CallStep, Dial, DialFails, Hello, Send, SendFails, RecvHeader,
                RecvBody, RecvFails, Shutdown
  <2>2. QED
    BY <1>1, <1>3, <2>1, ClientTypes DEF TypeInv, ConnsTyped
<1>4. ASSUME NEW k \in Conns, NetworkBreaks(k) \/ FrameLost(k) \/ Accept(k) \/ ServeProc(k)
      PROVE  TypeInv'
  <2>1. up' = up /\ client' = client
    BY <1>4 DEF NetworkBreaks, FrameLost, Accept, ServeProc, Handshake, ReadHeader, UnknownMethod,
                BodyAsHeader, ReadBody, CallMethod, SendResponse, ConnFails, Disconnect, DeleteConn
  <2>2. QED
    BY <1>2, <1>4, <2>1, ThreadTyped DEF TypeInv
<1>5. CASE Die
  <2>1. up' = FALSE /\ client' = client
    BY <1>5 DEF Die
  <2>2. QED
    BY <1>2, <1>5, <2>1, DieTyped
<1>6. ASSUME NEW k \in Conns, CommandCrashes(k) PROVE TypeInv'
  BY <1>5, <1>6 DEF CommandCrashes
<1>7. CASE Start \/ UNCHANGED vars
  <2>1. up' \in BOOLEAN /\ client' = client /\ conn' = conn
    BY <1>7 DEF Start, vars, TypeInv
  <2>2. QED
    BY <1>2, <2>1 DEF TypeInv, ConnsTyped
<1>8. QED
  BY <1>3, <1>4, <1>5, <1>6, <1>7 DEF Next

\* And they hold at the start.
LEMMA TypeInit == Init => TypeInv
<1> SUFFICES ASSUME Init PROVE TypeInv
  OBVIOUS
<1>1. IInv /\ WireInv
  BY InitInductive, WireInit
<1>2. NewClient \in ClientType /\ Calling(NewClient)
  BY IdFacts DEF NewClient, NoReply, ClientType, Calling
<1>3. QED
  BY <1>1, <1>2, UnusedTyped DEF Init, TypeInv

\* What is stored and sent has its type, and no step runs into a bound: the ids
\* and frames of failed calls included.
THEOREM SessionTypes == Spec => []TypeOK
<1>1. TypeInv => TypeOK
  <2> SUFFICES ASSUME TypeInv PROVE TypeOK
    OBVIOUS
  <2>1. up \in BOOLEAN /\ client \in [Servers -> ClientType]
    BY DEF TypeInv
  <2>2. clList \in [Addresses -> Conns \cup {NoConn}]
    BY DEF TypeInv, IInv, Shape
  <2>3. ASSUME NEW k \in Conns PROVE conn[k].addr \in Addresses <=> conn[k].thread \in HasConn
    BY RpcSessionAssumption DEF TypeInv, IInv, Allocated
  <2>4. QED
    BY <2>1, <2>2, <2>3 DEF TypeOK, ClientType, TypeInv, ConnTyped
<1>2. QED
  BY <1>1, TypeInit, TypeNext, PTL DEF Spec

===============================================================================
