------------------------------ MODULE MysqlPool ------------------------------
(***************************************************************************)
(* The daemon's pool of MySQL connections (server/MysqlPool.cc), shared by *)
(* the connection threads and the main thread: a counting semaphore that   *)
(* says how many connections are left, and a std::vector that nothing      *)
(* protects.                                                               *)
(*                                                                         *)
(* The vector is its size and its storage, which keeps what was popped;    *)
(* back, pop_back and push_back read the size, and write it in a later     *)
(* step.  IsObjInList is one step.                                         *)
(*                                                                         *)
(* Definitions named Action_Change are mutants of Action.                  *)
(***************************************************************************)
EXTENDS Integers, Sequences

CONSTANTS
  Threads,    \* the threads that use the pool
  PoolSize    \* option mysql_pool_size

ASSUME PoolSizeAssumption == PoolSize \in Nat \ {0}

Connections == 1 .. PoolSize
Wild == 0    \* what back() of an empty vector reads

VARIABLES
  pc,        \* where each thread is
  con,       \* the connection each thread has got or returns
  seen,      \* the size each thread's pop_back or push_back has read
  permits,   \* mutex_, the semaphore
  size,      \* objList_.size()
  storage,   \* objList_'s memory, oldest first
  refused    \* history: threads whose Return found its connection in the list

vector == <<size, storage>>
vars == <<pc, con, seen, permits, vector, refused>>

Inside == {"back", "pop", "popped",              \* Get after the semaphore
           "push", "store", "stored", "post"}    \* Return before it
Holding == {"pop", "popped", "using", "push", "store"}
Pcs == {"idle", "wait", "using"} \cup Inside

TypeOK ==
  /\ pc \in [Threads -> Pcs]
  /\ con \in [Threads -> Connections \cup {Wild}]
  /\ seen \in [Threads -> Int]
  /\ permits \in 0 .. PoolSize
  /\ size \in Int
  /\ storage \in Seq(Connections)
  /\ refused \subseteq Threads

Init ==
  /\ pc = [t \in Threads |-> "idle"]
  /\ con = [t \in Threads |-> Wild]
  /\ seen = [t \in Threads |-> 0]
  /\ permits = PoolSize
  /\ size = PoolSize
  /\ storage = [i \in 1 .. PoolSize |-> i]
  /\ refused = {}

Goes(t, from, to) == pc[t] = from /\ pc' = [pc EXCEPT ![t] = to]

-------------------------------------------------------------------------------
(* Get.                                                                    *)

Get(t) ==
  /\ Goes(t, "idle", "wait")
  /\ UNCHANGED <<con, seen, permits, vector, refused>>

SemWait_Skipped(t) ==
  /\ Goes(t, "wait", "back")
  /\ UNCHANGED <<con, seen, permits, vector, refused>>
SemWait_TryOnly(t) ==
  /\ Goes(t, "wait", IF permits > 0 THEN "back" ELSE "idle")
  /\ permits' = IF permits > 0 THEN permits - 1 ELSE permits
  /\ UNCHANGED <<con, seen, vector, refused>>
SemWait(t) ==
  /\ Goes(t, "wait", "back")
  /\ permits > 0
  /\ permits' = permits - 1
  /\ UNCHANGED <<con, seen, vector, refused>>

Back(t) ==
  /\ Goes(t, "back", "pop")
  /\ con' = [con EXCEPT ![t] = IF size > 0 THEN storage[size] ELSE Wild]
  /\ UNCHANGED <<seen, permits, vector, refused>>

PopRead(t) ==
  /\ Goes(t, "pop", "popped")
  /\ seen' = [seen EXCEPT ![t] = size]
  /\ UNCHANGED <<con, permits, vector, refused>>

PopWrite_Forgotten(t) ==
  /\ Goes(t, "popped", "using")
  /\ UNCHANGED <<con, seen, permits, vector, refused>>
PopWrite(t) ==
  /\ Goes(t, "popped", "using")
  /\ size' = seen[t] - 1
  /\ UNCHANGED <<con, seen, permits, storage, refused>>

-------------------------------------------------------------------------------
(* Return, by a thread that got the connection and returns it once.        *)

InList(c) == \E i \in 1 .. size : storage[i] = c

ReturnCheck_Inverted(t) ==
  /\ con[t] # Wild
  /\ Goes(t, "using", IF ~InList(con[t]) THEN "idle" ELSE "push")
  /\ UNCHANGED <<con, seen, permits, vector, refused>>
\* A connection that is in the list already is dropped, and with it the permit.
ReturnCheck(t) ==
  /\ con[t] # Wild
  /\ Goes(t, "using", IF InList(con[t]) THEN "idle" ELSE "push")
  /\ refused' = IF InList(con[t]) THEN refused \cup {t} ELSE refused
  /\ UNCHANGED <<con, seen, permits, vector>>

PushRead(t) ==
  /\ Goes(t, "push", "store")
  /\ seen' = [seen EXCEPT ![t] = size]
  /\ UNCHANGED <<con, permits, vector, refused>>

PushStore(t) ==
  /\ Goes(t, "store", "stored")
  /\ storage' = IF seen[t] < Len(storage)
                THEN [storage EXCEPT ![seen[t] + 1] = con[t]]
                ELSE Append(storage, con[t])
  /\ UNCHANGED <<con, seen, permits, size, refused>>

PushWrite(t) ==
  /\ Goes(t, "stored", "post")
  /\ size' = seen[t] + 1
  /\ UNCHANGED <<con, seen, permits, storage, refused>>

Post(t) ==
  /\ Goes(t, "post", "idle")
  /\ permits' = permits + 1
  /\ UNCHANGED <<con, seen, vector, refused>>

-------------------------------------------------------------------------------
Step(t) ==
  \/ SemWait(t) \/ Back(t) \/ PopRead(t) \/ PopWrite(t)
  \/ ReturnCheck(t) \/ PushRead(t) \/ PushStore(t) \/ PushWrite(t) \/ Post(t)

Next == \E t \in Threads : Get(t) \/ Step(t)

Spec == Init /\ [][Next]_vars

(* A thread in Get or Return goes on, and a thread that has a connection   *)
(* returns it: the query comes back, with an SQLException if need be.  The *)
(* semaphore lets no waiting thread starve.                                *)
Fairness == \A t \in Threads : WF_vars(Step(t)) /\ SF_vars(SemWait(t))

FairSpec == Spec /\ Fairness

-------------------------------------------------------------------------------
(* Properties.  The races of Get and Return break each of the first three  *)
(* (see NoTwiceReturn).  RaceFree says which races, and with PoolSize = 1  *)
(* there are none.                                                         *)

\* One thread at a time is between back and the end of pop_back, or within push_back.
\* The search of Return may run beside either.
Changing == {"pop", "popped", "store", "stored"}
RaceFree ==
  \A t, u \in Threads : pc[t] \in Changing /\ pc[u] \in Changing => t = u

\* Two threads never talk on the same connection: its protocol allows one query
\* at a time.
Exclusive ==
  \A t, u \in Threads :
    (t # u /\ pc[t] \in Holding /\ pc[u] \in Holding) => con[t] # con[u]

\* Whenever no thread is in the middle of Get or Return, the permits count the
\* connections in the list, and a connection is in the list just when no thread
\* has it: neither a connection nor a permit is ever lost.
Conserved ==
  (\A t \in Threads : pc[t] \notin Inside) =>
    /\ permits = size
    /\ \A c \in Connections :
         InList(c) <=> ~\E t \in Threads : pc[t] = "using" /\ con[t] = c

\* The comment in Return (line 45) says that the connection is in the list when
\* a user returns it twice.  Every user of the pool returns what it got once, so
\* that branch is not taken.
NoTwiceReturn == refused = {}

\* A thread that asks for a connection gets one.
GetReturns == \A t \in Threads : (pc[t] = "wait") ~> (pc[t] = "using")
===============================================================================
