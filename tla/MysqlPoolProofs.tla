--------------------------- MODULE MysqlPoolProofs ---------------------------
(***************************************************************************)
(* What the semaphore of MysqlPool.cc gives, and what it does not. For any *)
(* pool and any number of threads it admits as many threads as the pool    *)
(* has connections, and no race makes the vector longer than its memory.   *)
(* For any pool too, the races that RaceFree names are all that is wrong   *)
(* with it: where there are none, no connection is shared, lost or dropped.*)
(* With one connection there are none; with more there are (see            *)
(* NoTwiceReturn and its violation).                                       *)
(***************************************************************************)
EXTENDS MysqlPool, FiniteSetTheorems, SequenceTheorems, TLAPS

\* A thread between sem_wait and the end of its sem_post.
Busy(t) == pc[t] \notin {"idle", "wait"}
Users == {t \in Threads : Busy(t)}

\* Where a step of a thread leads.
LEMMA ThreadMoves ==
  ASSUME NEW t \in Threads, NEW from, NEW to, TypeOK, Goes(t, from, to)
  PROVE  /\ pc[t] = from /\ pc'[t] = to
         /\ \A u \in Threads : u # t => pc'[u] = pc[u]
         /\ to \in Pcs => pc' \in [Threads -> Pcs]
BY DEF TypeOK, Goes

-------------------------------------------------------------------------------
(* Any pool.                                                               *)

\* A thread past the semaphore has taken a permit, and may have lost it.
Admits ==
  /\ IsFiniteSet(Users) /\ permits \in Nat
  /\ permits + Cardinality(Users) <= PoolSize

\* Never more threads use the database than the pool has connections.
AtMostPoolSize == IsFiniteSet(Users) /\ Cardinality(Users) <= PoolSize

\* The size of the vector, and every size that a thread has read and will write, is
\* within its memory; what is pushed is a connection.
NotPastMemory ==
  /\ size <= Len(storage)
  /\ \A t \in Threads :
       /\ pc[t] \in {"popped", "store", "stored"} => seen[t] <= Len(storage)
       /\ pc[t] = "stored" => seen[t] < Len(storage)
       /\ pc[t] \in {"push", "store"} => con[t] \in Connections

PoolInv == TypeOK /\ Admits /\ NotPastMemory

\* A pool that is not used has all its permits.
LEMMA PoolInit == Init => PoolInv
<1> SUFFICES ASSUME Init PROVE PoolInv
  OBVIOUS
<1>1. PoolSize \in Nat \ {0}
  BY PoolSizeAssumption
<1>2. storage \in Seq(Connections) /\ Len(storage) = PoolSize
  <2>1. storage = [i \in 1 .. PoolSize |-> i]
    BY DEF Init
  <2>2. QED
    BY <1>1, <2>1 DEF Connections
<1>3. TypeOK
  BY <1>1, <1>2 DEF Init, TypeOK, Pcs, Wild
<1>4. Users = {}
  BY DEF Init, Users, Busy
<1>5. Admits
  BY <1>1, <1>4, FS_EmptySet DEF Init, Admits
<1>6. NotPastMemory
  BY <1>1, <1>2 DEF Init, NotPastMemory
<1>7. QED
  BY <1>3, <1>5, <1>6 DEF PoolInv

\* A thread that stays on its side of the semaphore changes nothing for it.
LEMMA AdmitsSame ==
  ASSUME PoolInv, NEW t \in Threads, NEW from, NEW to, Goes(t, from, to),
         from \in {"idle", "wait"} <=> to \in {"idle", "wait"}, permits' = permits
  PROVE  Admits'
<1>1. Users' = Users
  BY ThreadMoves DEF PoolInv, Users, Busy
<1>2. QED
  BY <1>1 DEF PoolInv, Admits

\* A thread that comes out of Return gives back one permit at most.
LEMMA AdmitsLess ==
  ASSUME PoolInv, NEW t \in Threads, NEW from, Goes(t, from, "idle"),
         from \notin {"idle", "wait"}, permits' \in {permits, permits + 1}
  PROVE  Admits' /\ permits' \in 0 .. PoolSize
<1>1. t \in Users /\ Users' = Users \ {t}
  BY ThreadMoves DEF PoolInv, Users, Busy
<1>2. /\ IsFiniteSet(Users) /\ Cardinality(Users) \in Nat /\ permits \in Nat
      /\ permits + Cardinality(Users) <= PoolSize
  BY FS_CardinalityType DEF PoolInv, Admits
<1>3. IsFiniteSet(Users') /\ Cardinality(Users') = Cardinality(Users) - 1
  BY <1>1, <1>2, FS_RemoveElement
<1>4. Cardinality(Users') \in Nat
  BY <1>3, FS_CardinalityType
<1>5. permits' + Cardinality(Users') <= PoolSize /\ permits' \in Nat
  <2>1. PICK n \in Nat : n = Cardinality(Users)
    BY <1>2
  <2>2. PICK p \in Nat : p = permits
    BY <1>2
  <2>3. n - 1 \in Nat /\ p + n <= PoolSize /\ PoolSize \in Nat
    BY <1>2, <1>3, <1>4, <2>1, <2>2, PoolSizeAssumption
  <2>4. permits' \in {p, p + 1} /\ Cardinality(Users') = n - 1
    BY <1>3, <2>1, <2>2
  <2>5. CASE permits' = p
    BY ONLY <2>3, <2>4, <2>5
  <2>6. CASE permits' = p + 1
    BY ONLY <2>3, <2>4, <2>6
  <2>7. QED
    BY <2>4, <2>5, <2>6
<1>6. permits' \in 0 .. PoolSize
  BY <1>4, <1>5, PoolSizeAssumption
<1>7. QED
  BY <1>3, <1>5, <1>6 DEF Admits

\* Get keeps the invariant.
LEMMA PoolGet ==
  ASSUME PoolInv, NEW t \in Threads,
         Get(t) \/ SemWait(t) \/ Back(t) \/ PopRead(t) \/ PopWrite(t)
  PROVE  PoolInv'
<1>1. TypeOK /\ NotPastMemory
  BY DEF PoolInv
<1>2. Len(storage) \in Nat
  BY <1>1 DEF TypeOK
<1>3. CASE Get(t)
  <2>1. TypeOK'
    BY <1>1, <1>3, ThreadMoves DEF Get, vector, TypeOK, Pcs, Inside
  <2>2. Admits'
    BY <1>3, AdmitsSame DEF Get
  <2>3. NotPastMemory'
    BY <1>1, <1>3, ThreadMoves DEF Get, vector, NotPastMemory
  <2>4. QED
    BY <2>1, <2>2, <2>3 DEF PoolInv
<1>4. CASE SemWait(t)
  <2>1. permits \in 0 .. PoolSize /\ permits > 0 /\ permits' = permits - 1
    BY <1>1, <1>4 DEF SemWait, TypeOK
  <2>2. permits' \in 0 .. PoolSize /\ permits' \in Nat
    BY <2>1, PoolSizeAssumption
  <2>3. TypeOK'
    BY <1>1, <1>4, <2>2, ThreadMoves DEF SemWait, vector, TypeOK, Pcs, Inside
  <2>4. Admits'
    <3>1. t \notin Users /\ Users' = Users \cup {t}
      BY <1>1, <1>4, ThreadMoves DEF SemWait, Users, Busy
    <3>2. IsFiniteSet(Users) /\ permits + Cardinality(Users) <= PoolSize
      BY DEF PoolInv, Admits
    <3>3. IsFiniteSet(Users') /\ Cardinality(Users') = Cardinality(Users) + 1
      BY <3>1, <3>2, FS_AddElement
    <3>4. Cardinality(Users) \in Nat
      BY <3>2, FS_CardinalityType
    <3>5. permits' + Cardinality(Users') <= PoolSize
      BY <2>1, <3>2, <3>3, <3>4, PoolSizeAssumption
    <3>6. QED
      BY <2>2, <3>3, <3>5 DEF Admits
  <2>5. NotPastMemory'
    BY <1>1, <1>4, ThreadMoves DEF SemWait, vector, NotPastMemory
  <2>6. QED
    BY <2>3, <2>4, <2>5 DEF PoolInv
<1>5. CASE Back(t)
  <2>1. (IF size > 0 THEN storage[size] ELSE Wild) \in Connections \cup {Wild}
    BY <1>1, <1>2 DEF TypeOK, NotPastMemory
  <2>2. con' \in [Threads -> Connections \cup {Wild}] /\ \A u \in Threads : u # t => con'[u] = con[u]
    BY <1>1, <1>5, <2>1 DEF Back, TypeOK
  <2>3. TypeOK'
    BY <1>1, <1>5, <2>2, ThreadMoves DEF Back, vector, TypeOK, Pcs, Inside
  <2>4. Admits'
    BY <1>5, AdmitsSame DEF Back
  <2>5. NotPastMemory'
    BY <1>1, <1>5, <2>2, ThreadMoves DEF Back, vector, NotPastMemory
  <2>6. QED
    BY <2>3, <2>4, <2>5 DEF PoolInv
<1>6. CASE PopRead(t)
  <2>1. /\ seen' \in [Threads -> Int] /\ seen'[t] = size
        /\ \A u \in Threads : u # t => seen'[u] = seen[u]
    BY <1>1, <1>6 DEF PopRead, TypeOK
  <2>2. TypeOK'
    BY <1>1, <1>6, <2>1, ThreadMoves DEF PopRead, vector, TypeOK, Pcs, Inside
  <2>3. Admits'
    BY <1>6, AdmitsSame DEF PopRead
  <2>4. NotPastMemory'
    BY <1>1, <1>6, <2>1, ThreadMoves DEF PopRead, vector, NotPastMemory
  <2>5. QED
    BY <2>2, <2>3, <2>4 DEF PoolInv
<1>7. CASE PopWrite(t)
  <2>1. seen[t] <= Len(storage) /\ seen[t] \in Int /\ size' = seen[t] - 1
    BY <1>1, <1>7 DEF PopWrite, Goes, NotPastMemory, TypeOK
  <2>2. size' \in Int /\ size' <= Len(storage)
    BY <1>2, <2>1
  <2>3. TypeOK'
    BY <1>1, <1>7, <2>2, ThreadMoves DEF PopWrite, TypeOK, Pcs, Inside
  <2>4. Admits'
    BY <1>7, AdmitsSame DEF PopWrite
  <2>5. NotPastMemory'
    BY <1>1, <1>7, <2>2, ThreadMoves DEF PopWrite, NotPastMemory
  <2>6. QED
    BY <2>3, <2>4, <2>5 DEF PoolInv
<1>8. QED
  BY <1>3, <1>4, <1>5, <1>6, <1>7

\* Return keeps the invariant, with the permit or without.
LEMMA PoolReturn ==
  ASSUME PoolInv, NEW t \in Threads,
         ReturnCheck(t) \/ PushRead(t) \/ PushStore(t) \/ PushWrite(t) \/ Post(t)
  PROVE  PoolInv'
<1>1. TypeOK /\ NotPastMemory
  BY DEF PoolInv
<1>2. Len(storage) \in Nat
  BY <1>1 DEF TypeOK
<1>3. CASE ReturnCheck(t)
  <2>1. PICK to \in {"idle", "push"} : Goes(t, "using", to)
    BY <1>3 DEF ReturnCheck
  <2>2. refused' \subseteq Threads /\ con[t] \in Connections
    BY <1>1, <1>3 DEF ReturnCheck, TypeOK
  <2>3. TypeOK'
    BY <1>1, <1>3, <2>1, <2>2, ThreadMoves DEF ReturnCheck, vector, TypeOK, Pcs, Inside
  <2>4. Admits'
    <3>1. CASE to = "idle"
      BY <1>3, <2>1, <3>1, AdmitsLess DEF ReturnCheck
    <3>2. CASE to = "push"
      BY <1>3, <2>1, <3>2, AdmitsSame DEF ReturnCheck
    <3>3. QED
      BY <3>1, <3>2
  <2>5. NotPastMemory'
    BY <1>1, <1>3, <2>1, <2>2, ThreadMoves DEF ReturnCheck, vector, NotPastMemory
  <2>6. QED
    BY <2>3, <2>4, <2>5 DEF PoolInv
<1>4. CASE PushRead(t)
  <2>1. /\ seen' \in [Threads -> Int] /\ seen'[t] = size
        /\ \A u \in Threads : u # t => seen'[u] = seen[u]
    BY <1>1, <1>4 DEF PushRead, TypeOK
  <2>2. TypeOK'
    BY <1>1, <1>4, <2>1, ThreadMoves DEF PushRead, vector, TypeOK, Pcs, Inside
  <2>3. Admits'
    BY <1>4, AdmitsSame DEF PushRead
  <2>4. NotPastMemory'
    BY <1>1, <1>4, <2>1, ThreadMoves DEF PushRead, vector, Goes, NotPastMemory
  <2>5. QED
    BY <2>2, <2>3, <2>4 DEF PoolInv
<1>5. CASE PushStore(t)
  <2>1. pc[t] = "store" /\ con[t] \in Connections /\ seen[t] \in Int /\ seen[t] <= Len(storage)
    BY <1>1, <1>5 DEF PushStore, Goes, NotPastMemory, TypeOK
  <2>2. /\ storage' \in Seq(Connections) /\ Len(storage') \in Nat
        /\ Len(storage) <= Len(storage') /\ seen[t] < Len(storage')
    <3>1. CASE seen[t] < Len(storage)
      <4>1. storage' = [storage EXCEPT ![seen[t] + 1] = con[t]]
        BY <1>5, <3>1 DEF PushStore
      <4>2. storage \in [1 .. Len(storage) -> Connections]
        BY <1>1, LenProperties DEF TypeOK
      <4>3. storage' \in [1 .. Len(storage) -> Connections]
        BY <2>1, <4>1, <4>2
      <4>4. storage' \in Seq(Connections) /\ Len(storage') = Len(storage)
        BY <1>2, <4>3, IsASeq, LenProperties
      <4>5. QED
        BY <1>2, <3>1, <4>4
    <3>2. CASE ~(seen[t] < Len(storage))
      <4>1. storage' = Append(storage, con[t])
        BY <1>5, <3>2 DEF PushStore
      <4>2. storage' \in Seq(Connections) /\ Len(storage') = Len(storage) + 1
        BY <1>1, <2>1, <4>1 DEF TypeOK
      <4>3. QED
        BY <1>2, <2>1, <4>2
    <3>3. QED
      BY <3>1, <3>2
  <2>3. TypeOK'
    BY <1>1, <1>5, <2>2, ThreadMoves DEF PushStore, TypeOK, Pcs, Inside
  <2>4. Admits'
    BY <1>5, AdmitsSame DEF PushStore
  <2>5. NotPastMemory'
    <3>1. size' <= Len(storage')
      BY <1>1, <1>2, <1>5, <2>2 DEF PushStore, NotPastMemory, TypeOK
    <3>2. ASSUME NEW u \in Threads, u # t
          PROVE  /\ pc'[u] \in {"popped", "store", "stored"} => seen'[u] <= Len(storage')
                 /\ pc'[u] = "stored" => seen'[u] < Len(storage')
                 /\ pc'[u] \in {"push", "store"} => con'[u] \in Connections
      <4>1. pc'[u] = pc[u] /\ seen'[u] = seen[u] /\ con'[u] = con[u] /\ seen[u] \in Int
        BY <1>1, <1>5, <3>2, ThreadMoves DEF PushStore, TypeOK
      <4>2. QED
        BY <1>1, <1>2, <2>2, <4>1 DEF NotPastMemory
    <3>3. pc'[t] = "stored" /\ seen'[t] = seen[t]
      BY <1>1, <1>5, ThreadMoves DEF PushStore
    <3>4. QED
      BY <2>1, <2>2, <3>1, <3>2, <3>3 DEF NotPastMemory
  <2>6. QED
    BY <2>3, <2>4, <2>5 DEF PoolInv
<1>6. CASE PushWrite(t)
  <2>1. seen[t] < Len(storage) /\ seen[t] \in Int /\ size' = seen[t] + 1
    BY <1>1, <1>6 DEF PushWrite, Goes, NotPastMemory, TypeOK
  <2>2. size' \in Int /\ size' <= Len(storage)
    BY <1>2, <2>1
  <2>3. TypeOK'
    BY <1>1, <1>6, <2>2, ThreadMoves DEF PushWrite, TypeOK, Pcs, Inside
  <2>4. Admits'
    BY <1>6, AdmitsSame DEF PushWrite
  <2>5. NotPastMemory'
    BY <1>1, <1>6, <2>2, ThreadMoves DEF PushWrite, NotPastMemory
  <2>6. QED
    BY <2>3, <2>4, <2>5 DEF PoolInv
<1>7. CASE Post(t)
  <2>1. Admits' /\ permits' \in 0 .. PoolSize
    BY <1>7, AdmitsLess DEF Post
  <2>2. TypeOK'
    BY <1>1, <1>7, <2>1, ThreadMoves DEF Post, vector, TypeOK, Pcs, Inside
  <2>3. NotPastMemory'
    BY <1>1, <1>7, ThreadMoves DEF Post, vector, NotPastMemory
  <2>4. QED
    BY <2>1, <2>2, <2>3 DEF PoolInv
<1>8. QED
  BY <1>3, <1>4, <1>5, <1>6, <1>7

\* Every step keeps it.
LEMMA PoolNext == PoolInv /\ [Next]_vars => PoolInv'
<1> SUFFICES ASSUME PoolInv, [Next]_vars PROVE PoolInv'
  OBVIOUS
<1>1. ASSUME NEW t \in Threads, Get(t) \/ Step(t) PROVE PoolInv'
  BY <1>1, PoolGet, PoolReturn DEF Step
<1>2. CASE UNCHANGED vars
  BY <1>2 DEF vars, vector, PoolInv, TypeOK, Admits, Users, Busy, NotPastMemory
<1>3. QED
  BY <1>1, <1>2 DEF Next

\* The vector, the semaphore and the threads keep their types in any pool: the
\* semaphore never counts above the pool's size, and nothing but connections comes
\* into the list, although a race may take its size below 0.
THEOREM PoolTypeCorrect == Spec => []TypeOK
<1>1. PoolInv => TypeOK
  BY DEF PoolInv
<1>2. QED
  BY <1>1, PoolInit, PoolNext, PTL DEF Spec

\* Of any number of threads, at most PoolSize at a time are between the semaphore of
\* Get and the end of Return, whatever has become of the list: the number of the
\* daemon's queries that run at once is bounded by mysql_pool_size.
THEOREM SemaphoreBoundsUsers == Spec => []AtMostPoolSize
<1>1. PoolInv => AtMostPoolSize
  <2> SUFFICES ASSUME PoolInv PROVE AtMostPoolSize
    OBVIOUS
  <2>1. /\ IsFiniteSet(Users) /\ permits \in Nat
        /\ permits + Cardinality(Users) <= PoolSize
    BY DEF PoolInv, Admits
  <2>2. Cardinality(Users) \in Nat
    BY <2>1, FS_CardinalityType
  <2>3. QED
    BY <2>1, <2>2, PoolSizeAssumption DEF AtMostPoolSize
<1>2. QED
  BY <1>1, PoolInit, PoolNext, PTL DEF Spec

\* No race makes the vector longer than the memory that was written: back() never
\* reads past its end.  Below its beginning it may: two Returns that write one size
\* leave a permit without a connection, and the Get that takes it reads Wild.
THEOREM SizeNeverPastMemory == Spec => []NotPastMemory
<1>1. PoolInv => NotPastMemory
  BY DEF PoolInv
<1>2. QED
  BY <1>1, PoolInit, PoolNext, PTL DEF Spec

-------------------------------------------------------------------------------
(* Without races: the inductive invariant, for any pool.                   *)

\* A thread that will take a connection from the list or has just put one there.
Pending(t) == pc[t] \in {"back", "pop", "popped", "post"}
Claims == {t \in Threads : Pending(t)}

\* A thread whose connection is not in the list.
Owns(t) == pc[t] \in {"using", "push", "store", "stored"}

\* The semaphore and the claims on the list count its connections.
Counted == IsFiniteSet(Claims) /\ permits \in Nat /\ size = permits + Cardinality(Claims)

\* No connection is in the list twice.
Distinct == \A i, j \in 1 .. size : storage[i] = storage[j] => i = j

\* What a thread has read of the vector is still so, and what it has got is its own.
Fresh(t) ==
  /\ pc[t] \in {"popped", "store", "stored"} => seen[t] = size
  /\ pc[t] \in {"pop", "popped"} => size > 0 /\ con[t] = storage[size]
  /\ pc[t] = "stored" => storage[size + 1] = con[t]
  /\ Owns(t) => con[t] \in Connections /\ ~InList(con[t])

OneOwner == \A t, u \in Threads : Owns(t) /\ Owns(u) /\ con[t] = con[u] => t = u

NoneLost == \A c \in Connections : InList(c) \/ \E t \in Threads : Owns(t) /\ con[t] = c

List == Distinct /\ (\A t \in Threads : Fresh(t)) /\ OneOwner /\ NoneLost

IInv == PoolInv /\ Counted /\ List /\ NoTwiceReturn

-------------------------------------------------------------------------------
(* Its proof.                                                              *)

\* The constructor fills the list and the semaphore alike.
LEMMA InitInductive == Init => IInv
<1> SUFFICES ASSUME Init PROVE IInv
  OBVIOUS
<1>1. PoolSize \in Nat \ {0}
  BY PoolSizeAssumption
<1>2. Claims = {}
  BY DEF Init, Claims, Pending
<1>3. Counted
  BY <1>1, <1>2, FS_EmptySet DEF Init, Counted
<1>4. size = PoolSize /\ \A i \in 1 .. size : storage[i] = i
  BY <1>1 DEF Init
<1>5. Distinct /\ NoneLost
  BY <1>4 DEF Distinct, NoneLost, InList, Connections
<1>6. OneOwner /\ \A t \in Threads : Fresh(t)
  BY DEF Init, OneOwner, Fresh, Owns
<1>7. QED
  BY <1>3, <1>5, <1>6, PoolInit DEF IInv, List, Init, NoTwiceReturn

\* A step that neither makes nor ends a claim.
LEMMA CountedSame ==
  ASSUME IInv, NEW t \in Threads, NEW from, NEW to, Goes(t, from, to),
         from \in {"back", "pop", "popped", "post"} <=> to \in {"back", "pop", "popped", "post"},
         permits' = permits, size' = size
  PROVE  Counted'
<1>1. Claims' = Claims
  BY ThreadMoves DEF IInv, PoolInv, Claims, Pending
<1>2. QED
  BY <1>1 DEF IInv, Counted

\* A claim is made with a permit or with a connection.
LEMMA CountedMore ==
  ASSUME IInv, NEW t \in Threads, NEW from, NEW to, Goes(t, from, to),
         from \notin {"back", "pop", "popped", "post"}, to \in {"back", "pop", "popped", "post"},
         permits' \in Nat, size' - permits' = size - permits + 1, size' \in Int
  PROVE  Counted'
<1>1. t \notin Claims /\ Claims' = Claims \cup {t}
  BY ThreadMoves DEF IInv, PoolInv, Claims, Pending
<1>2. IsFiniteSet(Claims) /\ Cardinality(Claims) \in Nat
  BY FS_CardinalityType DEF IInv, Counted
<1>3. IsFiniteSet(Claims') /\ Cardinality(Claims') = Cardinality(Claims) + 1
  BY <1>1, <1>2, FS_AddElement
<1>4. permits \in Nat /\ size = permits + Cardinality(Claims)
  BY DEF IInv, Counted
<1>5. PICK n \in Nat : n = Cardinality(Claims)
  BY <1>2
<1>6. size' = permits' + Cardinality(Claims')
  BY <1>3, <1>4, <1>5
<1>7. QED
  BY <1>3, <1>6 DEF Counted

\* A claim ends with a connection or with a permit.
LEMMA CountedLess ==
  ASSUME IInv, NEW t \in Threads, NEW from, NEW to, Goes(t, from, to),
         from \in {"back", "pop", "popped", "post"}, to \notin {"back", "pop", "popped", "post"},
         permits' \in Nat, size' - permits' = size - permits - 1, size' \in Int
  PROVE  Counted'
<1>1. t \in Claims /\ Claims' = Claims \ {t}
  BY ThreadMoves DEF IInv, PoolInv, Claims, Pending
<1>2. IsFiniteSet(Claims) /\ Cardinality(Claims) \in Nat
  BY FS_CardinalityType DEF IInv, Counted
<1>3. IsFiniteSet(Claims') /\ Cardinality(Claims') = Cardinality(Claims) - 1
  BY <1>1, <1>2, FS_RemoveElement
<1>4. permits \in Nat /\ size = permits + Cardinality(Claims)
  BY DEF IInv, Counted
<1>5. PICK n \in Nat : n = Cardinality(Claims)
  BY <1>2
<1>6. size' = permits' + Cardinality(Claims')
  BY <1>3, <1>4, <1>5
<1>7. QED
  BY <1>3, <1>6 DEF Counted

\* The list has as many connections as there are claims, at least.
LEMMA ClaimHasOne ==
  ASSUME IInv, NEW t \in Threads, Pending(t)
  PROVE  size \in Nat /\ size > 0
<1>1. IsFiniteSet(Claims) /\ Cardinality(Claims) \in Nat /\ t \in Claims
  BY FS_CardinalityType DEF IInv, Counted, Claims
<1>2. Cardinality(Claims) # 0
  BY <1>1, FS_EmptySet
<1>3. permits \in Nat /\ size = permits + Cardinality(Claims)
  BY DEF IInv, Counted
<1>4. PICK n \in Nat : n = Cardinality(Claims)
  BY <1>1
<1>5. QED
  BY <1>2, <1>3, <1>4

\* A step that leaves the vector as it is keeps what holds of the list, if it does
\* for the thread that makes it.
LEMMA ListSame ==
  ASSUME TypeOK, List, NEW t \in Threads, NEW from, NEW to, Goes(t, from, to),
         size' = size, storage' = storage, Fresh(t)',
         \A u \in Threads : u # t => con'[u] = con[u] /\ seen'[u] = seen[u],
         Owns(t)' <=> Owns(t), Owns(t) => con'[t] = con[t]
  PROVE  List'
<1>1. \A u \in Threads : u # t => pc'[u] = pc[u]
  BY ThreadMoves
<1>2. \A c \in Connections : InList(c)' <=> InList(c)
  BY DEF InList
<1>3. ASSUME NEW u \in Threads PROVE Fresh(u)'
  <2>1. CASE u # t
    BY <1>1, <1>2, <2>1 DEF List, Fresh, Owns
  <2>2. QED
    BY <2>1
<1>4. \A u \in Threads : (Owns(u)' <=> Owns(u)) /\ (Owns(u) => con'[u] = con[u])
  BY <1>1 DEF Owns
<1>5. OneOwner' /\ NoneLost'
  <2> HIDE DEF Owns
  <2>1. OneOwner'
    BY <1>4 DEF List, OneOwner
  <2>2. NoneLost'
    BY <1>2, <1>4 DEF List, NoneLost
  <2>3. QED
    BY <2>1, <2>2
<1>6. QED
  BY <1>3, <1>5 DEF List, Distinct

\* A thread that changes the vector is the only one that has read it.
LEMMA OnlyReader ==
  ASSUME RaceFree, NEW t \in Threads, pc[t] \in Changing
  PROVE  \A u \in Threads : u # t => pc[u] \notin Changing
BY DEF RaceFree

\* Get keeps the invariant, whatever other threads do with their connections.
LEMMA GetInductive ==
  ASSUME RaceFree, IInv, NEW t \in Threads,
         Get(t) \/ SemWait(t) \/ Back(t) \/ PopRead(t) \/ PopWrite(t)
  PROVE  IInv'
<1>1. TypeOK /\ List /\ Len(storage) \in Nat /\ size \in Int /\ permits \in Nat
  BY DEF IInv, PoolInv, Counted, TypeOK
<1>2. PoolInv'
  BY PoolGet DEF IInv
<1>3. CASE Get(t)
  <2>1. List'
    BY <1>1, <1>3, ThreadMoves, ListSame DEF Get, vector, Fresh, Owns
  <2>2. Counted'
    BY <1>3, CountedSame DEF Get, vector
  <2>3. QED
    BY <1>2, <1>3, <2>1, <2>2 DEF IInv, Get, NoTwiceReturn
<1>4. CASE SemWait(t)
  <2>1. List'
    BY <1>1, <1>4, ThreadMoves, ListSame DEF SemWait, vector, Fresh, Owns
  <2>2. Counted'
    <3>1. permits > 0 /\ permits' = permits - 1 /\ size' = size
      BY <1>4 DEF SemWait, vector
    <3>2. permits' \in Nat /\ size' - permits' = size - permits + 1 /\ size' \in Int
      BY <1>1, <3>1
    <3>3. QED
      BY <1>4, <3>2, CountedMore DEF SemWait
  <2>3. QED
    BY <1>2, <1>4, <2>1, <2>2 DEF IInv, SemWait, NoTwiceReturn
<1>5. CASE Back(t)
  <2>1. size \in Nat /\ size > 0
    BY <1>5, ClaimHasOne DEF Back, Goes, Pending
  <2>2. con'[t] = storage[size] /\ \A u \in Threads : u # t => con'[u] = con[u]
    BY <1>1, <1>5, <2>1 DEF Back, TypeOK
  <2>3. List'
    BY <1>1, <1>5, <2>1, <2>2, ThreadMoves, ListSame DEF Back, vector, Fresh, Owns
  <2>4. Counted'
    BY <1>5, CountedSame DEF Back, vector
  <2>5. QED
    BY <1>2, <1>5, <2>3, <2>4 DEF IInv, Back, NoTwiceReturn
<1>6. CASE PopRead(t)
  <2>1. seen'[t] = size /\ \A u \in Threads : u # t => seen'[u] = seen[u]
    BY <1>1, <1>6 DEF PopRead, TypeOK
  <2>2. Fresh(t)
    BY <1>1 DEF List
  <2>3. List'
    BY <1>1, <1>6, <2>1, <2>2, ThreadMoves, ListSame DEF PopRead, vector, Fresh, Owns
  <2>4. Counted'
    BY <1>6, CountedSame DEF PopRead, vector
  <2>5. QED
    BY <1>2, <1>6, <2>3, <2>4 DEF IInv, PopRead, NoTwiceReturn
<1>7. CASE PopWrite(t)
  <2>1. pc[t] = "popped" /\ pc'[t] = "using" /\ \A u \in Threads : u # t => pc'[u] = pc[u]
    BY <1>1, <1>7, ThreadMoves DEF PopWrite
  <2>2. /\ seen[t] = size /\ size > 0 /\ con[t] = storage[size]
        /\ size' = size - 1 /\ UNCHANGED <<con, seen, storage>>
    BY <1>1, <1>7, <2>1 DEF PopWrite, List, Fresh
  <2>3. con[t] \in Connections /\ InList(con[t])
    <3>1. size \in 1 .. Len(storage)
      BY <1>1, <2>2 DEF IInv, PoolInv, NotPastMemory
    <3>2. QED
      BY <1>1, <2>2, <3>1 DEF TypeOK, InList
  <2>4. \A c : InList(c)' <=> InList(c) /\ c # con[t]
    BY <1>1, <2>2 DEF InList, List, Distinct
  <2>5. \A u \in Threads : u # t => pc[u] \notin Changing
    BY <2>1, OnlyReader DEF Changing
  <2>6. ASSUME NEW u \in Threads PROVE Fresh(u)'
    <3>1. CASE u = t
      BY <2>1, <2>2, <2>3, <2>4, <3>1 DEF Fresh, Owns
    <3>2. CASE u # t
      BY <1>1, <2>1, <2>2, <2>4, <2>5, <3>2 DEF List, Fresh, Owns, Changing
    <3>3. QED
      BY <3>1, <3>2
  <2>7. \A u \in Threads : (Owns(u)' <=> Owns(u) \/ u = t) /\ con'[u] = con[u]
    BY <2>1, <2>2 DEF Owns
  <2>8. \A u \in Threads : Owns(u) => ~InList(con[u])
    BY <1>1 DEF List, Fresh
  <2>9. OneOwner' /\ NoneLost'
    <3> HIDE DEF Owns
    <3>1. OneOwner'
      BY <1>1, <2>3, <2>7, <2>8 DEF List, OneOwner
    <3>2. NoneLost'
      BY <1>1, <2>4, <2>7 DEF List, NoneLost
    <3>3. QED
      BY <3>1, <3>2
  <2>10. Distinct'
    BY <1>1, <2>2 DEF List, Distinct
  <2>11. Counted'
    <3>1. permits' = permits /\ size' \in Int /\ size' - permits' = size - permits - 1
      BY <1>1, <1>7, <2>2 DEF PopWrite
    <3>2. QED
      BY <1>1, <1>7, <3>1, CountedLess DEF PopWrite
  <2>12. QED
    BY <1>2, <1>7, <2>6, <2>9, <2>10, <2>11 DEF IInv, List, PopWrite, NoTwiceReturn
<1>8. QED
  BY <1>3, <1>4, <1>5, <1>6, <1>7

\* Return keeps it too: its search needs no protection, since a connection that is
\* not in the list can be put there by its owner only.
LEMMA ReturnInductive ==
  ASSUME RaceFree, IInv, NEW t \in Threads,
         ReturnCheck(t) \/ PushRead(t) \/ PushStore(t) \/ PushWrite(t) \/ Post(t)
  PROVE  IInv'
<1>1. TypeOK /\ List /\ Len(storage) \in Nat /\ size \in Int /\ permits \in Nat
  BY DEF IInv, PoolInv, Counted, TypeOK
<1>2. PoolInv'
  BY PoolReturn DEF IInv
<1>3. size \in Nat /\ size <= Len(storage)
  <2>1. IsFiniteSet(Claims) /\ Cardinality(Claims) \in Nat
    BY FS_CardinalityType DEF IInv, Counted
  <2>2. size = permits + Cardinality(Claims)
    BY DEF IInv, Counted
  <2>3. PICK n \in Nat : n = Cardinality(Claims)
    BY <2>1
  <2>4. size \in Nat
    BY <1>1, <2>2, <2>3
  <2>5. QED
    BY <2>4 DEF IInv, PoolInv, NotPastMemory
<1>4. CASE ReturnCheck(t)
  <2>1. Fresh(t) /\ pc[t] = "using"
    BY <1>1, <1>4 DEF List, ReturnCheck, Goes
  <2>2. ~InList(con[t])
    BY <2>1 DEF Fresh, Owns
  <2>3. Goes(t, "using", "push") /\ UNCHANGED <<con, seen, permits, size, storage, refused>>
    BY <1>4, <2>2 DEF ReturnCheck, vector
  <2>4. Fresh(t)'
    BY <1>1, <2>1, <2>3, ThreadMoves DEF Fresh, Owns, InList
  <2>5. Owns(t) /\ Owns(t)'
    BY <1>1, <2>1, <2>3, ThreadMoves DEF Owns
  <2>6. List'
    BY <1>1, <2>3, <2>4, <2>5, ListSame
  <2>7. Counted'
    BY <2>3, CountedSame
  <2>8. QED
    BY <1>2, <2>3, <2>6, <2>7 DEF IInv, NoTwiceReturn
<1>5. CASE PushRead(t)
  <2>1. /\ seen'[t] = size /\ \A u \in Threads : u # t => seen'[u] = seen[u]
        /\ UNCHANGED <<con, permits, size, storage, refused>>
    BY <1>1, <1>5 DEF PushRead, vector, TypeOK
  <2>2. Fresh(t) /\ Goes(t, "push", "store")
    BY <1>1, <1>5 DEF List, PushRead
  <2>3. Fresh(t)' /\ Owns(t) /\ Owns(t)'
    BY <1>1, <2>1, <2>2, ThreadMoves DEF Fresh, Owns, InList
  <2>4. List'
    BY <1>1, <2>1, <2>2, <2>3, ListSame
  <2>5. Counted'
    BY <2>1, <2>2, CountedSame
  <2>6. QED
    BY <1>2, <2>1, <2>4, <2>5 DEF IInv, NoTwiceReturn
<1>6. CASE PushStore(t)
  <2>1. /\ pc[t] = "store" /\ pc'[t] = "stored" /\ \A u \in Threads : u # t => pc'[u] = pc[u]
        /\ UNCHANGED <<con, seen, permits, size, refused>>
    BY <1>1, <1>6, ThreadMoves DEF PushStore
  <2>2. seen[t] = size /\ Owns(t) /\ con[t] \in Connections /\ ~InList(con[t])
    BY <1>1, <2>1 DEF List, Fresh, Owns
  <2>3. storage'[size + 1] = con[t] /\ \A i \in 1 .. size : storage'[i] = storage[i]
    <3>1. DOMAIN storage = 1 .. Len(storage) /\ storage \in Seq(Connections)
      BY <1>1, LenProperties DEF TypeOK
    <3>2. CASE size < Len(storage)
      <4>1. storage' = [storage EXCEPT ![size + 1] = con[t]]
        BY <1>6, <2>2, <3>2 DEF PushStore
      <4>2. QED
        BY <1>3, <3>1, <3>2, <4>1
    <3>3. CASE ~(size < Len(storage))
      <4>1. storage' = Append(storage, con[t])
        BY <1>6, <2>2, <3>3 DEF PushStore
      <4>2. size = Len(storage)
        BY <1>1, <1>3, <3>3
      <4>3. /\ Append(storage, con[t])[Len(storage) + 1] = con[t]
            /\ \A i \in 1 .. Len(storage) : Append(storage, con[t])[i] = storage[i]
        BY <2>2, <3>1, AppendProperties
      <4>4. QED
        BY <4>1, <4>2, <4>3
    <3>4. QED
      BY <3>2, <3>3
  <2>4. \A c : InList(c)' <=> InList(c)
    BY <2>1, <2>3 DEF InList
  <2>5. \A u \in Threads : u # t => pc[u] \notin Changing
    BY <2>1, OnlyReader DEF Changing
  <2>6. ASSUME NEW u \in Threads PROVE Fresh(u)'
    <3>1. CASE u = t
      BY <2>1, <2>2, <2>3, <2>4, <3>1 DEF Fresh, Owns
    <3>2. CASE u # t
      BY <1>1, <2>1, <2>4, <2>5, <3>2 DEF List, Fresh, Owns, Changing
    <3>3. QED
      BY <3>1, <3>2
  <2>7. \A u \in Threads : (Owns(u)' <=> Owns(u)) /\ con'[u] = con[u]
    BY <2>1 DEF Owns
  <2>8. OneOwner' /\ NoneLost'
    <3> HIDE DEF Owns
    <3>1. OneOwner'
      BY <1>1, <2>7 DEF List, OneOwner
    <3>2. NoneLost'
      BY <1>1, <2>4, <2>7 DEF List, NoneLost
    <3>3. QED
      BY <3>1, <3>2
  <2>9. Distinct'
    BY <1>1, <2>1, <2>3 DEF List, Distinct
  <2>10. Counted'
    BY <1>6, <2>1, CountedSame DEF PushStore
  <2>11. QED
    BY <1>2, <2>1, <2>6, <2>8, <2>9, <2>10 DEF IInv, List, NoTwiceReturn
<1>7. CASE PushWrite(t)
  <2>1. /\ pc[t] = "stored" /\ pc'[t] = "post" /\ \A u \in Threads : u # t => pc'[u] = pc[u]
        /\ UNCHANGED <<con, seen, permits, storage, refused>>
    BY <1>1, <1>7, ThreadMoves DEF PushWrite
  <2>2. /\ seen[t] = size /\ storage[size + 1] = con[t] /\ Owns(t)
        /\ con[t] \in Connections /\ ~InList(con[t]) /\ size' = size + 1
    BY <1>1, <1>7, <2>1 DEF List, Fresh, Owns, PushWrite
  <2>3. \A c : InList(c)' <=> InList(c) \/ c = con[t]
    BY <1>3, <2>1, <2>2 DEF InList
  <2>4. \A u \in Threads : u # t => pc[u] \notin Changing
    BY <2>1, OnlyReader DEF Changing
  <2>5. \A u \in Threads : u # t /\ Owns(u) => con[u] # con[t]
    BY <1>1, <2>2 DEF List, OneOwner
  <2>6. ASSUME NEW u \in Threads PROVE Fresh(u)'
    <3>1. CASE u = t
      BY <2>1, <3>1 DEF Fresh, Owns
    <3>2. CASE u # t
      BY <1>1, <2>1, <2>3, <2>4, <2>5, <3>2 DEF List, Fresh, Owns, Changing
    <3>3. QED
      BY <3>1, <3>2
  <2>7. \A u \in Threads : (Owns(u)' <=> Owns(u) /\ u # t) /\ con'[u] = con[u]
    BY <2>1 DEF Owns
  <2>8. OneOwner' /\ NoneLost'
    <3> HIDE DEF Owns
    <3>1. OneOwner'
      BY <1>1, <2>7 DEF List, OneOwner
    <3>2. NoneLost'
      BY <1>1, <2>3, <2>7 DEF List, NoneLost
    <3>3. QED
      BY <3>1, <3>2
  <2>9. Distinct'
    <3>1. \A i \in 1 .. size : storage[i] # con[t]
      BY <2>2 DEF InList
    <3>2. \A i \in 1 .. size' : i \in 1 .. size \/ i = size + 1
      BY <1>3, <2>2
    <3>3. QED
      BY <1>1, <2>1, <2>2, <3>1, <3>2 DEF List, Distinct
  <2>10. Counted'
    <3>1. permits' \in Nat /\ size' \in Int /\ size' - permits' = size - permits + 1
      BY <1>1, <2>1, <2>2
    <3>2. QED
      BY <1>7, <3>1, CountedMore DEF PushWrite
  <2>11. QED
    BY <1>2, <2>1, <2>6, <2>8, <2>9, <2>10 DEF IInv, List, NoTwiceReturn
<1>8. CASE Post(t)
  <2>1. Goes(t, "post", "idle") /\ UNCHANGED <<con, seen, size, storage, refused>>
    BY <1>8 DEF Post, vector
  <2>2. Fresh(t)' /\ ~Owns(t) /\ ~Owns(t)'
    BY <1>1, <2>1, ThreadMoves DEF Fresh, Owns
  <2>3. List'
    BY <1>1, <2>1, <2>2, ListSame
  <2>4. Counted'
    <3>1. permits' = permits + 1
      BY <1>8 DEF Post
    <3>2. permits' \in Nat /\ size' \in Int /\ size' - permits' = size - permits - 1
      BY <1>1, <2>1, <3>1
    <3>3. QED
      BY <2>1, <3>2, CountedLess
  <2>5. QED
    BY <1>2, <2>1, <2>3, <2>4 DEF IInv, NoTwiceReturn
<1>9. QED
  BY <1>4, <1>5, <1>6, <1>7, <1>8

\* Every step from a state without a race keeps the invariant.
LEMMA StepInductive == RaceFree /\ IInv /\ [Next]_vars => IInv'
<1> SUFFICES ASSUME RaceFree, IInv, [Next]_vars PROVE IInv'
  OBVIOUS
<1>1. ASSUME NEW t \in Threads, Get(t) \/ Step(t) PROVE IInv'
  BY <1>1, GetInductive, ReturnInductive DEF Step
<1>2. CASE UNCHANGED vars
  <2>1. PoolInv'
    BY <1>2, PoolNext DEF IInv
  <2>2. UNCHANGED <<pc, con, seen, permits, size, storage, refused>>
    BY <1>2 DEF vars, vector
  <2>3. Counted' /\ NoTwiceReturn'
    BY <2>2 DEF IInv, Counted, Claims, Pending, NoTwiceReturn
  <2>4. List'
    BY <2>2 DEF IInv, List, Distinct, Fresh, Owns, InList, OneOwner, NoneLost
  <2>5. QED
    BY <2>1, <2>3, <2>4 DEF IInv
<1>3. QED
  BY <1>1, <1>2 DEF Next

\* The invariant says what the checked properties say.
LEMMA InvariantImplies == RaceFree /\ IInv => Exclusive /\ Conserved /\ NoTwiceReturn
<1> SUFFICES ASSUME RaceFree, IInv PROVE Exclusive /\ Conserved /\ NoTwiceReturn
  OBVIOUS
<1>1. TypeOK /\ List
  BY DEF IInv, PoolInv
<1>2. Exclusive
  <2> SUFFICES ASSUME NEW t \in Threads, NEW u \in Threads, t # u,
                      pc[t] \in Holding, pc[u] \in Holding
               PROVE  con[t] # con[u]
    BY DEF Exclusive
  <2>1. \A v \in Threads : pc[v] \in Holding => Owns(v) \/ pc[v] \in {"pop", "popped"}
    BY DEF Holding, Owns
  <2>2. \A v \in Threads : Owns(v) => ~InList(con[v])
    BY <1>1 DEF List, Fresh
  <2>3. \A v \in Threads : pc[v] \in {"pop", "popped"} => InList(con[v])
    <3>1. size \in Int
      BY <1>1 DEF TypeOK
    <3>2. QED
      BY <1>1, <3>1 DEF List, Fresh, InList
  <2>4. CASE Owns(t) /\ Owns(u)
    BY <1>1, <2>4 DEF List, OneOwner
  <2>5. CASE pc[t] \in {"pop", "popped"} /\ pc[u] \in {"pop", "popped"}
    BY <2>5 DEF RaceFree, Changing
  <2>6. QED
    BY <2>1, <2>2, <2>3, <2>4, <2>5
<1>3. Conserved
  <2> SUFFICES ASSUME \A t \in Threads : pc[t] \notin Inside
               PROVE  /\ permits = size
                      /\ \A c \in Connections :
                           InList(c) <=> ~\E t \in Threads : pc[t] = "using" /\ con[t] = c
    BY DEF Conserved
  <2>1. Claims = {}
    BY DEF Claims, Pending, Inside
  <2>2. permits = size
    BY <2>1, FS_EmptySet DEF IInv, Counted
  <2>3. \A t \in Threads : Owns(t) <=> pc[t] = "using"
    BY DEF Owns, Inside
  <2>4. QED
    BY <1>1, <2>2, <2>3 DEF List, NoneLost, Fresh
<1>4. QED
  BY <1>2, <1>3 DEF IInv

\* The connections of a pool of any size are never used by two threads (Exclusive),
\* as long as no two threads are within back and pop_back or push_back at once:
\* nothing else that Get and Return leave unprotected does harm.
THEOREM RaceFreeIsExclusive == Spec /\ []RaceFree => []Exclusive
<1>1. RaceFree /\ IInv => Exclusive
  BY InvariantImplies
<1>2. QED
  BY <1>1, InitInductive, StepInductive, PTL DEF Spec

\* Nor is one of them, or a permit, ever lost then (Conserved).
THEOREM RaceFreeIsConserved == Spec /\ []RaceFree => []Conserved
<1>1. RaceFree /\ IInv => Conserved
  BY InvariantImplies
<1>2. QED
  BY <1>1, InitInductive, StepInductive, PTL DEF Spec

\* And Return does not drop a connection that was returned once (NoTwiceReturn),
\* although others change the list between its search and its push.
THEOREM RaceFreeNeverTwice == Spec /\ []RaceFree => []NoTwiceReturn
<1>1. RaceFree /\ IInv => NoTwiceReturn
  BY InvariantImplies
<1>2. QED
  BY <1>1, InitInductive, StepInductive, PTL DEF Spec

-------------------------------------------------------------------------------
(* A pool of one connection.                                               *)

\* The semaphore of one connection admits one thread, so that there is no race.
LEMMA OneIsRaceFree == ASSUME PoolSize = 1, PoolInv PROVE RaceFree
<1>1. IsFiniteSet(Users) /\ Cardinality(Users) \in Nat /\ Cardinality(Users) <= 1
  <2>1. /\ IsFiniteSet(Users) /\ permits \in Nat
        /\ permits + Cardinality(Users) <= PoolSize
    BY DEF PoolInv, Admits
  <2>2. Cardinality(Users) \in Nat
    BY <2>1, FS_CardinalityType
  <2>3. QED
    BY <2>1, <2>2
<1>2. \A t, u \in Users : t = u
  <2>1. CASE Cardinality(Users) = 0
    BY <1>1, <2>1, FS_EmptySet
  <2>2. CASE Cardinality(Users) = 1
    BY <1>1, <2>2, FS_Singleton
  <2>3. QED
    BY <1>1, <2>1, <2>2
<1>3. \A t \in Threads : pc[t] \in Changing => t \in Users
  BY DEF Changing, Users, Busy
<1>4. QED
  BY <1>2, <1>3 DEF RaceFree

\* Hence a pool of one connection, the one the run looks at, keeps Exclusive,
\* Conserved and NoTwiceReturn whatever its threads do.
THEOREM OneConnectionIsSafe ==
  ASSUME PoolSize = 1
  PROVE  Spec => [](Exclusive /\ Conserved /\ NoTwiceReturn)
<1>1. PoolInv => RaceFree
  BY OneIsRaceFree
<1>2. RaceFree /\ IInv => Exclusive /\ Conserved /\ NoTwiceReturn
  BY InvariantImplies
<1>3. QED
  BY <1>1, <1>2, PoolInit, PoolNext, InitInductive, StepInductive, PTL DEF Spec
===============================================================================
