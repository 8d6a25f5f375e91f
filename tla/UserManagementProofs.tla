------------------------- MODULE UserManagementProofs -------------------------
(***************************************************************************)
(* Who is logged in, for any number of slots and of Logins under way.      *)
(***************************************************************************)
EXTENDS UserManagement, FiniteSetTheorems, SequenceTheorems, WellFoundedInduction,
        NaturalsInduction, TLAPS

-------------------------------------------------------------------------------
(* The inductive invariant.                                                *)

\* A reply that still matches the uid of a connected client is for the connection
\* the client has now, and the plugins know that client.
CurrentIsLive ==
  \A k \in DOMAIN calls :
    calls[k].current /\ slot[calls[k].player] = "taken" =>
      calls[k].live /\ users[calls[k].player].state # "free"

\* A connected client the plugins do not know yet is not logged in.
UnknownIsLoggedOut ==
  \A p \in Players :
    slot[p] = "taken" /\ users[p].state = "free" => users[p].userId = LoggedOut

\* Between two levels nothing is under way, and the cvar of a client that is still
\* connected holds the login it had, and which was its own.
Down == phase = "down" => calls = <<>> /\ users = [p \in Players |-> Reset]

CvarKeepsLogin ==
  phase # "game" =>
    \A p \in Players : slot[p] = "taken" =>
      /\ loginstate[p] # LoggedOut => ownState[p]
      /\ loginstate[p] # LoggedOut <=> p \in wasIn

IInv ==
  /\ TypeOK /\ OwnLogin /\ ConnectedKnown
  /\ CurrentIsLive /\ UnknownIsLoggedOut /\ Down /\ CvarKeepsLogin

-------------------------------------------------------------------------------
(* What the handlers do to the calls under way.                            *)

LEMMA CallsDomain ==
  ASSUME NEW cs \in Seq(CallType)
  PROVE  /\ Len(cs) \in Nat /\ DOMAIN cs = 1 .. Len(cs)
         /\ \A k \in DOMAIN cs : cs[k] \in CallType
BY LenProperties

LEMMA LoginOfType == ASSUME NEW p \in Players PROVE LoginOf(p) \in CallType
BY DEF LoginOf, CallType

\* A new Login is behind the others.
LEMMA AppendLogin ==
  ASSUME NEW cs \in Seq(CallType), NEW p \in Players
  PROVE  /\ Append(cs, LoginOf(p)) \in Seq(CallType)
         /\ Len(Append(cs, LoginOf(p))) = Len(cs) + 1
         /\ \A k \in DOMAIN Append(cs, LoginOf(p)) :
              \/ k \in DOMAIN cs /\ Append(cs, LoginOf(p))[k] = cs[k]
              \/ Append(cs, LoginOf(p))[k] = LoginOf(p)
<1> DEFINE bs == Append(cs, LoginOf(p))
<1>1. /\ bs \in Seq(CallType) /\ Len(bs) = Len(cs) + 1
      /\ \A k \in 1 .. Len(cs) : bs[k] = cs[k]
      /\ bs[Len(cs) + 1] = LoginOf(p)
  BY LoginOfType, AppendProperties
<1>2. DOMAIN bs = 1 .. Len(cs) + 1 /\ DOMAIN cs = 1 .. Len(cs) /\ Len(cs) \in Nat
  BY <1>1, CallsDomain
<1> HIDE DEF bs
<1>3. \A k \in DOMAIN bs : (k \in DOMAIN cs /\ bs[k] = cs[k]) \/ bs[k] = LoginOf(p)
  BY <1>1, <1>2
<1>4. QED
  BY <1>1, <1>3 DEF bs

\* Outdated and Ended change current and live of the calls of one slot.
LEMMA OutdatedCalls ==
  ASSUME NEW cs \in Seq(CallType), NEW p \in Players
  PROVE  /\ Outdated(cs, p) \in Seq(CallType) /\ Len(Outdated(cs, p)) = Len(cs)
         /\ \A k \in DOMAIN cs :
              Outdated(cs, p)[k] = [cs[k] EXCEPT !.current = @ /\ cs[k].player # p]
<1>1. /\ Len(cs) \in Nat /\ DOMAIN cs = 1 .. Len(cs)
      /\ \A k \in DOMAIN cs : cs[k] \in CallType
  BY CallsDomain
<1>2. \A k \in DOMAIN cs : [cs[k] EXCEPT !.current = @ /\ cs[k].player # p] \in CallType
  BY <1>1 DEF CallType
<1>3. Outdated(cs, p) \in [1 .. Len(cs) -> CallType]
  BY <1>1, <1>2 DEF Outdated
<1>4. Outdated(cs, p) \in Seq(CallType)
  BY <1>1, <1>3, SeqDef
<1>5. Len(Outdated(cs, p)) = Len(cs)
  BY <1>1, <1>3, <1>4, LenProperties
<1>6. QED
  BY <1>4, <1>5 DEF Outdated

LEMMA EndedCalls ==
  ASSUME NEW cs \in Seq(CallType), NEW p \in Players
  PROVE  /\ Ended(cs, p) \in Seq(CallType) /\ Len(Ended(cs, p)) = Len(cs)
         /\ \A k \in DOMAIN cs :
              Ended(cs, p)[k] = [cs[k] EXCEPT !.live = @ /\ cs[k].player # p]
<1>1. /\ Len(cs) \in Nat /\ DOMAIN cs = 1 .. Len(cs)
      /\ \A k \in DOMAIN cs : cs[k] \in CallType
  BY CallsDomain
<1>2. \A k \in DOMAIN cs : [cs[k] EXCEPT !.live = @ /\ cs[k].player # p] \in CallType
  BY <1>1 DEF CallType
<1>3. Ended(cs, p) \in [1 .. Len(cs) -> CallType]
  BY <1>1, <1>2 DEF Ended
<1>4. Ended(cs, p) \in Seq(CallType)
  BY <1>1, <1>3, SeqDef
<1>5. Len(Ended(cs, p)) = Len(cs)
  BY <1>1, <1>3, <1>4, LenProperties
<1>6. QED
  BY <1>4, <1>5 DEF Ended

\* After a connect on p no call of p is both current and not live, and the calls
\* of the others are as they were.
Survives(c, p) ==
  c.current =>
    \/ c.player = p /\ c.live
    \/ c.player # p /\ \E k \in DOMAIN calls : c = calls[k]

\* Nor is any call of p current after a disconnect.
LEMMA DisconnectedCalls ==
  ASSUME NEW cs \in Seq(CallType), NEW p \in Players,
         NEW ds, ds = Ended(Outdated(cs, p), p)
  PROVE  /\ ds \in Seq(CallType) /\ Len(ds) = Len(cs)
         /\ \A k \in DOMAIN ds : ds[k].current =>
              k \in DOMAIN cs /\ cs[k].player # p /\ ds[k] = cs[k]
<1>1. PICK os : os = Outdated(cs, p)
  OBVIOUS
<1>2. /\ os \in Seq(CallType) /\ Len(os) = Len(cs)
      /\ \A k \in DOMAIN cs : os[k] = [cs[k] EXCEPT !.current = @ /\ cs[k].player # p]
  BY <1>1, OutdatedCalls
<1>3. ds = Ended(os, p) /\ os \in Seq(CallType)
  BY <1>1, <1>2
<1>4. /\ ds \in Seq(CallType) /\ Len(ds) = Len(os)
      /\ \A k \in DOMAIN os : ds[k] = [os[k] EXCEPT !.live = @ /\ os[k].player # p]
  BY <1>3, EndedCalls
<1>5. /\ DOMAIN os = DOMAIN cs /\ DOMAIN ds = DOMAIN cs
      /\ \A k \in DOMAIN cs : cs[k] \in CallType
  BY <1>2, <1>4, CallsDomain
<1>6. ASSUME NEW k \in DOMAIN ds, ds[k].current
      PROVE  k \in DOMAIN cs /\ cs[k].player # p /\ ds[k] = cs[k]
  <2>1. k \in DOMAIN cs /\ cs[k] \in CallType
    BY <1>5
  <2>2. /\ os[k] = [cs[k] EXCEPT !.current = @ /\ cs[k].player # p]
        /\ ds[k] = [os[k] EXCEPT !.live = @ /\ os[k].player # p]
    BY <1>2, <1>4, <1>5, <2>1
  <2>3. cs[k].player # p /\ cs[k].current = TRUE
    BY <1>6, <2>1, <2>2 DEF CallType
  <2>4. os[k] = cs[k]
    BY <2>1, <2>2, <2>3 DEF CallType
  <2>5. ds[k] = cs[k]
    <3>1. ds[k] = [cs[k] EXCEPT !.live = @ /\ cs[k].player # p]
      BY <2>2, <2>4
    <3>2. QED
      BY <2>1, <2>3, <3>1 DEF CallType
  <2>6. QED
    BY <2>1, <2>3, <2>5
<1>7. QED
  BY <1>2, <1>4, <1>6

\* One run of the connect handlers.
Connected(cs, p) == Append(Outdated(cs, p), LoginOf(p))

LEMMA ConnectOnce ==
  ASSUME NEW cs \in Seq(CallType), NEW p \in Players, NEW bs, bs = Connected(cs, p)
  PROVE  /\ bs \in Seq(CallType) /\ Len(bs) = Len(cs) + 1
         /\ \A k \in DOMAIN bs : bs[k].current =>
              \/ bs[k].player = p /\ bs[k].live
              \/ bs[k].player # p /\ k \in DOMAIN cs /\ bs[k] = cs[k]
<1>1. PICK os : os = Outdated(cs, p)
  OBVIOUS
<1>2. /\ os \in Seq(CallType) /\ Len(os) = Len(cs)
      /\ \A k \in DOMAIN cs : os[k] = [cs[k] EXCEPT !.current = @ /\ cs[k].player # p]
  BY <1>1, OutdatedCalls
<1>3. DOMAIN os = DOMAIN cs /\ \A k \in DOMAIN cs : cs[k] \in CallType
  BY <1>2, CallsDomain
<1>4. bs = Append(os, LoginOf(p))
  BY <1>1 DEF Connected
<1>5. /\ bs \in Seq(CallType) /\ Len(bs) = Len(os) + 1
      /\ \A k \in DOMAIN bs : (k \in DOMAIN os /\ bs[k] = os[k]) \/ bs[k] = LoginOf(p)
  <2>1. os \in Seq(CallType)
    BY <1>2
  <2>2. QED
    BY <1>4, <2>1, AppendLogin
<1>6. ASSUME NEW k \in DOMAIN bs, bs[k].current
      PROVE  \/ bs[k].player = p /\ bs[k].live
             \/ bs[k].player # p /\ k \in DOMAIN cs /\ bs[k] = cs[k]
  <2>1. CASE bs[k] = LoginOf(p)
    BY <2>1 DEF LoginOf
  <2>2. CASE k \in DOMAIN os /\ bs[k] = os[k]
    <3>1. k \in DOMAIN cs /\ cs[k] \in CallType
          /\ bs[k] = [cs[k] EXCEPT !.current = @ /\ cs[k].player # p]
      BY <1>2, <1>3, <2>2
    <3>2. cs[k].player # p /\ cs[k].current = TRUE
      BY <1>6, <3>1 DEF CallType
    <3>3. bs[k] = cs[k]
      BY <3>1, <3>2 DEF CallType
    <3>4. QED
      BY <3>1, <3>2, <3>3
  <2>3. QED
    BY <1>5, <2>1, <2>2
<1>7. QED
  BY <1>2, <1>5, <1>6

\* Both runs: two more Logins of p, and the user as the plugin left it.
LEMMA ConnectTwice ==
  ASSUME TypeOK, NEW p \in Players, NEW f \in BOOLEAN
  PROVE  /\ VmMainConnect(p, f).calls \in Seq(CallType)
         /\ Len(VmMainConnect(p, f).calls) = Len(calls) + 2
         /\ \A k \in DOMAIN VmMainConnect(p, f).calls :
              Survives(VmMainConnect(p, f).calls[k], p)
         /\ VmMainConnect(p, f).users = [users EXCEPT ![p] = ConnectedUser(p, f)]
<1>1. calls \in Seq(CallType) /\ Len(calls) \in Nat
  BY CallsDomain DEF TypeOK
<1>2. PICK xs : xs = Connected(calls, p)
  OBVIOUS
<1>3. /\ xs \in Seq(CallType) /\ Len(xs) = Len(calls) + 1
      /\ \A k \in DOMAIN xs : xs[k].current =>
           \/ xs[k].player = p /\ xs[k].live
           \/ xs[k].player # p /\ k \in DOMAIN calls /\ xs[k] = calls[k]
  BY <1>1, <1>2, ConnectOnce
<1>4. PICK ys : ys = Connected(xs, p)
  OBVIOUS
<1>5. /\ ys \in Seq(CallType) /\ Len(ys) = Len(xs) + 1
      /\ \A k \in DOMAIN ys : ys[k].current =>
           \/ ys[k].player = p /\ ys[k].live
           \/ ys[k].player # p /\ k \in DOMAIN xs /\ ys[k] = xs[k]
  <2>1. xs \in Seq(CallType)
    BY <1>3
  <2>2. QED
    BY ONLY <1>4, <2>1, p \in Players, ConnectOnce
<1>6. \A k \in DOMAIN ys : Survives(ys[k], p)
  <2> SUFFICES ASSUME NEW k \in DOMAIN ys, ys[k].current,
                      ~(ys[k].player = p /\ ys[k].live)
               PROVE  ys[k].player # p /\ \E i \in DOMAIN calls : ys[k] = calls[i]
    BY DEF Survives
  <2>1. ys[k].player # p /\ k \in DOMAIN xs /\ ys[k] = xs[k]
    BY <1>5
  <2>2. k \in DOMAIN calls /\ xs[k] = calls[k]
    BY <1>3, <2>1
  <2>3. QED
    BY <2>1, <2>2
<1>7. VmMainConnect(p, f).calls = ys
  BY <1>2, <1>4 DEF VmMainConnect, OnClientConnected, Connected
<1> DEFINE us == [users EXCEPT ![p] = ConnectedUser(p, f)]
<1>8. VmMainConnect(p, f).users = [us EXCEPT ![p] = ConnectedUser(p, f)]
  BY DEF VmMainConnect, OnClientConnected
<1>9. [us EXCEPT ![p] = ConnectedUser(p, f)] = us
  BY DEF TypeOK
<1>10. QED
  BY <1>1, <1>3, <1>5, <1>6, <1>7, <1>8, <1>9

\* The user a connect leaves.
LEMMA ConnectedUserType ==
  ASSUME TypeOK, NEW p \in Players, NEW f \in BOOLEAN
  PROVE  ConnectedUser(p, f) \in UserType /\ ConnectedUser(p, f).state # "free"
BY DEF TypeOK, ConnectedUser, UserType

LEMMA ResetType == Reset \in UserType /\ Reset.state = "free" /\ Reset.userId = LoggedOut
BY DEF Reset, UserType

-------------------------------------------------------------------------------
(* The callbacks of a frame.                                               *)

\* The answered calls can be counted.
LEMMA AnsweredCount ==
  ASSUME TypeOK
  PROVE  Cardinality(Answered) \in 0 .. Len(calls)
<1>1. Len(calls) \in Nat /\ DOMAIN calls = 1 .. Len(calls)
  BY CallsDomain DEF TypeOK
<1>2. IsFiniteSet(1 .. Len(calls)) /\ Cardinality(1 .. Len(calls)) = Len(calls)
  <2>1. 1 \in Int /\ Len(calls) \in Int
    BY <1>1
  <2>2. /\ IsFiniteSet(1 .. Len(calls))
        /\ Cardinality(1 .. Len(calls)) = IF 1 > Len(calls) THEN 0 ELSE Len(calls) - 1 + 1
    BY <2>1, FS_Interval
  <2>3. QED
    BY <1>1, <2>2
<1>3. Answered \in SUBSET (1 .. Len(calls))
  BY <1>1 DEF Answered
<1>4. IsFiniteSet(Answered) /\ Cardinality(Answered) <= Len(calls)
  BY <1>2, <1>3, FS_Subset
<1>5. QED
  BY <1>1, <1>4, FS_CardinalityType

\* A finite set of numbers has a largest one: the sets of those above an element
\* are well-founded.
LEMMA LargestExists ==
  ASSUME NEW S \in SUBSET Nat, IsFiniteSet(S), S # {}
  PROVE  \E k \in S : \A i \in S : i <= k
<1> DEFINE Above(k) == {i \in S : i > k}
           T == {Above(k) : k \in S}
<1>1. IsWellFoundedOn(StrictSubsetOrdering(S), FiniteSubsetsOf(S))
  BY FS_StrictSubsetOrderingWellFounded
<1>2. T \subseteq FiniteSubsetsOf(S) /\ T # {}
  <2>1. ASSUME NEW k \in S PROVE Above(k) \in SUBSET S /\ IsFiniteSet(Above(k))
    BY FS_Subset
  <2>2. QED
    BY <2>1 DEF FiniteSubsetsOf
<1>3. PICK x \in T : \A y \in T : <<y, x>> \notin StrictSubsetOrdering(S)
  <2>1. \E x \in T : \A y \in T : ~(<<y, x>> \in StrictSubsetOrdering(S))
    BY <1>1, <1>2, WFMin
  <2>2. QED
    BY <2>1
<1>4. PICK k \in S : x = Above(k)
  BY <1>3
<1>5. ASSUME NEW i \in S, i > k PROVE FALSE
  <2>1. Above(i) \subseteq Above(k) /\ i \in Above(k) /\ i \notin Above(i)
    <3>1. i \in Nat /\ k \in Nat /\ i > k
      BY <1>5
    <3>2. ASSUME NEW j \in S, j > i PROVE j > k
      <4>1. j \in Nat
        OBVIOUS
      <4>2. QED
        BY <3>1, <3>2, <4>1
    <3>3. ~(i > i)
      BY <3>1
    <3> HIDE DEF T
    <3>4. QED
      BY <3>1, <3>2, <3>3
  <2>2. <<Above(i), Above(k)>> \in StrictSubsetOrdering(S)
    <3>1. Above(i) \in SUBSET S /\ Above(k) \in SUBSET S /\ Above(i) # Above(k)
      BY <2>1
    <3> HIDE DEF Above
    <3>2. QED
      BY <2>1, <3>1 DEF StrictSubsetOrdering
  <2>3. Above(i) \in T
    OBVIOUS
  <2>4. QED
    BY <1>3, <1>4, <2>2, <2>3
<1>6. QED
  BY <1>5

\* Of the callbacks that name a slot one is the last.
LEMMA LastNaming ==
  ASSUME TypeOK, NEW p \in Players, Naming(p) # {}
  PROVE  \E k \in Naming(p) : Last(p) = calls[k]
<1>1. Len(calls) \in Nat /\ Naming(p) \subseteq 1 .. Len(calls)
  BY CallsDomain DEF TypeOK, Naming, Answered
<1>2. IsFiniteSet(Naming(p))
  <2>1. 1 \in Int /\ Len(calls) \in Int /\ Naming(p) \in SUBSET (1 .. Len(calls))
    BY <1>1
  <2>2. IsFiniteSet(1 .. Len(calls))
    BY <2>1, FS_Interval
  <2>3. QED
    BY <2>1, <2>2, FS_Subset
<1>3. PICK k \in Naming(p) : \A i \in Naming(p) : i <= k
  BY <1>1, <1>2, LargestExists
<1>4. QED
  BY <1>3 DEF Last

\* What a callback does to its slot: an account to whom the call is for, while the
\* uid is the slot's, or a log-out by a failed call whose reply names the slot.
LEMMA LastCallback ==
  ASSUME TypeOK, NEW p \in Players, Naming(p) # {}
  PROVE  \E k \in Answered :
           /\ Last(p) = calls[k] /\ k \in DOMAIN calls /\ calls[k] \in CallType
           /\ \/ /\ calls[k].status = "failed" /\ calls[k].player = p
                 /\ LoginCallback(Last(p), p) = {LoggedOut}
              \/ /\ calls[k].status # "failed" /\ calls[k].player = p /\ calls[k].current
                 /\ LoginCallback(Last(p), p) = {Account}
<1>1. PICK k \in Naming(p) : Last(p) = calls[k]
  BY LastNaming
<1>2. k \in Answered /\ k \in DOMAIN calls /\ LoginCallback(calls[k], p) # {}
  BY DEF Naming, Answered
<1>3. calls[k] \in CallType
  BY <1>2, CallsDomain DEF TypeOK
<1>4. QED
  BY <1>1, <1>2, <1>3 DEF LoginCallback

\* So each user keeps its id or gets one of the two.
LEMMA FrameUser ==
  ASSUME TypeOK, DoMainThreadWork, NEW p \in Players
  PROVE  /\ users'[p] \in UserType /\ users'[p].state = users[p].state
         /\ own'[p] \in BOOLEAN
         /\ \/ users'[p].userId = users[p].userId /\ own'[p] = own[p]
            \/ /\ users'[p].userId = LoggedOut
               /\ \E k \in Answered : calls[k].status = "failed" /\ calls[k].player = p
            \/ /\ users'[p].userId = Account
               /\ \E k \in DOMAIN calls :
                    calls[k].player = p /\ calls[k].current /\ own'[p] = calls[k].live
<1>1. users[p] \in UserType /\ own[p] \in BOOLEAN
  BY DEF TypeOK
<1>2. CASE Naming(p) = {}
  BY <1>1, <1>2 DEF DoMainThreadWork
<1>3. CASE Naming(p) # {}
  <2>1. PICK k \in Answered :
           /\ Last(p) = calls[k] /\ k \in DOMAIN calls /\ calls[k] \in CallType
           /\ \/ /\ calls[k].status = "failed" /\ calls[k].player = p
                 /\ LoginCallback(Last(p), p) = {LoggedOut}
              \/ /\ calls[k].status # "failed" /\ calls[k].player = p /\ calls[k].current
                 /\ LoginCallback(Last(p), p) = {Account}
    BY <1>3, LastCallback
  <2>2. /\ users'[p] = [users[p] EXCEPT
              !.userId = CHOOSE id \in LoginCallback(Last(p), p) : TRUE]
        /\ own'[p] = calls[k].live
    BY <1>3, <2>1 DEF DoMainThreadWork
  <2>3. CASE /\ calls[k].status = "failed" /\ calls[k].player = p
             /\ LoginCallback(Last(p), p) = {LoggedOut}
    <3>1. users'[p] = [users[p] EXCEPT !.userId = LoggedOut]
      BY <2>2, <2>3
    <3>2. QED
      BY <1>1, <2>1, <2>2, <2>3, <3>1 DEF UserType, CallType
  <2>4. CASE /\ calls[k].status # "failed" /\ calls[k].player = p /\ calls[k].current
             /\ LoginCallback(Last(p), p) = {Account}
    <3>1. users'[p] = [users[p] EXCEPT !.userId = Account] /\ own'[p] = calls[k].live
      BY <2>2, <2>4
    <3>2. QED
      BY <1>1, <2>1, <2>4, <3>1 DEF UserType, CallType
  <2>5. QED
    BY <2>1, <2>3, <2>4
<1>4. QED
  BY <1>2, <1>3

\* How long what is left of a sequence is, and where it was.
LEMMA Rest ==
  ASSUME NEW n \in Nat, NEW c \in 0 .. n, NEW m,
         m = IF c + 1 <= n THEN n - (c + 1) + 1 ELSE 0
  PROVE  m = n - c /\ m <= n /\ \A k \in 1 .. m : (c + 1) + k - 1 \in 1 .. n
<1>1. m = n - c
  BY SMT
<1>2. QED
  BY <1>1

\* And the calls that were answered are gone.
LEMMA FrameCalls ==
  ASSUME TypeOK, DoMainThreadWork
  PROVE  /\ calls' \in Seq(CallType) /\ Len(calls') <= Len(calls)
         /\ \A k \in DOMAIN calls' : \E i \in DOMAIN calls : calls'[k] = calls[i]
<1> DEFINE c == Cardinality(Answered)
           d == SubSeq(calls, c + 1, Len(calls))
<1>1. /\ Len(calls) \in Nat /\ DOMAIN calls = 1 .. Len(calls)
      /\ \A k \in 1 .. Len(calls) : calls[k] \in CallType
  BY CallsDomain DEF TypeOK
<1>2. c \in 0 .. Len(calls)
  BY AnsweredCount
<1> HIDE DEF c
<1>3. /\ d \in Seq(CallType)
      /\ Len(d) = IF c + 1 <= Len(calls) THEN Len(calls) - (c + 1) + 1 ELSE 0
      /\ \A i \in 1 .. Len(calls) - (c + 1) + 1 : d[i] = calls[(c + 1) + i - 1]
  <2>1. c + 1 \in Int /\ Len(calls) \in Int /\ \A i \in c + 1 .. Len(calls) : calls[i] \in CallType
    BY <1>1, <1>2
  <2>2. QED
    BY <2>1, SubSeqProperties
<1>4. DOMAIN d = 1 .. Len(d)
  BY <1>3, LenProperties
<1> HIDE DEF d
<1>5. /\ Len(d) = Len(calls) - c /\ Len(d) <= Len(calls)
      /\ \A k \in 1 .. Len(d) : (c + 1) + k - 1 \in 1 .. Len(calls)
  BY <1>1, <1>2, <1>3, Rest
<1>6. ASSUME NEW k \in DOMAIN d PROVE \E i \in DOMAIN calls : d[k] = calls[i]
  <2>1. k \in 1 .. Len(calls) - (c + 1) + 1
    BY <1>1, <1>2, <1>4, <1>5
  <2>2. d[k] = calls[(c + 1) + k - 1] /\ (c + 1) + k - 1 \in DOMAIN calls
    BY <1>1, <1>3, <1>4, <1>5, <2>1
  <2>3. QED
    BY <2>2
<1>7. calls' = d
  BY DEF DoMainThreadWork, c, d
<1>8. QED
  BY <1>3, <1>5, <1>6, <1>7

-------------------------------------------------------------------------------
(* What the actions do to the calls under way.                             *)

\* c is one of the calls under way, answered or not.
Kept(c) ==
  \E i \in DOMAIN calls :
    calls[i].current /\ calls[i].player = c.player /\ calls[i].live = c.live

LEMMA SurvivesKept ==
  ASSUME NEW c, NEW p, Survives(c, p), c.current
  PROVE  (c.player = p /\ c.live) \/ (c.player # p /\ Kept(c))
BY DEF Survives, Kept

\* GAME_CLIENT_CONNECT, whatever the vm answers.
LEMMA ConnectCalls ==
  ASSUME TypeOK, NEW p \in Players, NEW accepted \in BOOLEAN, ClientConnect(p, accepted)
  PROVE  /\ calls' \in Seq(CallType) /\ Len(calls') = Len(calls) + 2
         /\ \A k \in DOMAIN calls' : calls'[k].current =>
              \/ calls'[k].player = p /\ (accepted => calls'[k].live)
              \/ calls'[k].player # p /\ Kept(calls'[k])
         /\ users' = [users EXCEPT ![p] = ConnectedUser(p, TRUE)]
<1>1. PICK cs : cs = VmMainConnect(p, TRUE).calls
  OBVIOUS
<1>2. /\ cs \in Seq(CallType) /\ Len(cs) = Len(calls) + 2
      /\ \A k \in DOMAIN cs : Survives(cs[k], p)
      /\ VmMainConnect(p, TRUE).users = [users EXCEPT ![p] = ConnectedUser(p, TRUE)]
  BY <1>1, ConnectTwice
<1>3. /\ users' = [users EXCEPT ![p] = ConnectedUser(p, TRUE)]
      /\ calls' = IF accepted THEN cs ELSE Ended(cs, p)
  BY <1>1, <1>2 DEF ClientConnect
<1>4. CASE accepted
  <2>1. calls' = cs
    BY <1>3, <1>4
  <2>2. QED
    BY <1>2, <1>3, <2>1, SurvivesKept
<1>5. CASE ~accepted
  <2>1. PICK es : es = Ended(cs, p)
    OBVIOUS
  <2>2. /\ es \in Seq(CallType) /\ Len(es) = Len(cs)
        /\ \A k \in DOMAIN cs : es[k] = [cs[k] EXCEPT !.live = @ /\ cs[k].player # p]
    BY <1>2, <2>1, EndedCalls
  <2>3. DOMAIN es = DOMAIN cs /\ \A k \in DOMAIN cs : cs[k] \in CallType
    BY <1>2, <2>2, CallsDomain
  <2>4. ASSUME NEW k \in DOMAIN es, es[k].current, es[k].player # p
        PROVE  Kept(es[k])
    <3>1. es[k] = cs[k]
      BY <2>2, <2>3, <2>4 DEF CallType
    <3>2. QED
      BY <1>2, <2>3, <2>4, <3>1, SurvivesKept
  <2>5. calls' = es
    BY <1>3, <1>5, <2>1
  <2>6. QED
    BY <1>2, <1>3, <1>5, <2>2, <2>4, <2>5
<1>6. QED
  BY <1>4, <1>5

\* A connect after a level change.
LEMMA RestoreCalls ==
  ASSUME TypeOK, NEW p \in Players, Restore(p)
  PROVE  /\ calls' \in Seq(CallType) /\ Len(calls') = Len(calls) + 2
         /\ \A k \in DOMAIN calls' : calls'[k].current =>
              \/ calls'[k].player = p /\ calls'[k].live
              \/ calls'[k].player # p /\ Kept(calls'[k])
         /\ users' = [users EXCEPT ![p] = ConnectedUser(p, FALSE)]
<1>1. PICK cs : cs = VmMainConnect(p, FALSE).calls
  OBVIOUS
<1>2. /\ cs \in Seq(CallType) /\ Len(cs) = Len(calls) + 2
      /\ \A k \in DOMAIN cs : Survives(cs[k], p)
      /\ VmMainConnect(p, FALSE).users = [users EXCEPT ![p] = ConnectedUser(p, FALSE)]
  BY <1>1, ConnectTwice
<1>3. users' = [users EXCEPT ![p] = ConnectedUser(p, FALSE)] /\ calls' = cs
  BY <1>1, <1>2 DEF Restore
<1>4. QED
  BY <1>2, <1>3, SurvivesKept

\* A disconnect, of a client in the game or of one that is not restored.
Disconnects(p) == ClientDisconnect(p) \/ RestoreRefused(p)

LEMMA DisconnectCalls ==
  ASSUME TypeOK, NEW p \in Players, Disconnects(p)
  PROVE  /\ calls' \in Seq(CallType) /\ Len(calls') <= MaxPending
         /\ \A k \in DOMAIN calls' :
              calls'[k].current => calls'[k].player # p /\ Kept(calls'[k])
         /\ users' = [users EXCEPT ![p] = Reset]
         /\ slot' = [slot EXCEPT ![p] = "free"]
         /\ loginstate' = [loginstate EXCEPT ![p] = LoggedOut]
         /\ own' = [own EXCEPT ![p] = FALSE] /\ ownState' = [ownState EXCEPT ![p] = FALSE]
         /\ UNCHANGED <<phase, noNewClients, wasIn>>
<1>1. calls \in Seq(CallType) /\ Len(calls) \in Nat /\ Len(calls) <= MaxPending
  BY CallsDomain DEF TypeOK
<1>2. CASE OnClientDisconnected(p, users, calls)
  <2>1. PICK ds : ds = Ended(Outdated(calls, p), p)
    OBVIOUS
  <2>2. /\ ds \in Seq(CallType) /\ Len(ds) = Len(calls)
        /\ \A k \in DOMAIN ds : ds[k].current =>
             k \in DOMAIN calls /\ calls[k].player # p /\ ds[k] = calls[k]
    BY <1>1, <2>1, DisconnectedCalls
  <2>3. calls' = ds /\ users' = [users EXCEPT ![p] = Reset]
    BY <1>2, <2>1 DEF OnClientDisconnected
  <2>4. \A k \in DOMAIN ds : ds[k].current => ds[k].player # p /\ Kept(ds[k])
    BY <2>2 DEF Kept
  <2>5. QED
    BY <1>1, <1>2, <2>2, <2>3, <2>4
    DEF OnClientDisconnected, Disconnects, ClientDisconnect, RestoreRefused
<1>3. CASE /\ RoomFor(2)
           /\ LET s == VmMainConnect(p, FALSE) IN OnClientDisconnected(p, s.users, s.calls)
  <2>1. PICK cs : cs = VmMainConnect(p, FALSE).calls
    OBVIOUS
  <2>2. /\ cs \in Seq(CallType) /\ Len(cs) = Len(calls) + 2
        /\ \A k \in DOMAIN cs : Survives(cs[k], p)
        /\ VmMainConnect(p, FALSE).users = [users EXCEPT ![p] = ConnectedUser(p, FALSE)]
    BY <2>1, ConnectTwice
  <2>3. PICK ds : ds = Ended(Outdated(cs, p), p)
    OBVIOUS
  <2>4. /\ ds \in Seq(CallType) /\ Len(ds) = Len(cs)
        /\ \A k \in DOMAIN ds : ds[k].current =>
             k \in DOMAIN cs /\ cs[k].player # p /\ ds[k] = cs[k]
    BY <2>2, <2>3, DisconnectedCalls
  <2>5. calls' = ds
    BY <1>3, <2>1, <2>3 DEF OnClientDisconnected
  <2>6. users' = [users EXCEPT ![p] = Reset]
    <3>1. users' = [[users EXCEPT ![p] = ConnectedUser(p, FALSE)] EXCEPT ![p] = Reset]
      BY <1>3, <2>2 DEF OnClientDisconnected
    <3>2. QED
      BY <3>1 DEF TypeOK
  <2>7. \A k \in DOMAIN ds : ds[k].current => ds[k].player # p /\ Kept(ds[k])
    <3> SUFFICES ASSUME NEW k \in DOMAIN ds, ds[k].current
                 PROVE  ds[k].player # p /\ Kept(ds[k])
      OBVIOUS
    <3>1. k \in DOMAIN cs /\ cs[k].player # p /\ ds[k] = cs[k] /\ Survives(cs[k], p)
      BY <2>2, <2>4
    <3>2. QED
      BY <3>1, SurvivesKept
  <2>8. Len(ds) <= MaxPending
    BY <1>1, <1>3, <2>2, <2>4 DEF RoomFor
  <2>9. QED
    BY <1>3, <2>4, <2>5, <2>6, <2>7, <2>8
    DEF OnClientDisconnected, Disconnects, ClientDisconnect, RestoreRefused
<1>4. QED
  BY <1>2, <1>3 DEF Disconnects, ClientDisconnect, RestoreRefused

\* A client that changes its user info.
LEMMA UserinfoCalls ==
  ASSUME TypeOK, NEW p \in Players, NEW hasKey \in BOOLEAN, ClientUserinfoChanged(p, hasKey)
  PROVE  /\ calls' \in Seq(CallType) /\ Len(calls') <= MaxPending
         /\ \A k \in DOMAIN calls' : calls'[k].current =>
              (calls'[k].player = p /\ calls'[k].live) \/ Kept(calls'[k])
         /\ \/ users' = users
            \/ ~hasKey /\ users' = [users EXCEPT ![p].userId = LoggedOut]
<1>1. calls \in Seq(CallType) /\ Len(calls) \in Nat /\ Len(calls) <= MaxPending
  BY CallsDomain DEF TypeOK
<1>2. CASE calls' = calls /\ ~hasKey /\ users' = [users EXCEPT ![p].userId = LoggedOut]
  BY <1>1, <1>2 DEF Kept
<1>3. CASE RoomFor(1) /\ calls' = Append(calls, LoginOf(p)) /\ users' = users
  <2>1. PICK cs : cs = Append(calls, LoginOf(p))
    OBVIOUS
  <2>2. /\ cs \in Seq(CallType) /\ Len(cs) = Len(calls) + 1
        /\ \A k \in DOMAIN cs : (k \in DOMAIN calls /\ cs[k] = calls[k]) \/ cs[k] = LoginOf(p)
    BY <1>1, <2>1, AppendLogin
  <2>3. ASSUME NEW k \in DOMAIN cs, cs[k].current
        PROVE  (cs[k].player = p /\ cs[k].live) \/ Kept(cs[k])
    BY <2>2, <2>3 DEF LoginOf, Kept
  <2>4. QED
    BY <1>1, <1>3, <2>1, <2>2, <2>3 DEF RoomFor
<1>4. QED
  BY <1>2, <1>3 DEF ClientUserinfoChanged

\* A call that returns, and the callbacks of a frame.
LEMMA ExecuteCalls ==
  ASSUME TypeOK, Execute
  PROVE  /\ calls' \in Seq(CallType) /\ Len(calls') = Len(calls)
         /\ \A k \in DOMAIN calls' : calls'[k].current => Kept(calls'[k])
<1>1. /\ calls \in Seq(CallType) /\ Len(calls) \in Nat /\ DOMAIN calls = 1 .. Len(calls)
      /\ \A k \in DOMAIN calls : calls[k] \in CallType
  BY CallsDomain DEF TypeOK
<1>2. PICK i \in DOMAIN calls : \E c \in Outcomes(calls[i]) : calls' = [calls EXCEPT ![i] = c]
  BY DEF Execute
<1>3. PICK e \in Outcomes(calls[i]) : calls' = [calls EXCEPT ![i] = e]
  BY <1>2
<1>4. /\ e \in CallType
      /\ e.current => /\ calls[i].current /\ e.player = calls[i].player
                      /\ e.live = calls[i].live
  <2>1. calls[i] \in CallType
    BY <1>1, <1>2
  <2>2. CASE e = [calls[i] EXCEPT !.status = "ok"]
    BY <2>1, <2>2 DEF CallType
  <2>3. CASE \E q \in Players : e = Failed(q)
    BY <2>3 DEF Failed, CallType
  <2>4. QED
    BY <1>3, <2>2, <2>3 DEF Outcomes
<1>5. calls' \in Seq(CallType) /\ Len(calls') = Len(calls)
  BY <1>1, <1>2, <1>3, <1>4, ExceptSeq
<1>6. ASSUME NEW k \in DOMAIN calls', calls'[k].current PROVE Kept(calls'[k])
  <2>1. k \in DOMAIN calls /\ calls'[k] = IF k = i THEN e ELSE calls[k]
    BY <1>1, <1>3
  <2>2. QED
    BY <1>2, <1>4, <1>6, <2>1 DEF Kept
<1>7. QED
  BY <1>5, <1>6

LEMMA FrameKept ==
  ASSUME TypeOK, DoMainThreadWork
  PROVE  \A k \in DOMAIN calls' : calls'[k].current => Kept(calls'[k])
BY FrameCalls DEF Kept

-------------------------------------------------------------------------------
(* Types.                                                                  *)

LEMMA NoCalls == <<>> \in Seq(CallType) /\ Len(<<>>) = 0 /\ DOMAIN <<>> = {}
BY EmptySeq

LEMMA TypeInit == Init => TypeOK
BY ResetType, NoCalls, UserManagementAssumption
DEF Init, TypeOK, NewUser, LoggedOut

LEMMA TypeStep == TypeOK /\ [Next]_vars => TypeOK'
<1> SUFFICES ASSUME TypeOK, [Next]_vars PROVE TypeOK'
  OBVIOUS
<1>1. ASSUME NEW p \in Players, NEW accepted \in BOOLEAN, ClientConnect(p, accepted)
      PROVE  TypeOK'
  <2>1. /\ calls' \in Seq(CallType) /\ Len(calls') = Len(calls) + 2
        /\ users' = [users EXCEPT ![p] = ConnectedUser(p, TRUE)]
    BY <1>1, ConnectCalls
  <2>2. Len(calls') <= MaxPending
    BY <1>1, <2>1 DEF ClientConnect, RoomFor
  <2>3. users' \in [Players -> UserType]
    BY <2>1, ConnectedUserType DEF TypeOK
  <2>4. QED
    BY <1>1, <2>1, <2>2, <2>3 DEF ClientConnect, TypeOK
<1>2. ASSUME NEW p \in Players, ClientBegin(p) PROVE TypeOK'
  BY <1>2 DEF ClientBegin, TypeOK, UserType
<1>3. ASSUME NEW p \in Players, NEW hasKey \in BOOLEAN, ClientUserinfoChanged(p, hasKey)
      PROVE  TypeOK'
  <2>1. /\ calls' \in Seq(CallType) /\ Len(calls') <= MaxPending
        /\ \/ users' = users
           \/ users' = [users EXCEPT ![p].userId = LoggedOut]
    BY <1>3, UserinfoCalls
  <2>2. users' \in [Players -> UserType]
    BY <2>1 DEF TypeOK, UserType
  <2>3. own' \in [Players -> BOOLEAN] /\ keyless' \subseteq Players
    BY <1>3 DEF ClientUserinfoChanged, TypeOK
  <2>4. QED
    BY <1>3, <2>1, <2>2, <2>3 DEF ClientUserinfoChanged, TypeOK
<1>4. ASSUME NEW p \in Players, Disconnects(p) PROVE TypeOK'
  <2>1. failed' = failed /\ keyless' = keyless \ {p}
    BY <1>4 DEF Disconnects, ClientDisconnect, RestoreRefused, OnClientDisconnected
  <2>2. /\ calls' \in Seq(CallType) /\ Len(calls') <= MaxPending
        /\ users' = [users EXCEPT ![p] = Reset]
        /\ slot' = [slot EXCEPT ![p] = "free"]
        /\ loginstate' = [loginstate EXCEPT ![p] = LoggedOut]
        /\ own' = [own EXCEPT ![p] = FALSE] /\ ownState' = [ownState EXCEPT ![p] = FALSE]
        /\ UNCHANGED <<phase, noNewClients, wasIn>>
    BY <1>4, DisconnectCalls
  <2>3. users' \in [Players -> UserType]
    BY <2>2, ResetType DEF TypeOK
  <2>4. QED
    BY <2>1, <2>2, <2>3 DEF TypeOK, LoggedOut
<1>5. ASSUME NEW p \in Players, Restore(p) PROVE TypeOK'
  <2>1. /\ calls' \in Seq(CallType) /\ Len(calls') = Len(calls) + 2
        /\ users' = [users EXCEPT ![p] = ConnectedUser(p, FALSE)]
    BY <1>5, RestoreCalls
  <2>2. Len(calls') <= MaxPending
    BY <1>5, <2>1 DEF Restore, RoomFor
  <2>3. users' \in [Players -> UserType]
    BY <2>1, ConnectedUserType DEF TypeOK
  <2>4. QED
    BY <1>5, <2>1, <2>2, <2>3 DEF Restore, TypeOK
<1>6. CASE Execute
  BY <1>6, ExecuteCalls DEF Execute, TypeOK
<1>7. CASE RunFrame
  <2>1. DoMainThreadWork
    BY <1>7 DEF RunFrame
  <2>2. calls' \in Seq(CallType) /\ Len(calls') <= MaxPending
    <3>1. calls' \in Seq(CallType) /\ Len(calls') <= Len(calls) /\ Len(calls) <= MaxPending
      BY <2>1, FrameCalls DEF TypeOK
    <3>2. Len(calls') \in Nat /\ Len(calls) \in Nat /\ MaxPending \in Nat
      BY <3>1, LenProperties, UserManagementAssumption DEF TypeOK
    <3>3. QED
      BY <3>1, <3>2
  <2>3. users' \in [Players -> UserType] /\ own' \in [Players -> BOOLEAN]
    <3>1. \A p \in Players : users'[p] \in UserType /\ own'[p] \in BOOLEAN
      BY <2>1, FrameUser
    <3>2. users' = [p \in Players |-> users'[p]] /\ own' = [p \in Players |-> own'[p]]
      BY <2>1 DEF DoMainThreadWork
    <3>3. QED
      BY <3>1, <3>2
  <2>4. QED
    BY <1>7, <2>2, <2>3 DEF RunFrame, TypeOK
<1>8. CASE Shutdown
  <2>1. users' \in [Players -> UserType] /\ calls' = <<>>
    BY <1>8, ResetType DEF Shutdown, NewUser
  <2>2. loginstate' \in [Players -> {LoggedOut, Account}]
    BY <1>8 DEF Shutdown, TypeOK, UserType
  <2>3. QED
    BY <1>8, <2>1, <2>2, NoCalls, UserManagementAssumption DEF Shutdown, TypeOK
<1>9. CASE GameInit
  <2>1. users' \in [Players -> UserType]
    BY <1>9, ResetType DEF GameInit, NewUser
  <2>2. QED
    BY <1>9, <2>1 DEF GameInit, TypeOK
<1>10. CASE Restored
  BY <1>10 DEF Restored, TypeOK
<1>11. CASE UNCHANGED vars
  BY <1>11 DEF vars, TypeOK
<1>12. QED
  BY <1>1, <1>2, <1>3, <1>4, <1>5, <1>6, <1>7, <1>8, <1>9, <1>10, <1>11
  DEF Next, Disconnects

\* Every slot keeps a user of its type.
THEOREM TypeCorrect == Spec => []TypeOK
<1>1. Init => TypeOK
  BY TypeInit
<1>2. TypeOK /\ [Next]_vars => TypeOK'
  BY TypeStep
<1>3. QED
  BY <1>1, <1>2, PTL DEF Spec

-------------------------------------------------------------------------------
(* The invariant is inductive.                                             *)

LEMMA InitInductive == Init => IInv
<1> SUFFICES ASSUME Init PROVE IInv
  OBVIOUS
<1>1. TypeOK
  BY TypeInit
<1>2. OwnLogin /\ ConnectedKnown /\ UnknownIsLoggedOut
  BY DEF Init, OwnLogin, ConnectedKnown, UnknownIsLoggedOut
<1>3. CurrentIsLive /\ Down /\ CvarKeepsLogin
  BY NoCalls DEF Init, CurrentIsLive, Down, CvarKeepsLogin
<1>4. QED
  BY <1>1, <1>2, <1>3 DEF IInv

\* A call that is kept is for the connection its slot has.
LEMMA KeptIsLive ==
  ASSUME CurrentIsLive, NEW c, Kept(c), slot[c.player] = "taken"
  PROVE  c.live /\ users[c.player].state # "free"
BY DEF CurrentIsLive, Kept

\* Whose calls are under way.
LEMMA CallsPlayers ==
  ASSUME NEW cs \in Seq(CallType), NEW k \in DOMAIN cs
  PROVE  cs[k].player \in Players /\ cs[k].live \in BOOLEAN
BY CallsDomain DEF CallType

LEMMA ConnectInductive ==
  ASSUME IInv, NEW p \in Players, NEW accepted \in BOOLEAN, ClientConnect(p, accepted)
  PROVE  /\ OwnLogin' /\ ConnectedKnown' /\ CurrentIsLive'
         /\ UnknownIsLoggedOut' /\ Down' /\ CvarKeepsLogin'
<1>1. /\ calls' \in Seq(CallType)
      /\ \A k \in DOMAIN calls' : calls'[k].current =>
           \/ calls'[k].player = p /\ (accepted => calls'[k].live)
           \/ calls'[k].player # p /\ Kept(calls'[k])
      /\ users' = [users EXCEPT ![p] = ConnectedUser(p, TRUE)]
  BY ConnectCalls DEF IInv
<1>2. /\ phase = "game" /\ phase' = "game"
      /\ slot' = [slot EXCEPT ![p] = IF accepted THEN "taken" ELSE "free"]
      /\ own' = [own EXCEPT ![p] = FALSE]
  BY DEF ClientConnect
<1>3. users'[p].state # "free" /\ users'[p].userId = LoggedOut
  BY <1>1, ConnectedUserType DEF IInv, TypeOK, ConnectedUser
<1>4. \A q \in Players \ {p} :
        users'[q] = users[q] /\ slot'[q] = slot[q] /\ own'[q] = own[q]
  BY <1>1, <1>2 DEF IInv, TypeOK
<1>5. OwnLogin'
  BY <1>3, <1>4 DEF IInv, OwnLogin
<1>6. ConnectedKnown'
  BY <1>2, <1>3, <1>4 DEF IInv, ConnectedKnown
<1>7. CurrentIsLive'
  <2> SUFFICES ASSUME NEW k \in DOMAIN calls', calls'[k].current,
                      slot'[calls'[k].player] = "taken"
               PROVE  calls'[k].live /\ users'[calls'[k].player].state # "free"
    BY DEF CurrentIsLive
  <2>1. CASE calls'[k].player = p /\ (accepted => calls'[k].live)
    BY <1>2, <1>3, <2>1 DEF IInv, TypeOK
  <2>2. CASE calls'[k].player # p /\ Kept(calls'[k])
    <3>1. calls'[k].player \in Players \ {p}
      BY <1>1, <2>2, CallsPlayers
    <3>2. slot[calls'[k].player] = "taken"
      BY <1>4, <3>1
    <3>3. calls'[k].live /\ users[calls'[k].player].state # "free"
      BY <2>2, <3>2, KeptIsLive DEF IInv
    <3>4. QED
      BY <1>4, <3>1, <3>3
  <2>3. QED
    BY <1>1, <2>1, <2>2
<1>8. UnknownIsLoggedOut'
  BY <1>3, <1>4 DEF IInv, UnknownIsLoggedOut
<1>9. Down' /\ CvarKeepsLogin'
  BY <1>2 DEF Down, CvarKeepsLogin
<1>10. QED
  BY <1>5, <1>6, <1>7, <1>8, <1>9

LEMMA BeginInductive ==
  ASSUME IInv, NEW p \in Players, ClientBegin(p)
  PROVE  /\ OwnLogin' /\ ConnectedKnown' /\ CurrentIsLive'
         /\ UnknownIsLoggedOut' /\ Down' /\ CvarKeepsLogin'
<1>1. /\ phase = "game" /\ users' = [users EXCEPT ![p].state = "active"]
      /\ UNCHANGED <<phase, slot, calls, own>>
  BY DEF ClientBegin
<1>2. \A q \in Players :
        /\ users'[q].userId = users[q].userId
        /\ users'[q].state = IF q = p THEN "active" ELSE users[q].state
  BY <1>1 DEF IInv, TypeOK, UserType
<1>3. OwnLogin' /\ ConnectedKnown' /\ UnknownIsLoggedOut'
  BY <1>1, <1>2 DEF IInv, OwnLogin, ConnectedKnown, UnknownIsLoggedOut
<1>4. CurrentIsLive'
  BY <1>1, <1>2, CallsPlayers DEF IInv, TypeOK, CurrentIsLive
<1>5. Down' /\ CvarKeepsLogin'
  BY <1>1 DEF Down, CvarKeepsLogin
<1>6. QED
  BY <1>3, <1>4, <1>5

LEMMA UserinfoInductive ==
  ASSUME IInv, NEW p \in Players, NEW hasKey \in BOOLEAN, ClientUserinfoChanged(p, hasKey)
  PROVE  /\ OwnLogin' /\ ConnectedKnown' /\ CurrentIsLive'
         /\ UnknownIsLoggedOut' /\ Down' /\ CvarKeepsLogin'
<1>1. /\ calls' \in Seq(CallType)
      /\ \A k \in DOMAIN calls' : calls'[k].current =>
           (calls'[k].player = p /\ calls'[k].live) \/ Kept(calls'[k])
      /\ \/ users' = users
         \/ users' = [users EXCEPT ![p].userId = LoggedOut]
  BY UserinfoCalls DEF IInv
<1>2. /\ phase = "game" /\ slot[p] = "taken" /\ UNCHANGED <<phase, slot>>
      /\ (users' = users /\ own' = own) \/ own' = [own EXCEPT ![p] = FALSE]
  BY DEF ClientUserinfoChanged
<1>3. \A q \in Players :
        /\ users'[q].state = users[q].state
        /\ \/ users'[q].userId = users[q].userId /\ own'[q] = own[q]
           \/ users'[q].userId = LoggedOut
  BY <1>1, <1>2 DEF IInv, TypeOK, UserType, ClientUserinfoChanged
<1>4. OwnLogin' /\ ConnectedKnown' /\ UnknownIsLoggedOut'
  BY <1>2, <1>3 DEF IInv, OwnLogin, ConnectedKnown, UnknownIsLoggedOut
<1>5. CurrentIsLive'
  <2> SUFFICES ASSUME NEW k \in DOMAIN calls', calls'[k].current,
                      slot'[calls'[k].player] = "taken"
               PROVE  calls'[k].live /\ users'[calls'[k].player].state # "free"
    BY DEF CurrentIsLive
  <2>1. calls'[k].player \in Players /\ slot[calls'[k].player] = "taken"
    BY <1>1, <1>2, CallsPlayers
  <2>2. CASE calls'[k].player = p /\ calls'[k].live
    BY <1>2, <1>3, <2>2 DEF IInv, ConnectedKnown
  <2>3. CASE Kept(calls'[k])
    <3>1. calls'[k].live /\ users[calls'[k].player].state # "free"
      BY <2>1, <2>3, KeptIsLive DEF IInv
    <3>2. QED
      BY <1>3, <2>1, <3>1
  <2>4. QED
    BY <1>1, <2>2, <2>3
<1>6. Down' /\ CvarKeepsLogin'
  BY <1>2 DEF Down, CvarKeepsLogin
<1>7. QED
  BY <1>4, <1>5, <1>6

LEMMA DisconnectInductive ==
  ASSUME IInv, NEW p \in Players, Disconnects(p)
  PROVE  /\ OwnLogin' /\ ConnectedKnown' /\ CurrentIsLive'
         /\ UnknownIsLoggedOut' /\ Down' /\ CvarKeepsLogin'
<1>1. /\ calls' \in Seq(CallType)
      /\ \A k \in DOMAIN calls' :
           calls'[k].current => calls'[k].player # p /\ Kept(calls'[k])
      /\ users' = [users EXCEPT ![p] = Reset]
      /\ slot' = [slot EXCEPT ![p] = "free"]
      /\ loginstate' = [loginstate EXCEPT ![p] = LoggedOut]
      /\ own' = [own EXCEPT ![p] = FALSE] /\ ownState' = [ownState EXCEPT ![p] = FALSE]
      /\ UNCHANGED <<phase, noNewClients, wasIn>>
  BY DisconnectCalls DEF IInv
<1>2. \A q \in Players \ {p} :
        /\ users'[q] = users[q] /\ slot'[q] = slot[q] /\ own'[q] = own[q]
        /\ loginstate'[q] = loginstate[q] /\ ownState'[q] = ownState[q]
  BY <1>1 DEF IInv, TypeOK
<1>3. slot'[p] = "free"
  BY <1>1 DEF IInv, TypeOK
<1>4. OwnLogin' /\ ConnectedKnown' /\ UnknownIsLoggedOut'
  BY <1>1, <1>2, <1>3 DEF IInv, OwnLogin, ConnectedKnown, UnknownIsLoggedOut
<1>5. CurrentIsLive'
  <2> SUFFICES ASSUME NEW k \in DOMAIN calls', calls'[k].current,
                      slot'[calls'[k].player] = "taken"
               PROVE  calls'[k].live /\ users'[calls'[k].player].state # "free"
    BY DEF CurrentIsLive
  <2>1. calls'[k].player \in Players \ {p} /\ Kept(calls'[k])
    BY <1>1, CallsPlayers
  <2>2. slot[calls'[k].player] = "taken"
    BY <1>2, <2>1
  <2>3. calls'[k].live /\ users[calls'[k].player].state # "free"
    BY <2>1, <2>2, KeptIsLive DEF IInv
  <2>4. QED
    BY <1>2, <2>1, <2>3
<1>6. Down'
  BY <1>1 DEF Down, Disconnects, ClientDisconnect, RestoreRefused
<1>7. CvarKeepsLogin'
  BY <1>1, <1>2, <1>3 DEF IInv, CvarKeepsLogin
<1>8. QED
  BY <1>4, <1>5, <1>6, <1>7

\* After a level change the cvar of a slot is what its client was at the end of
\* the level.
LEMMA RestoreInductive ==
  ASSUME IInv, NEW p \in Players, Restore(p)
  PROVE  /\ OwnLogin' /\ ConnectedKnown' /\ CurrentIsLive'
         /\ UnknownIsLoggedOut' /\ Down' /\ CvarKeepsLogin'
<1>1. /\ calls' \in Seq(CallType)
      /\ \A k \in DOMAIN calls' : calls'[k].current =>
           \/ calls'[k].player = p /\ calls'[k].live
           \/ calls'[k].player # p /\ Kept(calls'[k])
      /\ users' = [users EXCEPT ![p] = ConnectedUser(p, FALSE)]
  BY RestoreCalls DEF IInv
<1>2. /\ phase = "restoring" /\ own' = [own EXCEPT ![p] = ownState[p]]
      /\ UNCHANGED <<phase, slot, loginstate, ownState, wasIn>>
  BY DEF Restore
<1>3. /\ users'[p].state # "free" /\ users'[p].userId = loginstate[p]
      /\ own'[p] = ownState[p]
  BY <1>1, <1>2, ConnectedUserType DEF IInv, TypeOK, ConnectedUser
<1>4. \A q \in Players \ {p} : users'[q] = users[q] /\ own'[q] = own[q]
  BY <1>1, <1>2 DEF IInv, TypeOK
<1>5. OwnLogin'
  BY <1>2, <1>3, <1>4 DEF IInv, OwnLogin, CvarKeepsLogin
<1>6. ConnectedKnown' /\ Down'
  BY <1>2 DEF ConnectedKnown, Down
<1>7. CurrentIsLive'
  <2> SUFFICES ASSUME NEW k \in DOMAIN calls', calls'[k].current,
                      slot'[calls'[k].player] = "taken"
               PROVE  calls'[k].live /\ users'[calls'[k].player].state # "free"
    BY DEF CurrentIsLive
  <2>1. CASE calls'[k].player = p /\ calls'[k].live
    BY <1>3, <2>1
  <2>2. CASE calls'[k].player # p /\ Kept(calls'[k])
    <3>1. calls'[k].player \in Players \ {p} /\ slot[calls'[k].player] = "taken"
      BY <1>1, <1>2, <2>2, CallsPlayers
    <3>2. calls'[k].live /\ users[calls'[k].player].state # "free"
      BY <2>2, <3>1, KeptIsLive DEF IInv
    <3>3. QED
      BY <1>4, <3>1, <3>2
  <2>3. QED
    BY <1>1, <2>1, <2>2
<1>8. UnknownIsLoggedOut'
  BY <1>2, <1>3, <1>4 DEF IInv, UnknownIsLoggedOut
<1>9. CvarKeepsLogin'
  BY <1>2 DEF IInv, CvarKeepsLogin
<1>10. QED
  BY <1>5, <1>6, <1>7, <1>8, <1>9

LEMMA ExecuteInductive ==
  ASSUME IInv, Execute
  PROVE  /\ OwnLogin' /\ ConnectedKnown' /\ CurrentIsLive'
         /\ UnknownIsLoggedOut' /\ Down' /\ CvarKeepsLogin'
<1>1. \A k \in DOMAIN calls' : calls'[k].current => Kept(calls'[k])
  BY ExecuteCalls DEF IInv
<1>2. /\ phase # "down"
      /\ UNCHANGED <<phase, slot, users, loginstate, own, ownState, wasIn>>
  BY DEF Execute
<1>3. CurrentIsLive'
  BY <1>1, <1>2, KeptIsLive DEF IInv, CurrentIsLive
<1>4. OwnLogin' /\ ConnectedKnown' /\ UnknownIsLoggedOut'
  BY <1>2 DEF IInv, OwnLogin, ConnectedKnown, UnknownIsLoggedOut
<1>5. Down' /\ CvarKeepsLogin'
  BY <1>2 DEF IInv, Down, CvarKeepsLogin
<1>6. QED
  BY <1>3, <1>4, <1>5

\* A reply logs in the client it is for, and a failed one can only log out.
LEMMA FrameInductive ==
  ASSUME IInv, RunFrame
  PROVE  /\ OwnLogin' /\ ConnectedKnown' /\ CurrentIsLive'
         /\ UnknownIsLoggedOut' /\ Down' /\ CvarKeepsLogin'
<1>1. /\ DoMainThreadWork /\ phase # "down"
      /\ UNCHANGED <<phase, slot, loginstate, ownState, wasIn>>
  BY DEF RunFrame
<1>2. \A k \in DOMAIN calls' : calls'[k].current => Kept(calls'[k])
  BY <1>1, FrameKept DEF IInv
<1>3. calls' \in Seq(CallType)
  BY <1>1, FrameCalls DEF IInv
<1>4. \A p \in Players : users'[p].state = users[p].state
  BY <1>1, FrameUser DEF IInv
<1>5. CurrentIsLive'
  <2> SUFFICES ASSUME NEW k \in DOMAIN calls', calls'[k].current,
                      slot'[calls'[k].player] = "taken"
               PROVE  calls'[k].live /\ users'[calls'[k].player].state # "free"
    BY DEF CurrentIsLive
  <2>1. calls'[k].live /\ users[calls'[k].player].state # "free"
    BY <1>1, <1>2, KeptIsLive DEF IInv
  <2>2. QED
    BY <1>3, <1>4, <2>1, CallsPlayers
<1>6. ASSUME NEW p \in Players, slot'[p] = "taken"
      PROVE  /\ users'[p].userId # LoggedOut => own'[p]
             /\ users'[p].state = "free" => users'[p].userId = LoggedOut
  <2>1. CASE users'[p].userId = users[p].userId /\ own'[p] = own[p]
    BY <1>1, <1>4, <1>6, <2>1 DEF IInv, OwnLogin, UnknownIsLoggedOut
  <2>2. CASE users'[p].userId = LoggedOut
    BY <2>2
  <2>3. CASE \E k \in DOMAIN calls :
               calls[k].player = p /\ calls[k].current /\ own'[p] = calls[k].live
    BY <1>1, <1>4, <1>6, <2>3 DEF IInv, CurrentIsLive
  <2>4. QED
    BY <1>1, <2>1, <2>2, <2>3, FrameUser DEF IInv
<1>7. OwnLogin' /\ UnknownIsLoggedOut'
  BY <1>6 DEF OwnLogin, UnknownIsLoggedOut
<1>8. ConnectedKnown'
  BY <1>1, <1>4 DEF IInv, ConnectedKnown
<1>9. Down' /\ CvarKeepsLogin'
  BY <1>1 DEF IInv, Down, CvarKeepsLogin
<1>10. QED
  BY <1>5, <1>7, <1>8, <1>9

\* The end of the level saves the login of every connected client: the plugins
\* know them all.
LEMMA ShutdownInductive ==
  ASSUME IInv, Shutdown
  PROVE  /\ OwnLogin' /\ ConnectedKnown' /\ CurrentIsLive'
         /\ UnknownIsLoggedOut' /\ Down' /\ CvarKeepsLogin'
<1>1. /\ phase = "game" /\ phase' = "down" /\ slot' = slot /\ calls' = <<>>
      /\ users' = [p \in Players |-> Reset]
      /\ wasIn' = {p \in Players : slot[p] = "taken" /\ users[p].userId # LoggedOut}
  BY DEF Shutdown, NewUser
<1>2. OwnLogin' /\ UnknownIsLoggedOut'
  BY <1>1, ResetType DEF OwnLogin, UnknownIsLoggedOut
<1>3. ConnectedKnown' /\ Down' /\ CurrentIsLive'
  BY <1>1, NoCalls DEF ConnectedKnown, Down, CurrentIsLive
<1>4. \A p \in Players : slot[p] = "taken" =>
        loginstate'[p] = users[p].userId /\ ownState'[p] = own[p]
  BY <1>1 DEF IInv, ConnectedKnown, Shutdown, Saved
<1>5. CvarKeepsLogin'
  BY <1>1, <1>4 DEF IInv, OwnLogin, CvarKeepsLogin
<1>6. QED
  BY <1>2, <1>3, <1>5

LEMMA GameInitInductive ==
  ASSUME IInv, GameInit
  PROVE  /\ OwnLogin' /\ ConnectedKnown' /\ CurrentIsLive'
         /\ UnknownIsLoggedOut' /\ Down' /\ CvarKeepsLogin'
<1>1. /\ phase = "down" /\ phase' = "restoring" /\ calls' = <<>>
      /\ users' = [p \in Players |-> Reset]
      /\ UNCHANGED <<slot, loginstate, ownState, wasIn>>
  BY DEF GameInit, NewUser, IInv, Down
<1>2. OwnLogin' /\ UnknownIsLoggedOut'
  BY <1>1, ResetType DEF OwnLogin, UnknownIsLoggedOut
<1>3. ConnectedKnown' /\ Down' /\ CurrentIsLive'
  BY <1>1, NoCalls DEF ConnectedKnown, Down, CurrentIsLive
<1>4. CvarKeepsLogin'
  BY <1>1 DEF IInv, CvarKeepsLogin
<1>5. QED
  BY <1>2, <1>3, <1>4

LEMMA RestoredInductive ==
  ASSUME IInv, Restored
  PROVE  /\ OwnLogin' /\ ConnectedKnown' /\ CurrentIsLive'
         /\ UnknownIsLoggedOut' /\ Down' /\ CvarKeepsLogin'
<1>1. /\ ToRestore = {} /\ phase' = "game"
      /\ UNCHANGED <<slot, users, calls, own>>
  BY DEF Restored
<1>2. OwnLogin' /\ CurrentIsLive' /\ UnknownIsLoggedOut'
  BY <1>1 DEF IInv, OwnLogin, CurrentIsLive, UnknownIsLoggedOut
<1>3. ConnectedKnown'
  BY <1>1 DEF ConnectedKnown, ToRestore
<1>4. Down' /\ CvarKeepsLogin'
  BY <1>1 DEF Down, CvarKeepsLogin
<1>5. QED
  BY <1>2, <1>3, <1>4

LEMMA StepInductive == IInv /\ [Next]_vars => IInv'
<1> SUFFICES ASSUME IInv, [Next]_vars PROVE IInv'
  OBVIOUS
<1>1. TypeOK'
  BY TypeStep DEF IInv
<1>2. /\ OwnLogin' /\ ConnectedKnown' /\ CurrentIsLive'
      /\ UnknownIsLoggedOut' /\ Down' /\ CvarKeepsLogin'
  <2>1. CASE \E p \in Players, accepted \in BOOLEAN : ClientConnect(p, accepted)
    BY <2>1, ConnectInductive
  <2>2. CASE \E p \in Players : ClientBegin(p)
    BY <2>2, BeginInductive
  <2>3. CASE \E p \in Players, hasKey \in BOOLEAN : ClientUserinfoChanged(p, hasKey)
    BY <2>3, UserinfoInductive
  <2>4. CASE \E p \in Players : Disconnects(p)
    BY <2>4, DisconnectInductive
  <2>5. CASE \E p \in Players : Restore(p)
    BY <2>5, RestoreInductive
  <2>6. CASE Execute
    BY <2>6, ExecuteInductive
  <2>7. CASE RunFrame
    BY <2>7, FrameInductive
  <2>8. CASE Shutdown
    BY <2>8, ShutdownInductive
  <2>9. CASE GameInit
    BY <2>9, GameInitInductive
  <2>10. CASE Restored
    BY <2>10, RestoredInductive
  <2>11. CASE UNCHANGED vars
    BY <2>11
    DEF vars, IInv, OwnLogin, ConnectedKnown, CurrentIsLive, UnknownIsLoggedOut, Down,
        CvarKeepsLogin
  <2>12. QED
    BY <2>1, <2>2, <2>3, <2>4, <2>5, <2>6, <2>7, <2>8, <2>9, <2>10, <2>11
    DEF Next, Disconnects
<1>3. QED
  BY <1>1, <1>2 DEF IInv

LEMMA Invariance == Spec => []IInv
BY InitInductive, StepInductive, PTL DEF Spec

-------------------------------------------------------------------------------
(* Nobody is forgotten.                                                    *)

\* The worker executes the calls in their order, and a failed call matches no uid.
AnsweredFirst ==
  \A i, k \in DOMAIN calls :
    i < k /\ calls[k].status # "sent" => calls[i].status # "sent"

FailedSeen ==
  \A k \in DOMAIN calls :
    calls[k].status = "failed" => failed /\ ~calls[k].current

\* p has a Login under way whose reply will match.
Asks(p) == \E k \in DOMAIN calls : calls[k].player = p /\ calls[k].current

JInv == IInv /\ AnsweredFirst /\ FailedSeen /\ LoggedInOrAsking

\* ds is cs after what a handler does for p: new calls of p at the end, and of the old
\* ones no more current than before, those of the others as they were.
Later(cs, ds, p) ==
  /\ Len(cs) <= Len(ds)
  /\ \A k \in DOMAIN cs :
       /\ ds[k].status = cs[k].status /\ ds[k].player = cs[k].player
       /\ ds[k].current => cs[k].current
       /\ cs[k].player # p => ds[k].current = cs[k].current
  /\ \A k \in DOMAIN ds \ DOMAIN cs : ds[k].status = "sent"

LEMMA LaterTransitive ==
  ASSUME NEW cs \in Seq(CallType), NEW ds \in Seq(CallType), NEW es \in Seq(CallType),
         NEW p, Later(cs, ds, p), Later(ds, es, p)
  PROVE  Later(cs, es, p)
<1>1. /\ DOMAIN cs = 1 .. Len(cs) /\ DOMAIN ds = 1 .. Len(ds) /\ DOMAIN es = 1 .. Len(es)
      /\ Len(cs) \in Nat /\ Len(ds) \in Nat /\ Len(es) \in Nat
  BY LenProperties
<1>2. Len(cs) <= Len(ds) /\ Len(ds) <= Len(es)
  BY DEF Later
<1>3. DOMAIN cs \subseteq DOMAIN ds /\ Len(cs) <= Len(es)
  BY <1>1, <1>2
<1>4. ASSUME NEW k \in DOMAIN cs
      PROVE  /\ es[k].status = cs[k].status /\ es[k].player = cs[k].player
             /\ es[k].current => cs[k].current
             /\ cs[k].player # p => es[k].current = cs[k].current
  BY <1>3 DEF Later
<1>5. ASSUME NEW k \in DOMAIN es \ DOMAIN cs PROVE es[k].status = "sent"
  <2>1. CASE k \in DOMAIN ds
    BY <2>1 DEF Later
  <2>2. CASE k \notin DOMAIN ds
    BY <2>2 DEF Later
  <2>3. QED
    BY <2>1, <2>2
<1>6. QED
  BY <1>3, <1>4, <1>5 DEF Later

LEMMA LaterOutdated ==
  ASSUME NEW cs \in Seq(CallType), NEW p \in Players, NEW ds, ds = Outdated(cs, p)
  PROVE  ds \in Seq(CallType) /\ Later(cs, ds, p)
<1>1. /\ ds \in Seq(CallType) /\ Len(ds) = Len(cs)
      /\ \A k \in DOMAIN cs : ds[k] = [cs[k] EXCEPT !.current = @ /\ cs[k].player # p]
  BY OutdatedCalls
<1>2. DOMAIN ds = DOMAIN cs /\ Len(cs) \in Nat /\ \A k \in DOMAIN cs : cs[k] \in CallType
  BY <1>1, CallsDomain
<1>3. ASSUME NEW k \in DOMAIN cs
      PROVE  /\ ds[k].status = cs[k].status /\ ds[k].player = cs[k].player
             /\ ds[k].current = (cs[k].current /\ cs[k].player # p)
  BY <1>1, <1>2 DEF CallType
<1>4. \A k \in DOMAIN cs : cs[k].current \in BOOLEAN
  BY <1>2 DEF CallType
<1>5. QED
  BY <1>1, <1>2, <1>3, <1>4 DEF Later

LEMMA LaterEnded ==
  ASSUME NEW cs \in Seq(CallType), NEW p \in Players, NEW ds, ds = Ended(cs, p)
  PROVE  ds \in Seq(CallType) /\ Later(cs, ds, p)
<1>1. /\ ds \in Seq(CallType) /\ Len(ds) = Len(cs)
      /\ \A k \in DOMAIN cs : ds[k] = [cs[k] EXCEPT !.live = @ /\ cs[k].player # p]
  BY EndedCalls
<1>2. DOMAIN ds = DOMAIN cs /\ Len(cs) \in Nat /\ \A k \in DOMAIN cs : cs[k] \in CallType
  BY <1>1, CallsDomain
<1>3. ASSUME NEW k \in DOMAIN cs
      PROVE  /\ ds[k].status = cs[k].status /\ ds[k].player = cs[k].player
             /\ ds[k].current = cs[k].current
  BY <1>1, <1>2 DEF CallType
<1>4. QED
  BY <1>1, <1>2, <1>3 DEF Later

LEMMA LaterAppended ==
  ASSUME NEW cs \in Seq(CallType), NEW p \in Players, NEW ds, ds = Append(cs, LoginOf(p))
  PROVE  /\ ds \in Seq(CallType) /\ Later(cs, ds, p)
         /\ \E k \in DOMAIN ds : ds[k].player = p /\ ds[k].current
<1>1. /\ ds \in Seq(CallType) /\ Len(ds) = Len(cs) + 1
      /\ \A k \in 1 .. Len(cs) : ds[k] = cs[k]
      /\ ds[Len(cs) + 1] = LoginOf(p)
  BY LoginOfType, AppendProperties
<1>2. DOMAIN ds = 1 .. Len(cs) + 1 /\ DOMAIN cs = 1 .. Len(cs) /\ Len(cs) \in Nat
  BY <1>1, CallsDomain
<1>3. \A k \in DOMAIN ds \ DOMAIN cs : ds[k] = LoginOf(p)
  BY <1>1, <1>2
<1>4. Len(cs) <= Len(ds) /\ Len(cs) + 1 \in DOMAIN ds
  BY <1>1, <1>2
<1>5. LoginOf(p).status = "sent" /\ LoginOf(p).player = p /\ LoginOf(p).current
  BY DEF LoginOf
<1> HIDE DEF LoginOf
<1>6. QED
  BY <1>1, <1>2, <1>3, <1>4, <1>5 DEF Later

\* The call ClientUserinfoChanged sends is a current one of the slot.
LEMMA LaterSent ==
  ASSUME TypeOK, NEW p \in Players, calls' = Append(calls, LoginOf(p))
  PROVE  /\ calls' \in Seq(CallType) /\ Later(calls, calls', p)
         /\ \E k \in DOMAIN calls' : calls'[k].player = p /\ calls'[k].current
<1>1. PICK os : os = calls
  OBVIOUS
<1>2. PICK es : es = Append(os, LoginOf(p))
  OBVIOUS
<1>3. os \in Seq(CallType)
  BY <1>1 DEF TypeOK
<1>4. /\ es \in Seq(CallType) /\ Later(os, es, p)
      /\ \E k \in DOMAIN es : es[k].player = p /\ es[k].current
  <2>1. es \in Seq(CallType)
    BY <1>2, <1>3, LaterAppended
  <2>2. Later(os, es, p)
    BY <1>2, <1>3, LaterAppended
  <2>3. \E k \in DOMAIN es : es[k].player = p /\ es[k].current
    BY <1>2, <1>3, LaterAppended
  <2>4. QED
    BY <2>1, <2>2, <2>3
<1>5. calls' = es
  BY <1>1, <1>2
<1>6. QED
  BY ONLY <1>1, <1>4, <1>5

LEMMA LaterConnected ==
  ASSUME NEW cs \in Seq(CallType), NEW p \in Players, NEW ds, ds = Connected(cs, p)
  PROVE  /\ ds \in Seq(CallType) /\ Later(cs, ds, p)
         /\ \E k \in DOMAIN ds : ds[k].player = p /\ ds[k].current
<1>1. PICK os : os = Outdated(cs, p)
  OBVIOUS
<1>2. os \in Seq(CallType) /\ Later(cs, os, p)
  BY <1>1, LaterOutdated
<1>3. ds = Append(os, LoginOf(p))
  BY <1>1 DEF Connected
<1>4. /\ ds \in Seq(CallType) /\ Later(os, ds, p)
      /\ \E k \in DOMAIN ds : ds[k].player = p /\ ds[k].current
  <2>1. ds \in Seq(CallType)
    BY <1>2, <1>3, LaterAppended
  <2>2. Later(os, ds, p)
    BY <1>2, <1>3, LaterAppended
  <2>3. \E k \in DOMAIN ds : ds[k].player = p /\ ds[k].current
    BY <1>2, <1>3, LaterAppended
  <2>4. QED
    BY <2>1, <2>2, <2>3
<1>5. QED
  BY <1>2, <1>4, LaterTransitive

LEMMA LaterConnectedTwice ==
  ASSUME TypeOK, NEW p \in Players, NEW f \in BOOLEAN,
         NEW ds, ds = VmMainConnect(p, f).calls
  PROVE  /\ ds \in Seq(CallType) /\ Later(calls, ds, p)
         /\ \E k \in DOMAIN ds : ds[k].player = p /\ ds[k].current
<1>1. PICK cs : cs = Connected(calls, p)
  OBVIOUS
<1>2. calls \in Seq(CallType)
  BY DEF TypeOK
<1>3. cs \in Seq(CallType) /\ Later(calls, cs, p)
  BY <1>1, <1>2, LaterConnected
<1>4. ds = Connected(cs, p)
  BY <1>1 DEF VmMainConnect, OnClientConnected, Connected
<1>5. /\ ds \in Seq(CallType) /\ Later(cs, ds, p)
      /\ \E k \in DOMAIN ds : ds[k].player = p /\ ds[k].current
  BY <1>3, <1>4, LaterConnected
<1>6. QED
  BY <1>2, <1>3, <1>5, LaterTransitive

LEMMA LaterDisconnected ==
  ASSUME NEW cs \in Seq(CallType), NEW p \in Players, NEW ds,
         ds = Ended(Outdated(cs, p), p)
  PROVE  ds \in Seq(CallType) /\ Later(cs, ds, p)
<1>1. PICK os : os = Outdated(cs, p)
  OBVIOUS
<1>2. os \in Seq(CallType) /\ Later(cs, os, p)
  BY <1>1, LaterOutdated
<1>3. ds \in Seq(CallType) /\ Later(os, ds, p)
  BY <1>1, <1>2, LaterEnded
<1>4. QED
  BY <1>2, <1>3, LaterTransitive

\* Such a step keeps the order of the answers and forgets none of the others.
LEMMA LaterStep ==
  ASSUME TypeOK, AnsweredFirst, FailedSeen, NEW p, calls' \in Seq(CallType),
         Later(calls, calls', p), failed' = failed
  PROVE  /\ AnsweredFirst' /\ FailedSeen'
         /\ \A q \in Players \ {p} : Asks(q) => Asks(q)'
<1>1. /\ DOMAIN calls = 1 .. Len(calls) /\ DOMAIN calls' = 1 .. Len(calls')
      /\ Len(calls) \in Nat /\ Len(calls') \in Nat /\ Len(calls) <= Len(calls')
  BY LenProperties DEF TypeOK, Later
<1>2. DOMAIN calls \subseteq DOMAIN calls'
  BY <1>1
<1>3. ASSUME NEW k \in DOMAIN calls', calls'[k].status # "sent"
      PROVE  /\ k \in DOMAIN calls /\ calls[k].status = calls'[k].status
             /\ calls'[k].current => calls[k].current
  BY <1>3 DEF Later
<1>4. AnsweredFirst'
  <2> SUFFICES ASSUME NEW i \in DOMAIN calls', NEW k \in DOMAIN calls', i < k,
                      calls'[k].status # "sent"
               PROVE  calls'[i].status # "sent"
    BY DEF AnsweredFirst
  <2>1. k \in DOMAIN calls /\ calls[k].status # "sent"
    BY <1>3
  <2>2. i \in DOMAIN calls
    BY <1>1, <2>1
  <2>3. calls[i].status # "sent"
    BY <2>1, <2>2 DEF AnsweredFirst
  <2>4. QED
    BY <2>2, <2>3 DEF Later
<1>5. FailedSeen'
  BY <1>3 DEF FailedSeen
<1>6. \A q \in Players \ {p} : Asks(q) => Asks(q)'
  BY <1>2 DEF Asks, Later
<1>7. QED
  BY <1>4, <1>5, <1>6
\* A call that has not been answered is behind all that have.
LEMMA SentIsBehind ==
  ASSUME TypeOK, AnsweredFirst, NEW k \in DOMAIN calls, calls[k].status = "sent"
  PROVE  Cardinality(Answered) < k
<1>1. Len(calls) \in Nat /\ DOMAIN calls = 1 .. Len(calls) /\ k \in Nat /\ k >= 1
  BY CallsDomain DEF TypeOK
<1>2. Answered \in SUBSET (1 .. k - 1)
  <2> SUFFICES ASSUME NEW i \in Answered PROVE i \in 1 .. k - 1
    OBVIOUS
  <2>1. i \in DOMAIN calls /\ calls[i].status # "sent"
    BY DEF Answered
  <2>2. i # k /\ ~(k < i)
    BY <2>1 DEF AnsweredFirst
  <2>3. QED
    BY <1>1, <2>1, <2>2
<1>3. IsFiniteSet(1 .. k - 1) /\ Cardinality(1 .. k - 1) = k - 1
  <2>1. 1 \in Int /\ k - 1 \in Int
    BY <1>1
  <2>2. /\ IsFiniteSet(1 .. k - 1)
        /\ Cardinality(1 .. k - 1) = IF 1 > k - 1 THEN 0 ELSE (k - 1) - 1 + 1
    BY <2>1, FS_Interval
  <2>3. QED
    BY <1>1, <2>2
<1>4. Cardinality(Answered) <= k - 1 /\ IsFiniteSet(Answered)
  BY <1>2, <1>3, FS_Subset
<1>5. Cardinality(Answered) \in Nat
  BY <1>4, FS_CardinalityType
<1>6. QED
  BY <1>1, <1>4, <1>5

\* The calls a frame leaves, each where it was but for those that were answered.
LEMMA FrameShift ==
  ASSUME TypeOK, DoMainThreadWork, NEW c, c = Cardinality(Answered)
  PROVE  /\ c \in Nat /\ DOMAIN calls = 1 .. Len(calls) /\ Len(calls) \in Nat
         /\ DOMAIN calls' = 1 .. Len(calls) - c
         /\ \A j \in DOMAIN calls' : c + j \in DOMAIN calls /\ calls'[j] = calls[c + j]
<1>1. /\ Len(calls) \in Nat /\ DOMAIN calls = 1 .. Len(calls)
      /\ \A k \in 1 .. Len(calls) : calls[k] \in CallType
  BY CallsDomain DEF TypeOK
<1>2. c \in 0 .. Len(calls)
  BY AnsweredCount
<1>3. PICK d : d = SubSeq(calls, c + 1, Len(calls))
  OBVIOUS
<1>4. /\ d \in Seq(CallType)
      /\ Len(d) = IF c + 1 <= Len(calls) THEN Len(calls) - (c + 1) + 1 ELSE 0
      /\ \A i \in 1 .. Len(calls) - (c + 1) + 1 : d[i] = calls[(c + 1) + i - 1]
  <2>1. c + 1 \in Int /\ Len(calls) \in Int /\ \A i \in c + 1 .. Len(calls) : calls[i] \in CallType
    BY <1>1, <1>2
  <2>2. QED
    BY <1>3, <2>1, SubSeqProperties
<1>5. DOMAIN d = 1 .. Len(d) /\ Len(d) = Len(calls) - c
  BY <1>1, <1>2, <1>4, LenProperties
<1>6. ASSUME NEW j \in 1 .. Len(calls) - c
      PROVE  c + j \in 1 .. Len(calls) /\ d[j] = calls[c + j]
  <2>1. j \in 1 .. Len(calls) - (c + 1) + 1 /\ (c + 1) + j - 1 = c + j
    BY <1>1, <1>2
  <2>2. c + j \in 1 .. Len(calls)
    BY <1>1, <1>2
  <2>3. QED
    BY <1>4, <2>1, <2>2
<1>7. calls' = d
  BY <1>3 DEF DoMainThreadWork
<1>8. QED
  BY <1>1, <1>2, <1>5, <1>6, <1>7

\* In a level without failures the callback of a reply that matches logs its client in.
LEMMA FrameLogsIn ==
  ASSUME TypeOK, FailedSeen, ~failed, DoMainThreadWork, NEW p \in Players,
         NEW k \in Answered, calls[k].player = p, calls[k].current
  PROVE  users'[p].userId = Account
<1>1. k \in Naming(p)
  BY DEF Naming, LoginCallback, FailedSeen, Answered
<1>2. PICK i \in Answered :
         /\ Last(p) = calls[i] /\ i \in DOMAIN calls
         /\ calls[i].status = "failed" \/ LoginCallback(Last(p), p) = {Account}
  BY <1>1, LastCallback
<1>3. LoginCallback(Last(p), p) = {Account}
  BY <1>2 DEF FailedSeen
<1>4. users'[p] = [users[p] EXCEPT !.userId = CHOOSE id \in LoginCallback(Last(p), p) : TRUE]
  BY <1>1 DEF DoMainThreadWork
<1>5. users'[p] = [users[p] EXCEPT !.userId = Account] /\ users[p] \in UserType
  BY <1>3, <1>4 DEF TypeOK
<1>6. QED
  BY <1>5 DEF UserType

LEMMA ExecuteForgets ==
  ASSUME JInv, Execute
  PROVE  AnsweredFirst' /\ FailedSeen' /\ LoggedInOrAsking'
<1> DEFINE c == Cardinality(Answered) + 1
<1>1. /\ Len(calls) \in Nat /\ DOMAIN calls = 1 .. Len(calls) /\ calls \in Seq(CallType)
      /\ \A k \in DOMAIN calls : calls[k] \in CallType
  BY CallsDomain DEF JInv, IInv, TypeOK
<1>2. c \in DOMAIN calls
  BY DEF Execute
<1>3. PICK e \in Outcomes(calls[c]) :
         calls' = [calls EXCEPT ![c] = e] /\ failed' = (failed \/ e.status = "failed")
  BY DEF Execute
<1>4. /\ DOMAIN calls' = DOMAIN calls /\ calls'[c] = e
      /\ \A k \in DOMAIN calls : k # c => calls'[k] = calls[k]
  BY <1>1, <1>2, <1>3
<1>5. \/ e.status = "failed" /\ ~e.current
      \/ e.status = "ok" /\ e.player = calls[c].player /\ e.current = calls[c].current
  <2>1. calls[c] \in CallType
    BY <1>1, <1>2
  <2>2. CASE e = [calls[c] EXCEPT !.status = "ok"]
    BY <2>1, <2>2 DEF CallType
  <2>3. CASE \E q \in Players : e = Failed(q)
    BY <2>3 DEF Failed
  <2>4. QED
    BY <1>3, <2>2, <2>3 DEF Outcomes
<1>6. \A i \in DOMAIN calls : i < c => calls[i].status # "sent"
  <2> SUFFICES ASSUME NEW i \in DOMAIN calls, i < c, calls[i].status = "sent" PROVE FALSE
    OBVIOUS
  <2>1. Cardinality(Answered) < i
    BY SentIsBehind DEF JInv, IInv
  <2>2. Cardinality(Answered) \in Nat /\ i \in Nat
    BY <1>1, AnsweredCount DEF JInv, IInv
  <2>3. QED
    BY <2>1, <2>2
<1> HIDE DEF c
<1>7. AnsweredFirst'
  <2> SUFFICES ASSUME NEW i \in DOMAIN calls', NEW k \in DOMAIN calls', i < k,
                      calls'[k].status # "sent"
               PROVE  calls'[i].status # "sent"
    BY DEF AnsweredFirst
  <2>1. CASE i = c
    BY <1>4, <1>5, <2>1
  <2>2. CASE i # c /\ k = c
    BY <1>4, <1>6, <2>2
  <2>3. CASE i # c /\ k # c
    BY <1>4, <2>3 DEF JInv, AnsweredFirst
  <2>4. QED
    BY <2>1, <2>2, <2>3
<1>8. FailedSeen'
  <2> SUFFICES ASSUME NEW k \in DOMAIN calls', calls'[k].status = "failed"
               PROVE  failed' /\ ~calls'[k].current
    BY DEF FailedSeen
  <2>1. CASE k = c
    BY <1>3, <1>4, <1>5, <2>1
  <2>2. CASE k # c
    BY <1>3, <1>4, <2>2 DEF JInv, FailedSeen
  <2>3. QED
    BY <2>1, <2>2
<1>9. LoggedInOrAsking'
  <2>1. UNCHANGED <<slot, users, keyless>>
    BY DEF Execute
  <2>2. CASE e.status = "failed"
    BY <1>3, <2>2 DEF LoggedInOrAsking
  <2>3. CASE e.status # "failed"
    <3>1. \A p \in Players : Asks(p) => Asks(p)'
      BY <1>2, <1>4, <1>5, <2>3 DEF Asks
    <3>2. failed' = failed
      BY <1>3, <2>3 DEF JInv, IInv, TypeOK
    <3>3. QED
      BY <2>1, <3>1, <3>2 DEF JInv, LoggedInOrAsking, Asks
  <2>4. QED
    BY <2>2, <2>3
<1>10. QED
  BY <1>7, <1>8, <1>9

LEMMA FrameForgets ==
  ASSUME JInv, RunFrame
  PROVE  AnsweredFirst' /\ FailedSeen' /\ LoggedInOrAsking'
<1>1. /\ TypeOK /\ DoMainThreadWork
      /\ keyless' = {p \in keyless : users'[p].userId = LoggedOut}
      /\ UNCHANGED <<slot, failed>>
  BY DEF JInv, IInv, RunFrame
<1>2. PICK c : c = Cardinality(Answered)
  OBVIOUS
<1>3. /\ c \in Nat /\ DOMAIN calls = 1 .. Len(calls) /\ Len(calls) \in Nat
      /\ DOMAIN calls' = 1 .. Len(calls) - c
      /\ \A j \in DOMAIN calls' : c + j \in DOMAIN calls /\ calls'[j] = calls[c + j]
  BY <1>1, <1>2, FrameShift
<1>4. AnsweredFirst'
  <2> SUFFICES ASSUME NEW i \in DOMAIN calls', NEW k \in DOMAIN calls', i < k,
                      calls'[k].status # "sent"
               PROVE  calls'[i].status # "sent"
    BY DEF AnsweredFirst
  <2>1. c + i \in DOMAIN calls /\ c + k \in DOMAIN calls /\ c + i < c + k
    BY <1>3
  <2>2. QED
    BY <1>3, <2>1 DEF JInv, AnsweredFirst
<1>5. FailedSeen'
  BY <1>1, <1>3 DEF JInv, FailedSeen
<1>6. LoggedInOrAsking'
  <2> SUFFICES ASSUME NEW p \in Players, slot'[p] = "taken", users'[p].state # "free",
                      users'[p].userId = LoggedOut, p \notin keyless', ~failed'
               PROVE  \E k \in DOMAIN calls' : calls'[k].player = p /\ calls'[k].current
    BY DEF LoggedInOrAsking
  <2>1. p \notin keyless /\ ~failed
    BY <1>1
  <2>2. users'[p].state = users[p].state /\ users[p].userId = LoggedOut
    <3>1. users'[p].userId # Account
      BY DEF LoggedOut, Account
    <3>2. ~\E k \in Answered : calls[k].status = "failed" /\ calls[k].player = p
      BY <2>1 DEF JInv, FailedSeen, Answered
    <3>3. QED
      BY <1>1, <3>1, <3>2, FrameUser
  <2>3. PICK k \in DOMAIN calls : calls[k].player = p /\ calls[k].current
    BY <1>1, <2>1, <2>2 DEF JInv, LoggedInOrAsking
  <2>4. calls[k].status = "sent"
    <3> SUFFICES ASSUME calls[k].status # "sent" PROVE FALSE
      OBVIOUS
    <3>1. k \in Answered
      BY DEF Answered
    <3>2. users'[p].userId = Account
      BY <1>1, <2>1, <2>3, <3>1, FrameLogsIn DEF JInv
    <3>3. QED
      BY <3>2 DEF LoggedOut, Account
  <2>5. c < k
    BY <1>1, <1>2, <2>4, SentIsBehind DEF JInv
  <2>6. k - c \in DOMAIN calls' /\ c + (k - c) = k
    BY <1>3, <2>5
  <2>7. calls'[k - c] = calls[k]
    BY <1>3, <2>6
  <2>8. QED
    BY <2>3, <2>6, <2>7
<1>7. QED
  BY <1>4, <1>5, <1>6

\* What the engine does to one slot forgets no other.
LEMMA OthersAsk ==
  ASSUME JInv, NEW p \in Players, calls' \in Seq(CallType), Later(calls, calls', p),
         failed' = failed, keyless \subseteq keyless' \cup {p},
         \A q \in Players \ {p} : slot'[q] = slot[q] /\ users'[q] = users[q],
         \/ slot'[p] = "free" \/ p \in keyless' \/ users'[p].userId # LoggedOut
         \/ \E k \in DOMAIN calls' : calls'[k].player = p /\ calls'[k].current
  PROVE  AnsweredFirst' /\ FailedSeen' /\ LoggedInOrAsking'
<1>1. /\ AnsweredFirst' /\ FailedSeen'
      /\ \A q \in Players \ {p} : Asks(q) => Asks(q)'
  BY LaterStep DEF JInv, IInv
<1>2. LoggedInOrAsking'
  <2> SUFFICES ASSUME NEW q \in Players, slot'[q] = "taken", users'[q].state # "free",
                      users'[q].userId = LoggedOut, q \notin keyless', ~failed'
               PROVE  \E k \in DOMAIN calls' : calls'[k].player = q /\ calls'[k].current
    BY DEF LoggedInOrAsking
  <2>1. CASE q = p
    BY <2>1
  <2>2. CASE q # p
    <3>1. q \notin keyless /\ ~failed
      BY <2>2
    <3>2. Asks(q)
      BY <2>2, <3>1 DEF JInv, LoggedInOrAsking, Asks
    <3>3. QED
      BY <1>1, <2>2, <3>2 DEF Asks
  <2>3. QED
    BY <2>1, <2>2
<1>3. QED
  BY <1>1, <1>2

LEMMA EngineForgets ==
  ASSUME JInv, NEW p \in Players,
         \/ \E accepted \in BOOLEAN : ClientConnect(p, accepted)
         \/ \E hasKey \in BOOLEAN : ClientUserinfoChanged(p, hasKey)
         \/ Disconnects(p) \/ Restore(p)
  PROVE  AnsweredFirst' /\ FailedSeen' /\ LoggedInOrAsking'
<1> USE DEF JInv, IInv
<1>1. ASSUME NEW accepted \in BOOLEAN, ClientConnect(p, accepted)
      PROVE  AnsweredFirst' /\ FailedSeen' /\ LoggedInOrAsking'
  <2>1. PICK cs : cs = VmMainConnect(p, TRUE).calls
    OBVIOUS
  <2>2. /\ cs \in Seq(CallType) /\ Later(calls, cs, p)
        /\ \E k \in DOMAIN cs : cs[k].player = p /\ cs[k].current
    BY <2>1, LaterConnectedTwice
  <2>3. /\ users' = [users EXCEPT ![p] = ConnectedUser(p, TRUE)]
        /\ slot' = [slot EXCEPT ![p] = IF accepted THEN "taken" ELSE "free"]
        /\ calls' = (IF accepted THEN cs ELSE Ended(cs, p))
        /\ failed' = failed /\ keyless' = keyless
    BY <1>1, <2>1, ConnectCalls DEF ClientConnect
  <2>4. \A q \in Players \ {p} : slot'[q] = slot[q] /\ users'[q] = users[q]
    BY <2>3 DEF TypeOK
  <2>5. CASE accepted
    BY <2>2, <2>3, <2>4, <2>5, OthersAsk
  <2>6. CASE ~accepted
    <3>1. calls' \in Seq(CallType) /\ Later(cs, calls', p)
      BY <2>2, <2>3, <2>6, LaterEnded
    <3>2. Later(calls, calls', p)
      BY <2>2, <3>1, LaterTransitive DEF TypeOK
    <3>3. slot'[p] = "free"
      BY <2>3, <2>6 DEF TypeOK
    <3>4. QED
      BY <2>3, <2>4, <3>1, <3>2, <3>3, OthersAsk
  <2>7. QED
    BY <2>5, <2>6
<1>2. ASSUME NEW hasKey \in BOOLEAN, ClientUserinfoChanged(p, hasKey)
      PROVE  AnsweredFirst' /\ FailedSeen' /\ LoggedInOrAsking'
  <2>1. slot' = slot /\ failed' = failed
    BY <1>2 DEF ClientUserinfoChanged
  <2>2. CASE /\ users' = [users EXCEPT ![p].userId = LoggedOut]
             /\ keyless' = keyless \cup {p} /\ calls' = calls
    <3>1. Later(calls, calls', p) /\ calls' \in Seq(CallType)
      BY <2>2 DEF Later, TypeOK
    <3>2. \A q \in Players \ {p} : users'[q] = users[q]
      BY <2>2 DEF TypeOK
    <3>3. QED
      BY <2>1, <2>2, <3>1, <3>2, OthersAsk
  <2>3. CASE /\ calls' = Append(calls, LoginOf(p)) /\ keyless' = keyless \ {p}
             /\ users' = users
    <3>1. /\ calls' \in Seq(CallType) /\ Later(calls, calls', p)
          /\ \E k \in DOMAIN calls' : calls'[k].player = p /\ calls'[k].current
      BY <2>3, LaterSent
    <3>2. QED
      BY <2>1, <2>3, <3>1, OthersAsk
  <2>4. QED
    BY <1>2, <2>2, <2>3 DEF ClientUserinfoChanged
<1>3. ASSUME Disconnects(p)
      PROVE  AnsweredFirst' /\ FailedSeen' /\ LoggedInOrAsking'
  <2>1. /\ users' = [users EXCEPT ![p] = Reset] /\ slot' = [slot EXCEPT ![p] = "free"]
        /\ failed' = failed /\ keyless' = keyless \ {p}
    BY <1>3, DisconnectCalls
    DEF Disconnects, ClientDisconnect, RestoreRefused, OnClientDisconnected
  <2>2. calls' \in Seq(CallType) /\ Later(calls, calls', p)
    <3>1. CASE OnClientDisconnected(p, users, calls)
      BY <3>1, LaterDisconnected DEF OnClientDisconnected, TypeOK
    <3>2. CASE LET s == VmMainConnect(p, FALSE) IN OnClientDisconnected(p, s.users, s.calls)
      <4>1. PICK cs : cs = VmMainConnect(p, FALSE).calls
        OBVIOUS
      <4>2. cs \in Seq(CallType) /\ Later(calls, cs, p)
        BY <4>1, LaterConnectedTwice
      <4>3. calls' = Ended(Outdated(cs, p), p)
        BY <3>2, <4>1 DEF OnClientDisconnected
      <4>4. calls' \in Seq(CallType) /\ Later(cs, calls', p)
        BY <4>2, <4>3, LaterDisconnected
      <4>5. QED
        BY <4>2, <4>4, LaterTransitive DEF TypeOK
    <3>3. QED
      BY <1>3, <3>1, <3>2 DEF Disconnects, ClientDisconnect, RestoreRefused
  <2>3. /\ slot'[p] = "free"
        /\ \A q \in Players \ {p} : slot'[q] = slot[q] /\ users'[q] = users[q]
    BY <2>1 DEF TypeOK
  <2>4. QED
    BY <2>1, <2>2, <2>3, OthersAsk
<1>4. ASSUME Restore(p)
      PROVE  AnsweredFirst' /\ FailedSeen' /\ LoggedInOrAsking'
  <2>1. PICK cs : cs = VmMainConnect(p, FALSE).calls
    OBVIOUS
  <2>2. /\ cs \in Seq(CallType) /\ Later(calls, cs, p)
        /\ \E k \in DOMAIN cs : cs[k].player = p /\ cs[k].current
    BY <2>1, LaterConnectedTwice
  <2>3. /\ users' = [users EXCEPT ![p] = ConnectedUser(p, FALSE)] /\ calls' = cs
        /\ slot' = slot /\ failed' = failed /\ keyless' = keyless
    BY <1>4, <2>1, RestoreCalls DEF Restore
  <2>4. \A q \in Players \ {p} : users'[q] = users[q]
    BY <2>3 DEF TypeOK
  <2>5. QED
    BY <2>2, <2>3, <2>4, OthersAsk
<1>5. QED
  BY <1>1, <1>2, <1>3, <1>4

LEMMA NobodyForgotten == JInv /\ [Next]_vars => JInv'
<1> SUFFICES ASSUME JInv, [Next]_vars PROVE JInv'
  OBVIOUS
<1>1. IInv'
  BY StepInductive DEF JInv
<1>2. AnsweredFirst' /\ FailedSeen' /\ LoggedInOrAsking'
  <2>1. CASE \E p \in Players :
               \/ \E accepted \in BOOLEAN : ClientConnect(p, accepted)
               \/ \E hasKey \in BOOLEAN : ClientUserinfoChanged(p, hasKey)
               \/ Disconnects(p) \/ Restore(p)
    BY <2>1, EngineForgets
  <2>2. CASE \E p \in Players : ClientBegin(p)
    <3>1. PICK p \in Players : ClientBegin(p)
      BY <2>2
    <3>2. UNCHANGED <<calls, slot, failed, keyless>>
      BY <3>1 DEF ClientBegin
    <3>3. users[p].state # "free"
      BY <3>1 DEF ClientBegin, JInv, IInv, ConnectedKnown
    <3>4. \A q \in Players : /\ users'[q].userId = users[q].userId
                             /\ users'[q].state = "free" <=> users[q].state = "free"
      BY <3>1, <3>3 DEF ClientBegin, JInv, IInv, TypeOK, UserType
    <3>5. QED
      BY <3>2, <3>4 DEF JInv, AnsweredFirst, FailedSeen, LoggedInOrAsking
  <2>3. CASE Execute
    BY <2>3, ExecuteForgets
  <2>4. CASE RunFrame
    BY <2>4, FrameForgets
  <2>5. CASE Shutdown \/ GameInit
    <3>1. calls' = <<>> /\ users' = [p \in Players |-> Reset]
      BY <2>5 DEF Shutdown, GameInit, NewUser, JInv, IInv, Down
    <3>2. QED
      BY <3>1, ResetType, NoCalls DEF AnsweredFirst, FailedSeen, LoggedInOrAsking
  <2>6. CASE Restored \/ UNCHANGED vars
    BY <2>6 DEF Restored, vars, JInv, AnsweredFirst, FailedSeen, LoggedInOrAsking
  <2>7. QED
    BY <2>1, <2>2, <2>3, <2>4, <2>5, <2>6 DEF Next, Disconnects
<1>3. QED
  BY <1>1, <1>2 DEF JInv

-------------------------------------------------------------------------------
(* The theorems.                                                           *)


\* The user id of a connected client was granted to its own connection, however
\* late the replies of the slot's earlier owners come.
THEOREM OwnLoginCorrect == Spec => []OwnLogin
<1>1. IInv => OwnLogin
  BY DEF IInv
<1>2. QED
  BY <1>1, Invariance, PTL

\* During a level the plugins know every connected client.
THEOREM ConnectedKnownCorrect == Spec => []ConnectedKnown
<1>1. IInv => ConnectedKnown
  BY DEF IInv
<1>2. QED
  BY <1>1, Invariance, PTL

\* A login survives the change of the level, and only a login does.
THEOREM LoginKept == Spec => LoginKeptAcrossLevels
<1>1. IInv /\ [Next]_vars =>
        [\A p \in Players :
           Restore(p) => (users'[p].userId # LoggedOut <=> p \in wasIn)]_vars
  <2> SUFFICES ASSUME IInv, NEW p \in Players, Restore(p)
               PROVE  users'[p].userId # LoggedOut <=> p \in wasIn
    OBVIOUS
  <2>1. users' = [users EXCEPT ![p] = ConnectedUser(p, FALSE)]
    BY RestoreCalls DEF IInv
  <2>2. users'[p].userId = loginstate[p]
    BY <2>1 DEF IInv, TypeOK, ConnectedUser
  <2>3. phase # "game" /\ slot[p] = "taken"
    BY DEF Restore, ToRestore
  <2>4. QED
    BY <2>2, <2>3 DEF IInv, CvarKeepsLogin
<1>2. QED
  BY <1>1, Invariance, PTL DEF Spec, LoginKeptAcrossLevels

\* A login is lost only for one of the reasons the code gives.
Reason(p) ==
  \/ slot'[p] = "free"
  \/ ClientUserinfoChanged(p, FALSE)
  \/ phase' = "down"
  \/ RunFrame /\ \E k \in Answered : calls[k].status = "failed" /\ calls[k].player = p

LEMMA LogoutStep ==
  ASSUME IInv, [Next]_vars, NEW p \in Players,
         slot[p] = "taken", users[p].userId # LoggedOut, users'[p].userId = LoggedOut
  PROVE  Reason(p)
<1>1. ASSUME NEW q \in Players, NEW accepted \in BOOLEAN, ClientConnect(q, accepted)
      PROVE  FALSE
  <2>1. p # q
    BY <1>1 DEF ClientConnect
  <2>2. users' = [users EXCEPT ![q] = ConnectedUser(q, TRUE)]
    BY <1>1, ConnectCalls DEF IInv
  <2>3. QED
    BY <2>1, <2>2 DEF IInv, TypeOK
<1>2. ASSUME NEW q \in Players, ClientBegin(q) PROVE FALSE
  BY <1>2 DEF ClientBegin, IInv, TypeOK, UserType
<1>3. ASSUME NEW q \in Players, NEW hasKey \in BOOLEAN, ClientUserinfoChanged(q, hasKey)
      PROVE  Reason(p)
  <2>1. \/ users' = users
        \/ ~hasKey /\ users' = [users EXCEPT ![q].userId = LoggedOut]
    BY <1>3, UserinfoCalls DEF IInv
  <2>2. p = q /\ hasKey = FALSE
    BY <2>1 DEF IInv, TypeOK, UserType
  <2>3. QED
    BY <1>3, <2>2 DEF Reason
<1>4. ASSUME NEW q \in Players, Disconnects(q) PROVE slot'[p] = "free"
  <2>1. users' = [users EXCEPT ![q] = Reset] /\ slot' = [slot EXCEPT ![q] = "free"]
    BY <1>4, DisconnectCalls DEF IInv
  <2>2. p = q
    BY <2>1 DEF IInv, TypeOK
  <2>3. QED
    BY <2>1, <2>2 DEF IInv, TypeOK
<1>5. ASSUME NEW q \in Players, Restore(q) PROVE FALSE
  <2>1. users' = [users EXCEPT ![q] = ConnectedUser(q, FALSE)]
    BY <1>5, RestoreCalls DEF IInv
  <2>2. p = q /\ users[p].state = "free"
    BY <1>5, <2>1 DEF IInv, TypeOK, Restore, ToRestore
  <2>3. QED
    BY <2>2 DEF IInv, UnknownIsLoggedOut
<1>6. CASE RunFrame
  <2>1. DoMainThreadWork
    BY <1>6 DEF RunFrame
  <2>2. CASE \E k \in Answered : calls[k].status = "failed" /\ calls[k].player = p
    BY <1>6, <2>2 DEF Reason
  <2>3. users'[p].userId # Account
    BY DEF LoggedOut, Account
  <2>4. QED
    BY <2>1, <2>2, <2>3, FrameUser DEF IInv
<1>7. CASE Shutdown
  BY <1>7 DEF Shutdown, Reason
<1>8. CASE GameInit
  BY <1>8, ResetType DEF GameInit, IInv, Down
<1>9. CASE users' = users
  BY <1>9
<1>10. QED
  BY <1>1, <1>2, <1>3, <1>4, <1>5, <1>6, <1>7, <1>8, <1>9
  DEF Next, Disconnects, Reason, Execute, Restored, vars

\* A client stays logged in until it leaves, has no key, the level ends, or a frame
\* meets a failed Login whose reply names its slot, whoever asked for that Login.
THEOREM LogoutHasReasonCorrect == Spec => LogoutHasReason
<1>1. IInv /\ [Next]_vars =>
        [\A p \in Players :
           (slot[p] = "taken" /\ users[p].userId # LoggedOut /\ users'[p].userId = LoggedOut)
             => \/ slot'[p] = "free"
                \/ ClientUserinfoChanged(p, FALSE)
                \/ phase' = "down"
                \/ RunFrame /\ \E k \in Answered :
                     calls[k].status = "failed" /\ calls[k].player = p]_vars
  BY LogoutStep DEF Reason
<1>2. QED
  BY <1>1, Invariance, PTL DEF Spec, LogoutHasReason

\* Nobody is forgotten: a client that is known and logged out is waiting for a reply
\* that will match, has no key, or a Login of the level has failed.  Logins that were
\* answered while the level ended are asked for again.
THEOREM NobodyIsForgotten == Spec => []LoggedInOrAsking
<1>1. Init => JInv
  <2>1. Init => AnsweredFirst /\ FailedSeen /\ LoggedInOrAsking
    BY NoCalls DEF Init, AnsweredFirst, FailedSeen, LoggedInOrAsking
  <2>2. QED
    BY <2>1, InitInductive DEF JInv
<1>2. JInv => LoggedInOrAsking
  BY DEF JInv
<1>3. QED
  BY <1>1, <1>2, NobodyForgotten, PTL DEF Spec
===============================================================================
