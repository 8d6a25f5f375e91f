--------------------------- MODULE FrameCodecProofs ---------------------------
(***************************************************************************)
(* Frames are read as they were written, for words, digits and shifts of   *)
(* any width and frames of any size and content.                           *)
(***************************************************************************)
EXTENDS FrameCodec, SequenceTheorems, WellFoundedInduction, TLAPS

-------------------------------------------------------------------------------
(* Numbers.                                                                *)

\* A set of numbers that is not empty has a least one: the induction of this module.
LEMMA LeastExists ==
  ASSUME NEW T \in SUBSET Nat, T # {}
  PROVE  \E k \in T : \A i \in T : k <= i
<1>1. IsWellFoundedOn(OpToRel(<, Nat), Nat)
  BY NatLessThanWellFounded
<1>2. \E k \in T : \A i \in T : ~(<<i, k>> \in OpToRel(<, Nat))
  BY <1>1, WFMin
<1>3. PICK k \in T : \A i \in T : <<i, k>> \notin OpToRel(<, Nat)
  BY <1>2
<1>4. ASSUME NEW i \in T PROVE k <= i
  <2>1. ~(i < k)
    BY <1>3 DEF OpToRel
  <2>2. QED
    BY <2>1
<1>5. QED
  BY <1>4

\* Division with rest.
LEMMA Division ==
  ASSUME NEW a \in Nat, NEW r \in Nat \ {0}
  PROVE  /\ a \div r \in Nat /\ a % r \in 0 .. r - 1
         /\ a = r * (a \div r) + (a % r)
<1>1. a \div r \in Int /\ a % r \in 0 .. r - 1 /\ a = r * (a \div r) + (a % r)
  OBVIOUS
<1>2. a \div r >= 0
  BY <1>1
<1>3. QED
  BY <1>1, <1>2

\* A quotient and a rest below the divisor are those of the division.
LEMMA DivisionUnique ==
  ASSUME NEW q \in Nat, NEW r \in Nat \ {0}, NEW d \in 0 .. r - 1
  PROVE  (r * q + d) % r = d /\ (r * q + d) \div r = q
OBVIOUS

\* A recursive definition over arguments that get smaller defines a function.
Decreases(D, size, smaller, base) == \A x \in D \ base : size[smaller[x]] < size[x]
Recurs(f, D, smaller, base, B, G) ==
  \A x \in D : f[x] = IF x \in base THEN B[x] ELSE G[x][f[smaller[x]]]

\* The functions for all bounds on the size agree, and their union is the one.
LEMMA Recursion ==
  ASSUME NEW D, NEW S, NEW size \in [D -> Nat], NEW smaller \in [D -> D],
         NEW base \in SUBSET D, NEW B \in [D -> S], NEW G \in [D -> [S -> S]],
         Decreases(D, size, smaller, base)
  PROVE  \E f \in [D -> S] : Recurs(f, D, smaller, base, B, G)
<1> USE DEF Decreases
<1> DEFINE Step(f, x) == IF x \in base THEN B[x] ELSE G[x][f[smaller[x]]]
           UpTo(n) == {f \in [D -> S] : \A x \in D : size[x] < n => f[x] = Step(f, x)}
<1>1. \A n \in Nat : UpTo(n) # {}
  <2> SUFFICES ASSUME {n \in Nat : UpTo(n) = {}} # {} PROVE FALSE
    OBVIOUS
  <2>1. PICK n \in Nat : UpTo(n) = {} /\ \A i \in Nat : UpTo(i) = {} => n <= i
    <3> HIDE DEF UpTo
    <3>1. PICK k \in {n \in Nat : UpTo(n) = {}} : \A i \in {n \in Nat : UpTo(n) = {}} : k <= i
      BY LeastExists
    <3>2. QED
      BY <3>1
  <2>2. n # 0
    <3>1. B \in UpTo(0)
      OBVIOUS
    <3>2. QED
      BY <2>1, <3>1
  <2>3. n - 1 \in Nat /\ UpTo(n - 1) # {}
    <3>1. n - 1 \in Nat /\ ~(n <= n - 1)
      BY <2>1, <2>2
    <3> HIDE DEF UpTo
    <3>2. QED
      BY <2>1, <3>1
  <2>4. PICK f \in UpTo(n - 1) : TRUE
    BY <2>3
  <2>5. f \in [D -> S] /\ \A x \in D : size[x] < n - 1 => f[x] = Step(f, x)
    BY <2>4
  <2>6. PICK g : g = [x \in D |-> Step(f, x)]
    OBVIOUS
  <2>7. g \in [D -> S]
    <3>1. ASSUME NEW x \in D PROVE Step(f, x) \in S
      BY <2>5
    <3> HIDE DEF Step
    <3>2. QED
      BY <2>6, <3>1
  <2>8. ASSUME NEW x \in D, size[x] < n PROVE g[x] = Step(g, x)
    <3>1. CASE x \in base
      BY <2>6, <3>1
    <3>2. CASE x \notin base
      <4>1. smaller[x] \in D /\ size[smaller[x]] < n - 1
        BY <2>8, <3>2
      <4>2. f[smaller[x]] = g[smaller[x]]
        BY <2>5, <2>6, <4>1
      <4>3. QED
        BY <2>6, <3>2, <4>2
    <3>3. QED
      BY <3>1, <3>2
  <2>9. g \in UpTo(n)
    BY <2>7, <2>8
  <2>10. QED
    BY <2>1, <2>9
<1>2. ASSUME NEW n \in Nat, NEW k \in Nat, NEW f \in UpTo(n), NEW g \in UpTo(k)
      PROVE  \A x \in D : size[x] < n /\ size[x] < k => f[x] = g[x]
  <2> DEFINE Differ == {i \in Nat : \E x \in D : size[x] = i /\ i < n /\ i < k /\ f[x] # g[x]}
  <2> SUFFICES ASSUME Differ # {} PROVE FALSE
    OBVIOUS
  <2>1. PICK i \in Differ : \A j \in Differ : i <= j
    <3>1. Differ \in SUBSET Nat
      OBVIOUS
    <3> HIDE DEF Differ
    <3>2. QED
      BY <3>1, LeastExists
  <2>2. PICK x \in D : size[x] = i /\ i < n /\ i < k /\ f[x] # g[x]
    BY <2>1
  <2>3. f[x] = Step(f, x) /\ g[x] = Step(g, x)
    BY <2>2
  <2>4. x \notin base
    BY <2>2, <2>3
  <2>5. smaller[x] \in D /\ size[smaller[x]] \in Nat /\ size[smaller[x]] < i
    BY <2>2, <2>4
  <2>6. f[smaller[x]] = g[smaller[x]]
    <3>1. size[smaller[x]] \notin Differ
      BY <2>1, <2>5
    <3>2. size[smaller[x]] < n /\ size[smaller[x]] < k /\ i \in Nat
      BY <2>2, <2>5
    <3>3. ~(f[smaller[x]] # g[smaller[x]])
      BY <2>5, <3>1, <3>2
    <3>4. QED
      BY ONLY <3>3
  <2>7. QED
    BY <2>2, <2>3, <2>4, <2>6
<1> DEFINE Of(n) == CHOOSE f : f \in UpTo(n)
           h == [x \in D |-> Of(size[x] + 1)[x]]
<1>3. \A n \in Nat : Of(n) \in UpTo(n)
  <2> HIDE DEF UpTo
  <2>1. QED
    BY <1>1
<1>4. \A x \in D : Of(size[x] + 1) \in [D -> S]
  <2> HIDE DEF Of
  <2>1. QED
    BY <1>3
<1>5. h \in [D -> S]
  <2> HIDE DEF Of
  <2>1. QED
    BY <1>4
<1>6. ASSUME NEW x \in D PROVE h[x] = Step(h, x)
  <2>1. PICK f : f = Of(size[x] + 1)
    OBVIOUS
  <2>2. f \in UpTo(size[x] + 1) /\ size[x] + 1 \in Nat
    <3> HIDE DEF UpTo, Of
    <3>1. QED
      BY <1>3, <2>1
  <2>3. h[x] = f[x] /\ f[x] = Step(f, x)
    <3> HIDE DEF Of
    <3>1. QED
      BY <2>1, <2>2
  <2>4. CASE x \in base
    BY <2>3, <2>4
  <2>5. CASE x \notin base
    <3>1. PICK y \in D : y = smaller[x]
      OBVIOUS
    <3>2. PICK g : g = Of(size[y] + 1)
      OBVIOUS
    <3>3. g \in UpTo(size[y] + 1) /\ size[y] + 1 \in Nat
      <4> HIDE DEF UpTo, Of
      <4>1. QED
        BY <1>3, <3>2
    <3>4. size[y] < size[y] + 1 /\ size[y] < size[x] + 1
      BY <2>5, <3>1
    <3>5. f[y] = g[y]
      <4> HIDE DEF UpTo
      <4>1. QED
        BY <1>2, <2>2, <3>3, <3>4
    <3>6. h[y] = g[y]
      <4> HIDE DEF Of
      <4>1. QED
        BY <3>2
    <3> HIDE DEF h
    <3>7. QED
      BY <2>3, <2>5, <3>1, <3>5, <3>6
  <2>6. QED
    BY <2>4, <2>5
<1>7. QED
  <2>1. Recurs(h, D, smaller, base, B, G)
    <3> HIDE DEF h
    <3>1. QED
      BY <1>6 DEF Recurs
  <2> HIDE DEF h
  <2>2. QED
    BY <1>5, <2>1

-------------------------------------------------------------------------------
(* The recursive definitions of FrameCodec.                                *)

\* Power is what its definition says.
LEMMA PowerDef == Power = [n \in Nat |-> IF n = 0 THEN 1 ELSE 2 * Power[n - 1]]
<1>1. PICK size \in [Nat -> Nat] : size = [n \in Nat |-> n]
  OBVIOUS
<1>2. PICK smaller \in [Nat -> Nat] : smaller = [n \in Nat |-> IF n = 0 THEN 0 ELSE n - 1]
  <2>1. [n \in Nat |-> IF n = 0 THEN 0 ELSE n - 1] \in [Nat -> Nat]
    OBVIOUS
  <2>2. QED
    BY <2>1
<1>3. PICK B \in [Nat -> Nat] : B = [n \in Nat |-> 1]
  OBVIOUS
<1>4. PICK G \in [Nat -> [Nat -> Nat]] : G = [n \in Nat |-> [v \in Nat |-> 2 * v]]
  <2>1. [n \in Nat |-> [v \in Nat |-> 2 * v]] \in [Nat -> [Nat -> Nat]]
    OBVIOUS
  <2>2. QED
    BY <2>1
<1>5. PICK base \in SUBSET Nat : base = {0}
  OBVIOUS
<1>6. PICK f \in [Nat -> Nat] : Recurs(f, Nat, smaller, base, B, G)
  <2>1. Decreases(Nat, size, smaller, base)
    BY <1>1, <1>2, <1>5 DEF Decreases
  <2>2. QED
    BY <2>1, Recursion
<1>7. \A n \in Nat : f[n] = IF n = 0 THEN 1 ELSE 2 * f[n - 1]
  <2>1. ASSUME NEW n \in Nat, n # 0 PROVE f[n] = 2 * f[n - 1]
    <3>1. smaller[n] = n - 1 /\ n - 1 \in Nat /\ f[n - 1] \in Nat
      BY <1>2, <2>1
    <3>2. QED
      BY <1>4, <1>5, <1>6, <2>1, <3>1 DEF Recurs
  <2>2. QED
    BY <1>3, <1>5, <1>6, <2>1 DEF Recurs
<1>8. f = [n \in Nat |-> IF n = 0 THEN 1 ELSE 2 * f[n - 1]]
  BY <1>7
<1>9. QED
  BY <1>8 DEF Power

\* The next power of two is twice as large.
LEMMA PowerStep == Power[0] = 1 /\ \A n \in Nat : Power[n + 1] = 2 * Power[n]
BY PowerDef

\* A power of two is a number, and not 0.
LEMMA PowerType == \A n \in Nat : Power[n] \in Nat \ {0}
<1> DEFINE T == {n \in Nat : Power[n] \notin Nat \ {0}}
<1> SUFFICES ASSUME T # {} PROVE FALSE
  OBVIOUS
<1>1. PICK n \in T : \A i \in T : n <= i
  <2>1. T \in SUBSET Nat
    OBVIOUS
  <2> HIDE DEF T
  <2>2. QED
    BY <2>1, LeastExists
<1>2. n # 0
  BY <1>1, PowerStep
<1>3. n - 1 \in Nat /\ n - 1 \notin T /\ (n - 1) + 1 = n
  BY <1>1, <1>2
<1>4. Power[n - 1] \in Nat \ {0} /\ Power[n] = 2 * Power[n - 1]
  BY <1>3, PowerStep
<1>5. QED
  BY <1>1, <1>4

\* Shifting twice is shifting by the sum.
LEMMA PowerSum == \A a, b \in Nat : Power[a + b] = Power[a] * Power[b]
<1> SUFFICES ASSUME NEW a \in Nat PROVE \A b \in Nat : Power[a + b] = Power[a] * Power[b]
  OBVIOUS
<1> DEFINE T == {b \in Nat : Power[a + b] # Power[a] * Power[b]}
<1> SUFFICES ASSUME T # {} PROVE FALSE
  OBVIOUS
<1>1. PICK b \in T : \A i \in T : b <= i
  <2>1. T \in SUBSET Nat
    OBVIOUS
  <2> HIDE DEF T
  <2>2. QED
    BY <2>1, LeastExists
<1>2. b # 0
  <2>1. Power[a + 0] = Power[a] * Power[0]
    BY PowerStep, PowerType
  <2>2. QED
    BY <1>1, <2>1
<1>3. PICK c \in Nat : c + 1 = b
  BY <1>1, <1>2
<1>4. Power[a + c] = Power[a] * Power[c]
  BY <1>1, <1>3
<1>5. Power[c + 1] = 2 * Power[c] /\ Power[(a + c) + 1] = 2 * Power[a + c] /\ a + b = (a + c) + 1
  BY <1>3, PowerStep
<1>6. Power[a] \in Nat /\ Power[c] \in Nat
  BY PowerType
<1>7. Power[a + b] = Power[a] * Power[b]
  <2>1. Power[a + b] = 2 * (Power[a] * Power[c]) /\ Power[b] = 2 * Power[c]
    BY <1>3, <1>4, <1>5
  <2>2. 2 * (Power[a] * Power[c]) = Power[a] * (2 * Power[c])
    BY <1>6
  <2>3. QED
    BY <2>1, <2>2
<1>8. QED
  BY <1>1, <1>7

\* A larger exponent does not give a smaller power.
LEMMA PowerGrows == \A a, b \in Nat : (a <= b) => Power[a] <= Power[b]
<1> SUFFICES ASSUME NEW a \in Nat, NEW b \in Nat, a <= b PROVE Power[a] <= Power[b]
  OBVIOUS
<1>1. PICK c \in Nat : b = a + c
  <2>1. b - a \in Nat /\ b = a + (b - a)
    OBVIOUS
  <2>2. QED
    BY <2>1
<1>2. Power[b] = Power[a] * Power[c] /\ Power[a] \in Nat \ {0} /\ Power[c] \in Nat \ {0}
  BY <1>1, PowerSum, PowerType
<1>3. QED
  BY <1>2

\* An or of numbers without a common bit is their sum.
LEMMA OrDef ==
  /\ \A y \in Nat : Or[<<0, y>>] = y
  /\ \A x, y \in Nat : x # 0 =>
       Or[<<x, y>>] = 2 * Or[<<x \div 2, y \div 2>>] + (IF x % 2 = 0 /\ y % 2 = 0 THEN 0 ELSE 1)
<1> DEFINE D == Nat \X Nat
           Half(p) == <<p[1] \div 2, p[2] \div 2>>
           Bit(p) == IF p[1] % 2 = 0 /\ p[2] % 2 = 0 THEN 0 ELSE 1
<1>1. \A a \in Nat : a \div 2 \in Nat /\ (a # 0 => a \div 2 < a)
  OBVIOUS
<1>2. PICK size \in [D -> Nat] : size = [p \in D |-> p[1]]
  <2>1. [p \in D |-> p[1]] \in [D -> Nat]
    OBVIOUS
  <2>2. QED
    BY <2>1
<1>3. PICK smaller \in [D -> D] : smaller = [p \in D |-> Half(p)]
  <2>1. \A p \in D : Half(p) \in D
    BY <1>1
  <2>2. QED
    BY <2>1
<1>4. PICK B \in [D -> Nat] : B = [p \in D |-> p[2]]
  <2>1. [p \in D |-> p[2]] \in [D -> Nat]
    OBVIOUS
  <2>2. QED
    BY <2>1
<1>5. PICK G \in [D -> [Nat -> Nat]] : G = [p \in D |-> [v \in Nat |-> 2 * v + Bit(p)]]
  <2>1. \A p \in D, v \in Nat : 2 * v + Bit(p) \in Nat
    OBVIOUS
  <2>2. [p \in D |-> [v \in Nat |-> 2 * v + Bit(p)]] \in [D -> [Nat -> Nat]]
    <3> HIDE DEF D, Bit
    <3>1. QED
      BY <2>1
  <2>3. QED
    BY <2>2
<1>6. PICK base \in SUBSET D : base = {p \in D : p[1] = 0}
  OBVIOUS
<1>7. PICK f \in [D -> Nat] : Recurs(f, D, smaller, base, B, G)
  <2>1. Decreases(D, size, smaller, base)
    BY <1>1, <1>2, <1>3, <1>6 DEF Decreases
  <2> HIDE DEF D
  <2>2. QED
    BY <2>1, Recursion
<1>8. \A p \in D : f[p] = IF p[1] = 0 THEN p[2] ELSE 2 * f[Half(p)] + Bit(p)
  <2>1. ASSUME NEW p \in D, p[1] # 0 PROVE f[p] = 2 * f[Half(p)] + Bit(p)
    <3>1. smaller[p] = Half(p) /\ smaller[p] \in D /\ p \notin base
      BY <1>3, <1>6, <2>1
    <3>2. PICK v \in Nat : v = f[smaller[p]]
      BY <3>1
    <3>3. f[p] = G[p][v]
      BY <1>7, <3>1, <3>2 DEF Recurs
    <3>4. G[p][v] = 2 * v + Bit(p)
      <4> HIDE DEF D, Bit
      <4>1. QED
        BY <1>5
    <3> HIDE DEF Half, Bit
    <3>5. QED
      BY <3>1, <3>2, <3>3, <3>4
  <2>2. ASSUME NEW p \in D, p[1] = 0 PROVE f[p] = p[2]
    BY <1>4, <1>6, <1>7, <2>2 DEF Recurs
  <2>3. QED
    BY <2>1, <2>2
<1>9. f = [p \in D |-> IF p[1] = 0 THEN p[2] ELSE 2 * f[Half(p)] + Bit(p)]
  <2> HIDE DEF D, Half, Bit
  <2>1. QED
    BY <1>8
<1>10. Or = [p \in D |-> IF p[1] = 0 THEN p[2] ELSE 2 * Or[Half(p)] + Bit(p)]
  BY <1>9, Zenon DEF Or
<1>11. ASSUME NEW x \in Nat, NEW y \in Nat
       PROVE  Or[<<x, y>>] = IF x = 0 THEN y
                             ELSE 2 * Or[Half(<<x, y>>)] + Bit(<<x, y>>)
  BY <1>10
<1>12. QED
  BY <1>11

\* Of numbers that have no bit in common, the or is the sum.
LEMMA OrOfDisjoint ==
  \A s \in Nat : \A x \in 0 .. Power[s] - 1, d \in Nat :
    Or[<<x, d * Power[s]>>] = x + d * Power[s]
<1> DEFINE Sums(s) == \A x \in 0 .. Power[s] - 1, d \in Nat :
                        Or[<<x, d * Power[s]>>] = x + d * Power[s]
           T == {s \in Nat : ~Sums(s)}
<1> SUFFICES ASSUME T # {} PROVE FALSE
  OBVIOUS
<1>1. PICK s \in T : \A i \in T : s <= i
  <2>1. T \in SUBSET Nat
    OBVIOUS
  <2> HIDE DEF T
  <2>2. QED
    BY <2>1, LeastExists
<1>2. Sums(0)
  BY OrDef, PowerStep
<1>3. s # 0
  <2> HIDE DEF Sums
  <2>1. QED
    BY <1>1, <1>2
<1>4. PICK t \in Nat : t + 1 = s /\ Sums(t)
  <2> HIDE DEF Sums
  <2>1. s - 1 \in Nat /\ ~(s <= s - 1) /\ (s - 1) + 1 = s
    BY <1>1, <1>3
  <2>2. QED
    BY <1>1, <2>1
<1>5. PICK P \in Nat \ {0} : P = Power[t] /\ Power[s] = 2 * P
  BY <1>4, PowerStep, PowerType
<1>6. ASSUME NEW x \in 0 .. Power[s] - 1, NEW d \in Nat
      PROVE  Or[<<x, d * Power[s]>>] = x + d * Power[s]
  <2>1. PICK y \in Nat : y = d * P
    BY <1>5
  <2>2. d * Power[s] = 2 * y /\ (2 * y) \div 2 = y /\ (2 * y) % 2 = 0
    BY <1>5, <2>1
  <2>3. CASE x = 0
    BY <2>2, <2>3, OrDef
  <2>4. CASE x # 0
    <3>1. x \in Nat /\ x < 2 * P
      BY <1>5
    <3>2. PICK h \in Nat, b \in 0 .. 1 : h = x \div 2 /\ b = x % 2 /\ x = 2 * h + b /\ h < P
      <4>1. x \div 2 \in Nat /\ x % 2 \in 0 .. 1 /\ x = 2 * (x \div 2) + (x % 2)
        BY <3>1
      <4>2. x \div 2 < P
        BY <3>1, <4>1
      <4>3. QED
        BY <4>1, <4>2
    <3>3. Or[<<h, y>>] = h + y
      <4>1. h \in 0 .. Power[t] - 1
        BY <1>5, <3>2
      <4>2. QED
        BY <1>4, <1>5, <2>1, <4>1
    <3>4. Or[<<x, 2 * y>>] = 2 * Or[<<h, y>>] + (IF b = 0 THEN 0 ELSE 1)
      BY <2>2, <2>4, <3>1, <3>2, OrDef
    <3>5. Or[<<x, 2 * y>>] = x + 2 * y
      <4>1. CASE b = 0
        BY ONLY h \in Nat, y \in Nat, <3>2, <3>3, <3>4, <4>1
      <4>2. CASE b = 1
        BY ONLY h \in Nat, y \in Nat, <3>2, <3>3, <3>4, <4>2
      <4>3. QED
        BY <4>1, <4>2
    <3>6. QED
      BY <2>2, <3>5
  <2>5. QED
    BY <2>3, <2>4
<1>7. QED
  BY <1>1, <1>6

\* The assumptions on the widths.
LEMMA Widths ==
  /\ DigitBits \in Nat \ {0} /\ WordBits \in Nat \ {0} /\ ShiftBits \in Nat \ {0}
  /\ Capacity \in Nat \ {0} /\ MaxFrames \in Nat
  /\ Radix \in Nat \ {0} /\ Radix \in Nat /\ Radix >= 2 /\ Radix = Power[DigitBits]
  /\ Power[WordBits] \in Nat \ {0} /\ Power[ShiftBits] \in Nat \ {0}
  /\ WordBits <= Power[ShiftBits]
  /\ Word \subseteq Nat /\ Byte \subseteq Nat
<1>1. /\ DigitBits \in Nat \ {0} /\ WordBits \in Nat \ {0} /\ ShiftBits \in Nat \ {0}
      /\ Capacity \in Nat \ {0} /\ MaxFrames \in Nat /\ WordBits <= Power[ShiftBits]
  BY WidthAssumption
<1>2. Radix \in Nat /\ Radix = Power[DigitBits]
  BY <1>1, PowerType DEF Radix
<1>3. Radix >= 2
  <2>1. 1 <= DigitBits /\ 1 \in Nat /\ Power[1] = 2
    <3>1. Power[0 + 1] = 2 * Power[0] /\ Power[0] = 1 /\ 0 + 1 = 1
      BY PowerStep
    <3>2. QED
      BY <1>1, <3>1
  <2>2. QED
    BY <1>1, <1>2, <2>1, PowerGrows
<1>4. Power[WordBits] \in Nat \ {0} /\ Power[ShiftBits] \in Nat \ {0}
  BY <1>1, PowerType
<1>5. Word \subseteq Nat /\ Byte \subseteq Nat
  BY <1>2, <1>4 DEF Word, Byte
<1>6. QED
  BY <1>1, <1>2, <1>3, <1>4, <1>5

\* What is left of a number after its last digit, and the byte of that digit.
LEMMA Digit ==
  ASSUME NEW x \in Word, x >= Radix
  PROVE  x \div Radix \in Word /\ x \div Radix < x /\ (x % Radix) + Radix \in Byte
  <1>1. x \in Nat /\ x < Power[WordBits] /\ x # 0
    BY Widths DEF Word
  <1>2. x \div Radix \in Nat /\ x % Radix \in 0 .. Radix - 1
    BY <1>1, Widths, Division
  <1>3. x \div Radix < x
    BY <1>1, Widths
  <1>4. QED
    BY <1>1, <1>2, <1>3, Widths DEF Word, Byte

\* The digits of a number, the last one first.
LEMMA PutDef ==
  /\ \A x \in Word : x < Radix => put[x] = <<x>>
  /\ \A x \in Word : x >= Radix =>
       put[x] = <<(x % Radix) + Radix>> \o put[x \div Radix]
<1>1. \A x \in Word : x >= Radix => x \div Radix \in Word /\ x \div Radix < x
  BY Digit
<1>2. PICK size \in [Word -> Nat] : size = [x \in Word |-> x]
  <2>1. [x \in Word |-> x] \in [Word -> Nat]
    BY Widths
  <2>2. QED
    BY <2>1
<1>3. PICK smaller \in [Word -> Word] :
               smaller = [x \in Word |-> IF x < Radix THEN x ELSE x \div Radix]
  <2>1. ASSUME NEW x \in Word, ~(x < Radix) PROVE x \div Radix \in Word
    BY <1>1, <2>1, Widths
  <2>2. [x \in Word |-> IF x < Radix THEN x ELSE x \div Radix] \in [Word -> Word]
    BY <2>1
  <2>3. QED
    BY <2>2
<1>4. PICK B \in [Word -> Seq(Nat)] : B = [x \in Word |-> <<x>>]
  <2>1. [x \in Word |-> <<x>>] \in [Word -> Seq(Nat)]
    BY Widths
  <2>2. QED
    BY <2>1
<1>5. PICK G \in [Word -> [Seq(Nat) -> Seq(Nat)]] :
               G = [x \in Word |-> [q \in Seq(Nat) |-> <<(x % Radix) + Radix>> \o q]]
  <2>1. ASSUME NEW x \in Word, NEW q \in Seq(Nat)
        PROVE  <<(x % Radix) + Radix>> \o q \in Seq(Nat)
    <3>1. (x % Radix) + Radix \in Nat
      <4>1. x \in Nat /\ Radix \in Nat \ {0}
        BY Widths
      <4>2. QED
        BY <4>1, Division
    <3>2. <<(x % Radix) + Radix>> \in Seq(Nat)
      BY <3>1
    <3>3. QED
      BY <3>2, ConcatProperties
  <2>2. [x \in Word |-> [q \in Seq(Nat) |-> <<(x % Radix) + Radix>> \o q]]
          \in [Word -> [Seq(Nat) -> Seq(Nat)]]
    BY <2>1
  <2>3. QED
    BY <2>2
<1>6. PICK base \in SUBSET Word : base = {x \in Word : x < Radix}
  OBVIOUS
<1>7. PICK f \in [Word -> Seq(Nat)] : Recurs(f, Word, smaller, base, B, G)
  <2>1. Decreases(Word, size, smaller, base)
    <3>1. ASSUME NEW x \in Word \ base PROVE size[smaller[x]] < size[x]
      <4>1. x >= Radix /\ ~(x < Radix)
        BY <1>6, Widths
      <4>2. x \div Radix \in Word /\ x \div Radix < x
        BY <1>1, <4>1
      <4>3. QED
        BY <1>2, <1>3, <4>1, <4>2
    <3>2. QED
      BY <3>1 DEF Decreases
  <2>2. QED
    BY <2>1, Recursion
<1>8. \A x \in Word : f[x] = IF x >= Radix THEN <<(x % Radix) + Radix>> \o f[x \div Radix]
                             ELSE <<x>>
  <2>1. ASSUME NEW x \in Word, x >= Radix
        PROVE  f[x] = <<(x % Radix) + Radix>> \o f[x \div Radix]
    <3>1. ~(x < Radix) /\ x \notin base /\ x \div Radix \in Word
      <4>1. ~(x < Radix)
        BY <2>1, Widths
      <4>2. x \notin base
        BY <1>6, <4>1
      <4>3. x \div Radix \in Word
        BY <1>1, <2>1
      <4>4. QED
        BY <4>1, <4>2, <4>3
    <3>2. smaller[x] = x \div Radix /\ f[x \div Radix] \in Seq(Nat)
      BY <1>3, <3>1
    <3>3. QED
      BY <1>5, <1>7, <3>1, <3>2 DEF Recurs
  <2>2. ASSUME NEW x \in Word, ~(x >= Radix) PROVE f[x] = <<x>>
    <3>1. x \in base
      BY <1>6, <2>2, Widths
    <3>2. QED
      BY <1>4, <1>7, <3>1 DEF Recurs
  <2>3. QED
    BY <2>1, <2>2
<1>9. f = [x \in Word |-> IF x >= Radix THEN <<(x % Radix) + Radix>> \o f[x \div Radix]
                          ELSE <<x>>]
  BY <1>8
<1>10. put = [x \in Word |-> IF x >= Radix THEN <<(x % Radix) + Radix>> \o put[x \div Radix]
                             ELSE <<x>>]
  BY <1>9, Zenon DEF put
<1>11. \A x \in Word : x < Radix => ~(x >= Radix)
  BY Widths
<1>12. QED
  BY <1>10, <1>11

\* A size is written as at least one byte.
LEMMA PutType == \A x \in Word : put[x] \in Seq(Byte) /\ put[x] # <<>>
<1> DEFINE T == {x \in Word : ~(put[x] \in Seq(Byte) /\ put[x] # <<>>)}
<1> SUFFICES ASSUME T # {} PROVE FALSE
  OBVIOUS
<1>1. PICK x \in T : \A i \in T : x <= i
  <2>1. T \in SUBSET Nat
    BY Widths
  <2> HIDE DEF T
  <2>2. QED
    BY <2>1, LeastExists
<1>2. x \in Word /\ x \in Nat
  BY <1>1, Widths
<1>3. CASE x < Radix
  <2>1. x \in Byte
    BY <1>2, <1>3, Widths DEF Byte
  <2>2. <<x>> \in Seq(Byte) /\ <<x>> # <<>>
    BY <2>1
  <2>3. QED
    BY <1>1, <1>2, <1>3, <2>2, PutDef
<1>4. CASE x >= Radix
  <2>3. x \div Radix \in Word /\ x \div Radix < x /\ (x % Radix) + Radix \in Byte
    BY <1>2, <1>4, Digit
  <2>4. put[x \div Radix] \in Seq(Byte)
    <3>1. x \div Radix \notin T
      <4>1. ~(x <= x \div Radix)
        BY <1>2, <2>3, Widths
      <4>2. QED
        BY <1>1, <4>1
    <3>2. QED
      BY <2>3, <3>1
  <2>5. <<(x % Radix) + Radix>> \in Seq(Byte) /\ Len(<<(x % Radix) + Radix>>) = 1
    BY <2>3
  <2>6. put[x] = <<(x % Radix) + Radix>> \o put[x \div Radix]
    BY <1>2, <1>4, PutDef
  <2>7. put[x] \in Seq(Byte) /\ Len(put[x]) # 0
    BY <2>4, <2>5, <2>6, ConcatProperties, LenProperties
  <2>8. QED
    BY <1>1, <2>7, EmptySeq
<1>5. QED
  BY <1>2, <1>3, <1>4, Widths

-------------------------------------------------------------------------------
(* The inductive invariant: T are all bytes ever given to Write, at[k] of  *)
(* them before the k-th frame, and c of them have been read.               *)

Digits(n) == Len(put[n])

Laid(frames, T, at) ==
  /\ at[1] = 0 /\ at[Len(frames) + 1] = Len(T)
  /\ \A k \in 1 .. Len(frames) :
       /\ Len(frames[k]) \in Word
       /\ at[k + 1] = at[k] + Digits(Len(frames[k])) + Len(frames[k]) /\ at[k + 1] <= Len(T)
       /\ \A j \in 1 .. Digits(Len(frames[k])) : T[at[k] + j] = put[Len(frames[k])][j]
       /\ \A j \in 1 .. Len(frames[k]) : T[at[k] + Digits(Len(frames[k])) + j] = frames[k][j]

\* What is in transit are the next bytes, and then come those that wait.
Transit(str, wr, ls, T, c) ==
  /\ c + Len(str) <= Len(T) /\ \A j \in 1 .. Len(str) : str[j] = T[c + j]
  /\ ls => wr = <<>>
  /\ ~ls => /\ c + Len(str) + Len(wr) = Len(T)
            /\ \A j \in 1 .. Len(wr) : wr[j] = T[c + Len(str) + j]

\* The digits of m are still to be read, of the size n.
Sized(rd, n, m, T, c) ==
  /\ n = rd.x + Power[rd.s] * m /\ rd.x < Power[rd.s]
  /\ rd.s = DigitBits * rd.i /\ (m = 0 => rd.s = 0)
  /\ \A j \in 1 .. Digits(m) : T[c + j] = put[m][j]

AtSize(rd, k, frames, T, at, c) ==
  /\ rd.data = <<>>
  /\ k > Len(frames) => rd = Fresh /\ c = at[k]
  /\ k <= Len(frames) =>
       \E m \in Word : /\ Sized(rd, Len(frames[k]), m, T, c)
                       /\ c + Digits(m) = at[k] + Digits(Len(frames[k]))

AtData(rd, k, frames, at, c) ==
  /\ k <= Len(frames)
  /\ rd.left # 0 /\ Len(frames[k]) = Len(rd.data) + rd.left
  /\ \A j \in 1 .. Len(rd.data) : rd.data[j] = frames[k][j]
  /\ c = at[k] + Digits(Len(frames[k])) + Len(rd.data)

Reading(rd, rcv, ls, frames, T, at, c) ==
  /\ Len(rcv) <= Len(frames) /\ \A i \in 1 .. Len(rcv) : rcv[i] = frames[i]
  /\ rd.pc = "size" => AtSize(rd, Len(rcv) + 1, frames, T, at, c)
  /\ rd.pc = "data" => AtData(rd, Len(rcv) + 1, frames, at, c)
  /\ rd.pc = "failed" => ls

Bytes(T, at, c) ==
  /\ Laid(sent, T, at)
  /\ Transit(stream, writing, lost, T, c)
  /\ Reading(reader, received, lost, sent, T, at, c)

IInv ==
  /\ TypeOK
  /\ \E T \in Seq(Byte), at \in [1 .. Len(sent) + 1 -> Nat], c \in Nat : Bytes(T, at, c)

-------------------------------------------------------------------------------
(* What a step leaves of the invariant.                                    *)

Frames == Seq(Seq(Byte))
Places(frames) == [1 .. Len(frames) + 1 -> Nat]

\* A number has its digits.
LEMMA DigitsType == \A n \in Word : put[n] \in Seq(Byte) /\ Digits(n) \in Nat \ {0}
BY PutType, EmptySeq DEF Digits

\* The places when another frame ends at e.
Behind(frames, at, e) ==
  [k \in 1 .. Len(frames) + 2 |-> IF k <= Len(frames) + 1 THEN at[k] ELSE e]

\* A frame is laid behind the others.
Written(f) == put[Len(f)] \o f
LaidBehind(frames, T, at, f, more, U, up) ==
  /\ more = Append(frames, f) /\ more \in Frames
  /\ U \in Seq(Byte) /\ up \in Places(more) /\ Laid(more, U, up)
  /\ Len(T) <= Len(U) /\ \A j \in 1 .. Len(T) : U[j] = T[j]
  /\ Len(Written(f)) = Len(U) - Len(T)
  /\ \A j \in 1 .. Len(U) - Len(T) : Written(f)[j] = U[Len(T) + j]
  /\ \A k \in 1 .. Len(frames) + 1 : up[k] = at[k]

\* The frame and its size are behind T, and all before them is as it was.
LEMMA LaidMore ==
  ASSUME NEW frames \in Frames, NEW T \in Seq(Byte), NEW at \in Places(frames),
         Laid(frames, T, at), NEW f \in Seq(Byte), Len(f) \in Word
  PROVE  LaidBehind(frames, T, at, f, Append(frames, f), T \o Written(f),
                    Behind(frames, at, Len(T \o Written(f))))
<1>1. PICK U, more, up : /\ U = T \o Written(f) /\ more = Append(frames, f)
                         /\ up = Behind(frames, at, Len(U))
  OBVIOUS
<1>2. PICK n \in Nat : n = Len(frames)
  BY LenProperties DEF Frames
<1>3. PICK p \in Seq(Byte) : p = put[Len(f)] /\ Len(p) \in Nat
  BY DigitsType, LenProperties
<1>4. PICK e \in Seq(Byte) : e = p \o f /\ e = Written(f)
  BY <1>3, ConcatProperties DEF Written
<1>5. /\ Len(f) \in Nat /\ Len(T) \in Nat /\ Len(e) = Len(p) + Len(f)
      /\ \A j \in 1 .. Len(p) : e[j] = p[j]
      /\ \A j \in 1 .. Len(f) : e[Len(p) + j] = f[j]
  <2>1. Len(f) \in Nat /\ Len(T) \in Nat /\ Len(e) = Len(p) + Len(f)
    BY <1>4, ConcatProperties, LenProperties
  <2>2. \A i \in 1 .. Len(p) + Len(f) : e[i] = IF i <= Len(p) THEN p[i] ELSE f[i - Len(p)]
    <3>1. e = p \o f
      BY <1>4
    <3>2. \A i \in 1 .. Len(p) + Len(f) : (p \o f)[i] = IF i <= Len(p) THEN p[i] ELSE f[i - Len(p)]
      BY ONLY f \in Seq(Byte), p \in Seq(Byte), ConcatProperties
    <3>3. QED
      BY ONLY <3>1, <3>2
  <2>3. ASSUME NEW j \in 1 .. Len(f) PROVE e[Len(p) + j] = f[j]
    <3>1. Len(p) + j \in 1 .. Len(p) + Len(f) /\ ~(Len(p) + j <= Len(p)) /\ (Len(p) + j) - Len(p) = j
      BY <1>3, <2>1
    <3>2. QED
      BY <2>2, <3>1
  <2>4. ASSUME NEW j \in 1 .. Len(p) PROVE e[j] = p[j]
    <3>1. j \in 1 .. Len(p) + Len(f) /\ j <= Len(p)
      BY <1>3, <2>1
    <3>2. QED
      BY <2>2, <3>1
  <2>5. QED
    BY <2>1, <2>3, <2>4
<1>6. /\ U \in Seq(Byte) /\ Len(U) = Len(T) + Len(e)
      /\ \A j \in 1 .. Len(T) : U[j] = T[j]
      /\ \A j \in 1 .. Len(e) : U[Len(T) + j] = e[j]
  <2>1. U = T \o e
    BY <1>1, <1>4
  <2>2. /\ U \in Seq(Byte) /\ Len(U) = Len(T) + Len(e)
        /\ \A i \in 1 .. Len(T) + Len(e) : U[i] = IF i <= Len(T) THEN T[i] ELSE e[i - Len(T)]
    BY <2>1, ConcatProperties
  <2>3. ASSUME NEW j \in 1 .. Len(e) PROVE U[Len(T) + j] = e[j]
    <3>1. Len(T) + j \in 1 .. Len(T) + Len(e) /\ ~(Len(T) + j <= Len(T)) /\ (Len(T) + j) - Len(T) = j
      BY <1>3, <1>5
    <3>2. QED
      BY <2>2, <3>1
  <2>4. ASSUME NEW j \in 1 .. Len(T) PROVE U[j] = T[j]
    <3>1. j \in 1 .. Len(T) + Len(e) /\ j <= Len(T)
      BY <1>3, <1>5
    <3>2. QED
      BY <2>2, <3>1
  <2>5. QED
    BY <2>2, <2>3, <2>4
<1>7. /\ more \in Frames /\ Len(more) = n + 1
      /\ \A i \in 1 .. n : more[i] = frames[i]
      /\ more[n + 1] = f
  BY <1>1, <1>2, AppendProperties DEF Frames
<1>8. /\ up \in Places(more) /\ up[n + 2] = Len(U)
      /\ \A k \in 1 .. n + 1 : up[k] = at[k]
  <2>1. \A k \in 1 .. n + 1 : at[k] \in Nat
    BY <1>2 DEF Places
  <2>2. Len(U) \in Nat
    BY <1>3, <1>5, <1>6
  <2>3. Len(more) + 1 = n + 2 /\ n + 2 \in 1 .. n + 2 /\ ~(n + 2 <= n + 1)
    BY <1>7
  <2>4. up = [k \in 1 .. n + 2 |-> IF k <= n + 1 THEN at[k] ELSE Len(U)]
    BY <1>1, <1>2, <2>3 DEF Behind
  <2>5. \A k \in 1 .. n + 1 : k \in 1 .. n + 2 /\ k <= n + 1
    OBVIOUS
  <2>6. \A k \in 1 .. n + 2 : k <= n + 1 => k \in 1 .. n + 1
    OBVIOUS
  <2>7. \A k \in 1 .. n + 2 : (IF k <= n + 1 THEN at[k] ELSE Len(U)) \in Nat
    BY <2>1, <2>2, <2>6
  <2>8. up \in [1 .. n + 2 -> Nat]
    BY <2>4, <2>7
  <2>9. QED
    BY <2>3, <2>4, <2>5, <2>8 DEF Places
<1>9. Laid(more, U, up)
  <2>1. up[1] = 0
    <3>1. 1 \in 1 .. n + 1
      BY <1>2
    <3>2. QED
      BY <1>8, <3>1 DEF Laid
  <2>2. up[n + 1] = Len(T)
    <3>1. n + 1 \in 1 .. n + 1
      BY <1>2
    <3>2. QED
      BY <1>2, <1>8, <3>1 DEF Laid
  <2>3. ASSUME NEW k \in 1 .. n
        PROVE  /\ Len(more[k]) \in Word
               /\ up[k + 1] = up[k] + Digits(Len(more[k])) + Len(more[k]) /\ up[k + 1] <= Len(U)
               /\ \A j \in 1 .. Digits(Len(more[k])) : U[up[k] + j] = put[Len(more[k])][j]
               /\ \A j \in 1 .. Len(more[k]) : U[up[k] + Digits(Len(more[k])) + j] = more[k][j]
    <3>1. PICK g \in Seq(Byte) : g = frames[k]
      BY <1>2, ElementOfSeq DEF Frames
    <3>2. PICK d \in Nat : d = Digits(Len(g)) /\ Len(g) \in Nat
      BY <1>2, <3>1, DigitsType, Widths DEF Laid
    <3>3. k \in 1 .. n + 1 /\ k + 1 \in 1 .. n + 1
      OBVIOUS
    <3>4. PICK a \in Nat : a = at[k] /\ up[k] = a
      BY <1>2, <1>8, <3>3 DEF Places
    <3>5. /\ Len(g) \in Word
          /\ at[k + 1] = a + d + Len(g) /\ at[k + 1] <= Len(T)
          /\ \A j \in 1 .. d : T[a + j] = put[Len(g)][j]
          /\ \A j \in 1 .. Len(g) : T[a + d + j] = g[j]
      BY <1>2, <3>1, <3>2, <3>4 DEF Laid
    <3>6. up[k + 1] = a + d + Len(g) /\ up[k + 1] <= Len(U)
      <4>1. up[k + 1] = at[k + 1]
        BY <1>8, <3>3
      <4>2. QED
        BY <1>3, <1>5, <1>6, <3>2, <3>5, <4>1
    <3>7. ASSUME NEW j \in 1 .. d PROVE U[a + j] = put[Len(g)][j]
      <4>1. a + j \in 1 .. Len(T)
        BY <1>5, <3>2, <3>5
      <4>2. QED
        BY <1>6, <3>5, <4>1
    <3>8. ASSUME NEW j \in 1 .. Len(g) PROVE U[a + d + j] = g[j]
      <4>1. a + d + j \in 1 .. Len(T)
        BY <1>5, <3>2, <3>5
      <4>2. QED
        BY <1>6, <3>5, <4>1
    <3>9. more[k] = g
      BY <1>7, <3>1
    <3>10. up[k] = a /\ Digits(Len(g)) = d /\ Len(g) \in Word
      BY <3>2, <3>4, <3>5
    <3>11. /\ \A j \in 1 .. Digits(Len(g)) : U[up[k] + j] = put[Len(g)][j]
           /\ \A j \in 1 .. Len(g) : U[up[k] + Digits(Len(g)) + j] = g[j]
      BY ONLY <3>7, <3>8, <3>10
    <3>12. QED
      BY ONLY <3>6, <3>9, <3>10, <3>11
  <2>4. /\ up[n + 2] = up[n + 1] + Digits(Len(f)) + Len(f) /\ up[n + 2] <= Len(U)
        /\ \A j \in 1 .. Digits(Len(f)) : U[up[n + 1] + j] = put[Len(f)][j]
        /\ \A j \in 1 .. Len(f) : U[up[n + 1] + Digits(Len(f)) + j] = f[j]
    <3>1. Digits(Len(f)) = Len(p)
      BY <1>3 DEF Digits
    <3>2. ASSUME NEW j \in 1 .. Len(p) PROVE U[Len(T) + j] = p[j]
      <4>1. j \in 1 .. Len(e)
        BY <1>3, <1>5
      <4>2. QED
        BY <1>5, <1>6, <4>1
    <3>3. ASSUME NEW j \in 1 .. Len(f) PROVE U[Len(T) + Len(p) + j] = f[j]
      <4>1. Len(p) + j \in 1 .. Len(e) /\ Len(T) + Len(p) + j = Len(T) + (Len(p) + j)
        BY <1>3, <1>5
      <4>2. QED
        BY <1>5, <1>6, <4>1
    <3>4. Len(U) = Len(T) + Len(p) + Len(f) /\ Len(U) <= Len(U)
      BY <1>3, <1>5, <1>6
    <3>5. QED
      BY <1>3, <1>8, <2>2, <3>1, <3>2, <3>3, <3>4
  <2>5. ASSUME NEW k \in 1 .. Len(more)
        PROVE  /\ Len(more[k]) \in Word
               /\ up[k + 1] = up[k] + Digits(Len(more[k])) + Len(more[k]) /\ up[k + 1] <= Len(U)
               /\ \A j \in 1 .. Digits(Len(more[k])) : U[up[k] + j] = put[Len(more[k])][j]
               /\ \A j \in 1 .. Len(more[k]) : U[up[k] + Digits(Len(more[k])) + j] = more[k][j]
    <3>1. CASE k = n + 1
      <4>1. more[k] = f /\ k + 1 = n + 2
        BY <1>7, <3>1
      <4>2. QED
        BY <2>4, <3>1, <4>1
    <3>2. CASE k # n + 1
      <4>1. k \in 1 .. n
        BY <1>7, <3>2
      <4>2. QED
        BY <2>3, <4>1
    <3>3. QED
      BY <3>1, <3>2
  <2>6. up[Len(more) + 1] = Len(U)
    <3>1. Len(more) + 1 = n + 2
      BY <1>7
    <3>2. QED
      BY <1>8, <3>1
  <2>7. QED
    BY <2>1, <2>5, <2>6 DEF Laid
<1>10. LaidBehind(frames, T, at, f, more, U, up)
  <2>1. Len(T) <= Len(U) /\ Len(e) = Len(U) - Len(T)
    BY <1>3, <1>5, <1>6
  <2>2. QED
    BY <1>1, <1>2, <1>4, <1>6, <1>7, <1>8, <1>9, <2>1 DEF LaidBehind
<1>11. QED
  BY <1>1, <1>10

\* Bytes go from the frame that is written into the stream, and out of it.
LEMMA Portion ==
  ASSUME NEW q \in Seq(Byte), NEW n \in 0 .. Len(q)
  PROVE  /\ SubSeq(q, 1, n) \in Seq(Byte) /\ Len(SubSeq(q, 1, n)) = n
         /\ \A j \in 1 .. n : SubSeq(q, 1, n)[j] = q[j]
         /\ SubSeq(q, n + 1, Len(q)) \in Seq(Byte) /\ Len(SubSeq(q, n + 1, Len(q))) = Len(q) - n
         /\ \A j \in 1 .. Len(q) - n : SubSeq(q, n + 1, Len(q))[j] = q[n + j]
<1>1. Len(q) \in Nat /\ n \in Nat /\ n \in Int /\ n + 1 \in Int /\ Len(q) \in Int /\ 1 \in Int
  BY LenProperties
<1>2. (\A i \in 1 .. n : q[i] \in Byte) /\ (\A i \in n + 1 .. Len(q) : q[i] \in Byte)
  <2>1. \A i \in 1 .. Len(q) : q[i] \in Byte
    BY ElementOfSeq
  <2>2. \A i \in 1 .. n : i \in 1 .. Len(q)
    BY <1>1
  <2>3. \A i \in n + 1 .. Len(q) : i \in 1 .. Len(q)
    BY <1>1
  <2>4. QED
    BY <2>1, <2>2, <2>3
<1>3. PICK a : a = SubSeq(q, 1, n)
  OBVIOUS
<1>4. /\ a \in Seq(Byte) /\ Len(a) = IF 1 <= n THEN n - 1 + 1 ELSE 0
      /\ \A i \in 1 .. n - 1 + 1 : a[i] = q[1 + i - 1]
  BY <1>1, <1>2, <1>3, SubSeqProperties
<1>5. PICK b : b = SubSeq(q, n + 1, Len(q))
  OBVIOUS
<1>6. /\ b \in Seq(Byte) /\ Len(b) = IF n + 1 <= Len(q) THEN Len(q) - (n + 1) + 1 ELSE 0
      /\ \A i \in 1 .. Len(q) - (n + 1) + 1 : b[i] = q[(n + 1) + i - 1]
  BY <1>1, <1>2, <1>5, SubSeqProperties
<1>7. Len(a) = n /\ \A j \in 1 .. n : a[j] = q[j]
  <2>1. n - 1 + 1 = n /\ \A j \in 1 .. n : 1 + j - 1 = j
    BY <1>1
  <2>2. QED
    BY <1>1, <1>4, <2>1
<1>8. Len(b) = Len(q) - n /\ \A j \in 1 .. Len(q) - n : b[j] = q[n + j]
  <2>1. Len(q) - (n + 1) + 1 = Len(q) - n
    BY <1>1
  <2>2. Len(b) = Len(q) - n
    <3>1. CASE n + 1 <= Len(q)
      BY <1>6, <2>1, <3>1
    <3>2. CASE ~(n + 1 <= Len(q))
      <4>1. Len(q) = n /\ Len(b) = 0
        BY <1>1, <1>6, <3>2
      <4>2. QED
        BY <1>1, <4>1
    <3>3. QED
      BY <3>1, <3>2
  <2>3. ASSUME NEW j \in 1 .. Len(q) - n PROVE b[j] = q[n + j]
    <3>1. j \in 1 .. Len(q) - (n + 1) + 1 /\ (n + 1) + j - 1 = n + j
      BY <1>1, <2>1
    <3>2. QED
      BY <1>6, <3>1
  <2>4. QED
    BY <2>2, <2>3
<1>9. QED
  BY <1>3, <1>4, <1>5, <1>6, <1>7, <1>8

\* Write takes the first n of the bytes that wait.
LEMMA MoreWritten ==
  ASSUME NEW T \in Seq(Byte), NEW c \in Nat, NEW str \in Seq(Byte), NEW wr \in Seq(Byte),
         Transit(str, wr, FALSE, T, c), NEW n \in 1 .. Len(wr)
  PROVE  /\ str \o SubSeq(wr, 1, n) \in Seq(Byte) /\ SubSeq(wr, n + 1, Len(wr)) \in Seq(Byte)
         /\ Len(str \o SubSeq(wr, 1, n)) = Len(str) + n
         /\ Transit(str \o SubSeq(wr, 1, n), SubSeq(wr, n + 1, Len(wr)), FALSE, T, c)
<1>1. n \in 0 .. Len(wr) /\ Len(wr) \in Nat /\ n \in Nat /\ Len(str) \in Nat /\ Len(T) \in Nat
  BY LenProperties
<1>2. PICK a \in Seq(Byte) : a = SubSeq(wr, 1, n) /\ Len(a) = n /\ \A j \in 1 .. n : a[j] = wr[j]
  BY <1>1, Portion
<1>3. PICK b \in Seq(Byte) : /\ b = SubSeq(wr, n + 1, Len(wr)) /\ Len(b) = Len(wr) - n
                             /\ \A j \in 1 .. Len(wr) - n : b[j] = wr[n + j]
  BY <1>1, Portion
<1>4. PICK s : s = str \o a
  OBVIOUS
<1>5. /\ s \in Seq(Byte) /\ Len(s) = Len(str) + n
      /\ \A i \in 1 .. Len(str) + n : s[i] = IF i <= Len(str) THEN str[i] ELSE a[i - Len(str)]
  BY <1>2, <1>4, ConcatProperties
<1>6. /\ \A j \in 1 .. Len(str) : str[j] = T[c + j]
      /\ c + Len(str) + Len(wr) = Len(T)
      /\ \A j \in 1 .. Len(wr) : wr[j] = T[c + Len(str) + j]
  BY DEF Transit
<1> Len(b) \in Nat /\ Len(s) \in Nat
  BY LenProperties, <1>5
<1>7. ASSUME NEW j \in 1 .. Len(s) PROVE s[j] = T[c + j]
  <2>1. CASE j <= Len(str)
    <3>1. j \in 1 .. Len(str) /\ j \in 1 .. Len(str) + n
      BY <1>1, <1>5, <2>1
    <3>2. QED
      BY <1>5, <1>6, <2>1, <3>1
  <2>2. CASE ~(j <= Len(str))
    <3>1. PICK i \in 1 .. n : i = j - Len(str) /\ j = Len(str) + i
      <4>1. j - Len(str) \in 1 .. n /\ j = Len(str) + (j - Len(str))
        BY <1>1, <1>5, <2>2
      <4>2. QED
        BY <4>1
    <3>2. s[j] = a[i] /\ a[i] = wr[i]
      BY <1>2, <1>5, <2>2, <3>1
    <3>3. wr[i] = T[c + Len(str) + i]
      <4>1. i \in 1 .. Len(wr)
        BY <1>1, <3>1
      <4>2. QED
        BY <1>6, <4>1
    <3>4. c + Len(str) + i = c + j
      BY <1>1, <3>1
    <3>5. QED
      BY <3>2, <3>3, <3>4
  <2>3. QED
    BY <2>1, <2>2
<1>8. ASSUME NEW j \in 1 .. Len(b) PROVE b[j] = T[c + Len(s) + j]
  <2> j \in 1 .. Len(wr) - n /\ j \in Nat
    BY <1>3
  <2>1. n + j \in 1 .. Len(wr) /\ c + Len(str) + (n + j) = c + Len(s) + j
    BY <1>1, <1>5
  <2>2. QED
    BY <1>3, <1>6, <2>1
<1>9. c + Len(s) + Len(b) = Len(T) /\ c + Len(s) <= Len(T)
  <2>1. Len(b) = Len(wr) - n /\ Len(s) = Len(str) + n /\ c + Len(str) + Len(wr) = Len(T)
    BY <1>3, <1>5, <1>6
  <2>2. QED
    <3>1. PICK x \in Nat, y \in Nat, z \in Nat : x = Len(str) /\ y = Len(wr) /\ z = Len(T)
      BY <1>1
    <3>2. Len(b) = y - n /\ Len(s) = x + n /\ c + x + y = z /\ n <= y /\ n \in Nat
      BY <1>1, <2>1, <3>1
    <3>3. c + (x + n) + (y - n) = z /\ c + (x + n) <= z
      BY <3>2
    <3>4. QED
      BY <3>1, <3>2, <3>3
<1>10. Transit(s, b, FALSE, T, c)
  BY <1>7, <1>8, <1>9 DEF Transit
<1>11. QED
  BY <1>2, <1>3, <1>4, <1>5, <1>10

\* The connection is lost with n bytes in transit.
LEMMA CutOff ==
  ASSUME NEW T \in Seq(Byte), NEW c \in Nat, NEW str \in Seq(Byte), NEW wr, NEW ls,
         Transit(str, wr, ls, T, c), NEW n \in 0 .. Len(str)
  PROVE  Transit(SubSeq(str, 1, n), <<>>, TRUE, T, c)
<1>1. PICK a \in Seq(Byte) : a = SubSeq(str, 1, n) /\ Len(a) = n /\ \A j \in 1 .. n : a[j] = str[j]
  BY Portion
<1>2. Len(str) \in Nat /\ n \in Nat /\ Len(T) \in Nat
  BY LenProperties
<1>3. c + Len(a) <= Len(T)
  BY <1>1, <1>2 DEF Transit
<1>4. ASSUME NEW j \in 1 .. Len(a) PROVE a[j] = T[c + j]
  <2>1. j \in 1 .. Len(str) /\ j \in 1 .. n
    BY <1>1, <1>2
  <2>2. QED
    BY <1>1, <2>1 DEF Transit
<1>5. QED
  BY <1>1, <1>3, <1>4 DEF Transit

\* The reader takes n bytes off the stream.
LEMMA TakenOff ==
  ASSUME NEW T \in Seq(Byte), NEW c \in Nat, NEW str \in Seq(Byte), NEW wr \in Seq(Byte),
         NEW ls \in BOOLEAN, Transit(str, wr, ls, T, c), NEW n \in 1 .. Len(str)
  PROVE  /\ c + n \in Nat /\ c + n <= Len(T)
         /\ \A j \in 1 .. n : str[j] = T[c + j]
         /\ SubSeq(str, n + 1, Len(str)) \in Seq(Byte)
         /\ Len(SubSeq(str, n + 1, Len(str))) <= Len(str)
         /\ Transit(SubSeq(str, n + 1, Len(str)), wr, ls, T, c + n)
<1>1. n \in 0 .. Len(str) /\ n \in Nat /\ Len(str) \in Nat /\ Len(wr) \in Nat /\ Len(T) \in Nat
  BY LenProperties
<1>2. PICK b \in Seq(Byte) : /\ b = SubSeq(str, n + 1, Len(str)) /\ Len(b) = Len(str) - n
                             /\ \A j \in 1 .. Len(str) - n : b[j] = str[n + j]
  BY <1>1, Portion
<1>3. c + Len(str) <= Len(T) /\ \A j \in 1 .. Len(str) : str[j] = T[c + j]
  BY DEF Transit
<1>4. c + n \in Nat /\ c + n <= Len(T) /\ (c + n) + Len(b) = c + Len(str) /\ Len(b) <= Len(str)
  <2>1. Len(b) = Len(str) - n /\ c + Len(str) <= Len(T)
    BY <1>2, <1>3
  <2>2. QED
    BY ONLY <2>1, <1>1, c \in Nat, n \in 1 .. Len(str)
<1>5. ASSUME NEW j \in 1 .. n PROVE str[j] = T[c + j]
  <2>1. j \in 1 .. Len(str)
    BY <1>1
  <2>2. QED
    BY <1>3, <2>1
<1>6. ASSUME NEW j \in 1 .. Len(b) PROVE b[j] = T[(c + n) + j]
  <2>1. n + j \in 1 .. Len(str) /\ j \in 1 .. Len(str) - n /\ c + (n + j) = (c + n) + j
    BY <1>1, <1>2
  <2>2. QED
    BY <1>2, <1>3, <2>1
<1>7. (c + n) + Len(b) <= Len(T)
  BY <1>3, <1>4
<1>8. ls => wr = <<>>
  BY DEF Transit
<1>9. ~ls => /\ (c + n) + Len(b) + Len(wr) = Len(T)
             /\ \A j \in 1 .. Len(wr) : wr[j] = T[(c + n) + Len(b) + j]
  BY <1>4 DEF Transit
<1>10. Transit(b, wr, ls, T, c + n)
  BY <1>6, <1>7, <1>8, <1>9 DEF Transit
<1>11. QED
  BY <1>2, <1>4, <1>5, <1>10

\* The reader before a frame: nothing of it is read.
LEMMA FrameBegins ==
  ASSUME NEW frames \in Frames, NEW T \in Seq(Byte), NEW at \in Places(frames),
         Laid(frames, T, at), NEW k \in 1 .. Len(frames) + 1
  PROVE  AtSize(Fresh, k, frames, T, at, at[k])
<1>1. Fresh.data = <<>> /\ Fresh.x = 0 /\ Fresh.s = 0 /\ Fresh.i = 0
  BY DEF Fresh
<1>2. ASSUME k <= Len(frames)
      PROVE  \E m \in Word : /\ Sized(Fresh, Len(frames[k]), m, T, at[k])
                             /\ at[k] + Digits(m) = at[k] + Digits(Len(frames[k]))
  <2>1. k \in 1 .. Len(frames)
    BY <1>2
  <2>2. PICK m \in Word : m = Len(frames[k])
    BY <2>1 DEF Laid
  <2>3. m = 0 + 1 * m /\ Power[0] = 1 /\ 0 = DigitBits * 0 /\ 0 < 1
    BY PowerStep, Widths
  <2>4. \A j \in 1 .. Digits(m) : T[at[k] + j] = put[m][j]
    BY <2>1, <2>2 DEF Laid
  <2>5. Sized(Fresh, m, m, T, at[k])
    BY <1>1, <2>3, <2>4 DEF Sized
  <2>6. QED
    BY <2>2, <2>5
<1>3. QED
  BY <1>1, <1>2 DEF AtSize

\* Another frame behind the others changes nothing for the reader.
LEMMA ReadingMore ==
  ASSUME NEW frames \in Frames, NEW T \in Seq(Byte), NEW at \in Places(frames),
         Laid(frames, T, at), NEW f \in Seq(Byte),
         NEW more, NEW U, NEW up, LaidBehind(frames, T, at, f, more, U, up),
         NEW rd, NEW rcv \in Frames, NEW ls, NEW c \in Nat, Reading(rd, rcv, ls, frames, T, at, c)
  PROVE  Reading(rd, rcv, ls, more, U, up, c)
<1>1. /\ more = Append(frames, f) /\ more \in Frames /\ U \in Seq(Byte)
      /\ up \in Places(more) /\ Laid(more, U, up) /\ \A j \in 1 .. Len(T) : U[j] = T[j]
      /\ \A k \in 1 .. Len(frames) + 1 : up[k] = at[k]
  BY DEF LaidBehind
<1>2. PICK n \in Nat : n = Len(frames)
  BY LenProperties DEF Frames
<1>3. Len(more) = n + 1 /\ \A i \in 1 .. n : more[i] = frames[i]
  BY <1>1, <1>2, AppendProperties DEF Frames
<1>4. PICK k \in 1 .. n + 1 : k = Len(rcv) + 1
  <2>1. Len(rcv) \in Nat /\ Len(rcv) <= n
    BY <1>2, LenProperties DEF Reading, Frames
  <2>2. Len(rcv) + 1 \in 1 .. n + 1
    BY <2>1
  <2>3. QED
    BY <2>2
<1>5. k \in 1 .. Len(frames) + 1 /\ k \in 1 .. Len(more) + 1 /\ up[k] = at[k] /\ at[k] \in Nat
  BY <1>1, <1>2, <1>3, <1>4 DEF Places
<1>6. ASSUME k <= n, NEW m \in Word, c + Digits(m) = at[k] + Digits(Len(frames[k])),
             Sized(rd, Len(frames[k]), m, T, c)
      PROVE  Sized(rd, Len(frames[k]), m, U, c)
  <2>1. ASSUME NEW j \in 1 .. Digits(m) PROVE U[c + j] = put[m][j]
    <3>1. k \in 1 .. Len(frames)
      BY <1>2, <1>4, <1>6
    <3>2. /\ at[k + 1] = at[k] + Digits(Len(frames[k])) + Len(frames[k]) /\ at[k + 1] <= Len(T)
          /\ Len(frames[k]) \in Word
      BY <3>1 DEF Laid
    <3>3. Digits(m) \in Nat /\ Digits(Len(frames[k])) \in Nat /\ Len(frames[k]) \in Nat /\ Len(T) \in Nat
      BY <3>2, DigitsType, Widths, LenProperties
    <3>4. c + j \in 1 .. Len(T)
      BY <1>5, <1>6, <3>2, <3>3
    <3>5. QED
      BY <1>1, <1>6, <3>4 DEF Sized
  <2>2. QED
    BY <1>6, <2>1 DEF Sized
<1>7. ASSUME rd.pc = "size" PROVE AtSize(rd, k, more, U, up, c)
  <2>1. AtSize(rd, k, frames, T, at, c)
    BY <1>4, <1>7 DEF Reading
  <2>2. CASE k <= n
    <3>1. ~(k > Len(more)) /\ more[k] = frames[k] /\ k <= Len(frames)
      BY <1>2, <1>3, <1>4, <2>2
    <3>2. PICK m \in Word : /\ Sized(rd, Len(frames[k]), m, T, c)
                            /\ c + Digits(m) = at[k] + Digits(Len(frames[k]))
      BY <2>1, <3>1 DEF AtSize
    <3>3. Sized(rd, Len(frames[k]), m, U, c)
      BY <1>6, <2>2, <3>2
    <3>4. QED
      BY <1>5, <2>1, <3>1, <3>2, <3>3 DEF AtSize
  <2>3. CASE ~(k <= n)
    <3>1. k > Len(frames)
      BY <1>2, <1>4, <2>3
    <3>2. rd = Fresh /\ c = up[k]
      BY <1>5, <2>1, <3>1 DEF AtSize
    <3>3. AtSize(Fresh, k, more, U, up, up[k])
      BY <1>1, <1>5, FrameBegins
    <3>4. QED
      BY <3>2, <3>3
  <2>4. QED
    BY <2>2, <2>3
<1>8. ASSUME rd.pc = "data" PROVE AtData(rd, k, more, up, c)
  <2>1. AtData(rd, k, frames, at, c)
    BY <1>4, <1>8 DEF Reading
  <2>2. k \in 1 .. n /\ k <= Len(more)
    BY <1>2, <1>3, <1>4, <2>1 DEF AtData
  <2>3. more[k] = frames[k]
    BY <1>3, <2>2
  <2>4. QED
    BY <1>5, <2>1, <2>2, <2>3 DEF AtData
<1>9. Len(rcv) <= Len(more) /\ \A i \in 1 .. Len(rcv) : rcv[i] = more[i]
  <2>1. Len(rcv) \in Nat /\ Len(rcv) <= n /\ \A i \in 1 .. Len(rcv) : rcv[i] = frames[i]
    BY <1>2, LenProperties DEF Reading, Frames
  <2>2. \A i \in 1 .. Len(rcv) : i \in 1 .. n
    BY <2>1
  <2>3. QED
    BY <1>3, <2>1, <2>2
<1>10. rd.pc = "failed" => ls
  BY DEF Reading
<1>11. QED
  BY <1>4, <1>7, <1>8, <1>9, <1>10 DEF Reading

-------------------------------------------------------------------------------
(* A digit is read.                                                        *)

\* n is x with m shifted by s.
Splits(n, x, s, m) == n = x + Power[s] * m /\ x < Power[s] /\ (m = 0 => s = 0)
\* x takes the digit d, shifted by s.
Fits(x, s, d) ==
  /\ s < WordBits
  /\ Shifted(d, s) = {d * Power[s]}
  /\ Or[<<x, d * Power[s]>>] = x + d * Power[s]
  /\ x + d * Power[s] \in Word

\* The shift is defined, and neither it nor the digit is cut off.
LEMMA DigitFits ==
  ASSUME NEW n \in Word, NEW m \in Word, NEW s \in Nat, NEW x \in Nat, NEW d \in Nat,
         Splits(n, x, s, m), d <= m
  PROVE  Fits(x, s, d)
<1>1. PICK P \in Nat \ {0} : P = Power[s]
  BY PowerType
<1>2. PICK W \in Nat \ {0} : W = Power[WordBits]
  BY Widths
<1>3. n = x + Power[s] * m /\ x < Power[s] /\ (m = 0 => s = 0)
  BY DEF Splits
<1>4. n \in Nat /\ m \in Nat /\ n < W
  BY <1>2, Widths DEF Word
<1>5. s < WordBits
  <2>1. CASE m = 0
    BY <1>3, <2>1, Widths
  <2>2. CASE m # 0
    <3>1. P <= P * m
      BY <1>1, <1>4, <2>2
    <3>2. P < W
      BY <1>1, <1>3, <1>4, <3>1
    <3>3. ~(WordBits <= s)
      BY <1>1, <1>2, <3>2, PowerGrows, Widths
    <3>4. QED
      BY <3>3, Widths
  <2>3. QED
    BY <2>1, <2>2
<1>6. d * P \in Nat /\ d * P <= P * m
  BY <1>1, <1>4
<1>7. x + d * P <= n /\ d * P < W
  <2>1. PICK u \in Nat, v \in Nat : u = d * P /\ v = P * m
    BY <1>1, <1>4, <1>6
  <2>2. n = x + v /\ u <= v
    BY <1>1, <1>3, <1>6, <2>1
  <2>3. QED
    BY <1>2, <1>4, <2>1, <2>2
<1>8. (d * P) % W = d * P
  <2>1. PICK u \in Nat : u = d * P /\ u < W
    BY <1>6, <1>7
  <2>2. u % W = u
    BY <2>1, <1>2
  <2>3. QED
    BY <2>1, <2>2
<1>9. Shifted(d, s) = {d * Power[s]}
  BY <1>1, <1>2, <1>5, <1>8 DEF Shifted
<1>10. Or[<<x, d * Power[s]>>] = x + d * Power[s]
  <2>1. x \in 0 .. Power[s] - 1
    BY <1>1, <1>3
  <2>2. QED
    BY <2>1, OrOfDisjoint
<1>11. x + d * P \in Word
  <2>1. PICK u \in Nat : u = x + d * P
    BY <1>6
  <2>2. u <= n
    BY <1>7, <2>1
  <2>3. u \in 0 .. W - 1
    BY <1>2, <1>4, <2>2
  <2>4. QED
    BY <1>2, <2>1, <2>3 DEF Word
<1>12. QED
  BY <1>1, <1>5, <1>6, <1>9, <1>10, <1>11 DEF Fits

\* A digit with its mark: others follow.
LEMMA SizeContinues ==
  ASSUME NEW n \in Word, NEW m \in Word, NEW T \in Seq(Byte), NEW c \in Nat,
         NEW rd, rd.x \in Nat, rd.s \in Nat, rd.i \in Nat,
         Sized(rd, n, m, T, c), m >= Radix,
         NEW next, next.x = rd.x + (m % Radix) * Power[rd.s],
         next.s = rd.s + DigitBits, next.i = rd.i + 1
  PROVE  /\ T[c + 1] = (m % Radix) + Radix
         /\ Sized(next, n, m \div Radix, T, c + 1) /\ m \div Radix \in Word
         /\ Digits(m) = Digits(m \div Radix) + 1
         /\ rd.s + DigitBits < Power[ShiftBits]
<1>1. PICK P \in Nat \ {0}, x \in Nat, s \in Nat, i \in Nat :
             P = Power[rd.s] /\ x = rd.x /\ s = rd.s /\ i = rd.i
  BY PowerType
<1>2. m \in Nat /\ n \in Nat /\ n = x + P * m /\ x < P /\ s = DigitBits * i
  BY <1>1, Widths DEF Sized
<1>3. PICK R \in Nat \ {0} : R = Radix /\ R >= 2
  BY Widths
<1>4. PICK q \in Word : q = m \div Radix /\ q < m
  BY Digit
<1>5. PICK d \in 0 .. Radix - 1 : d = m % Radix
  BY <1>2, Division, Widths
<1>6. m = Radix * q + d /\ q \in Nat /\ q # 0
  <2>1. m = Radix * q + d /\ q \in Nat
    BY <1>2, <1>4, <1>5, Division, Widths
  <2>2. q # 0
    BY <1>5, <2>1, Widths
  <2>3. QED
    BY <2>1, <2>2
<1>7. Power[s + DigitBits] = P * Radix /\ s + DigitBits \in Nat
  <2>1. s \in Nat /\ DigitBits \in Nat /\ Power[DigitBits] = Radix
    BY Widths
  <2>2. Power[s + DigitBits] = Power[s] * Power[DigitBits]
    BY <2>1, PowerSum
  <2>3. QED
    BY <1>1, <2>1, <2>2
<1>8. n = (x + d * P) + (P * R) * q
  <2>1. d \in Nat /\ m = R * q + d
    BY <1>3, <1>5, <1>6
  <2>2. P * (R * q + d) = (P * R) * q + d * P
    BY <1>6, <2>1
  <2>3. PICK u \in Nat, v \in Nat : u = d * P /\ v = (P * R) * q
    BY <1>6, <2>1
  <2>4. n = x + (v + u)
    BY <1>2, <2>1, <2>2, <2>3
  <2>5. QED
    BY <2>3, <2>4
<1>9. x + d * P < P * R
  <2>1. d \in Nat /\ d + 1 <= R
    BY <1>3, <1>5
  <2>2. P * (d + 1) <= P * R
    BY <2>1
  <2>3. P * (d + 1) = d * P + P
    BY <2>1
  <2>4. PICK u \in Nat, v \in Nat : u = d * P /\ v = P * R
    BY <2>1
  <2>5. x < P /\ u + P <= v /\ x \in Nat /\ P \in Nat
    BY <1>2, <2>2, <2>3, <2>4
  <2>6. x + u < v
    BY ONLY <2>5, u \in Nat, v \in Nat
  <2>7. QED
    BY <2>4, <2>6
<1>10. s + DigitBits < Power[ShiftBits]
  <2>1. PICK u \in Nat, v \in Nat : u = d * P /\ v = P * R
    BY <1>3, <1>5
  <2>2. v <= v * q
    BY <1>6, <2>1
  <2>3. n = (x + u) + v * q /\ v * q \in Nat
    BY <1>6, <1>8, <2>1
  <2>4. v <= n
    <3>1. PICK w \in Nat : w = v * q
      BY <2>3
    <3>2. n = (x + u) + w /\ v <= w
      BY <2>2, <2>3, <3>1
    <3>3. QED
      BY <3>2
  <2>5. Power[s + DigitBits] = v /\ n < Power[WordBits] /\ Power[WordBits] \in Nat
    <3>1. Power[s + DigitBits] = v
      BY <1>3, <1>7, <2>1
    <3>2. PICK W \in Nat : W = Power[WordBits]
      BY Widths
    <3>3. n \in 0 .. W - 1
      BY <3>2 DEF Word
    <3>4. QED
      BY <3>1, <3>2, <3>3
  <2>6. ~(WordBits <= s + DigitBits)
    <3>1. WordBits \in Nat /\ s + DigitBits \in Nat
      BY <1>7, Widths
    <3>2. ~(Power[WordBits] <= Power[s + DigitBits])
      BY <1>2, <2>1, <2>4, <2>5
    <3>3. QED
      BY <3>1, <3>2, PowerGrows
  <2>7. PICK t \in Nat, w \in Nat, S \in Nat : t = s + DigitBits /\ w = WordBits /\ S = Power[ShiftBits]
    BY ONLY <1>7, Widths
  <2>8. w <= S /\ ~(w <= t)
    BY <2>6, <2>7, Widths
  <2>9. QED
    BY <2>7, <2>8
<1>11. PICK h \in Byte, p \in Seq(Byte) :
             h = d + Radix /\ p = put[q] /\ put[m] = <<h>> \o p
  <2>1. d + Radix \in Byte
    <3>1. d + R \in 0 .. 2 * R - 1
      BY <1>3, <1>5
    <3>2. QED
      BY <1>3, <3>1 DEF Byte
  <2>2. put[m] = <<d + Radix>> \o put[q]
    BY <1>4, <1>5, PutDef
  <2>3. QED
    BY <2>1, <2>2, PutType
<1>12. /\ Digits(m) = Len(p) + 1 /\ Len(p) \in Nat /\ put[m][1] = h
       /\ \A j \in 1 .. Len(p) : put[m][j + 1] = p[j]
  <2>1. <<h>> \in Seq(Byte) /\ Len(<<h>>) = 1 /\ <<h>>[1] = h /\ Len(p) \in Nat
    BY LenProperties
  <2>2. /\ Len(put[m]) = 1 + Len(p)
        /\ \A j \in 1 .. 1 + Len(p) : put[m][j] = IF j <= 1 THEN <<h>>[j] ELSE p[j - 1]
    BY <1>11, <2>1, ConcatProperties
  <2>3. ASSUME NEW j \in 1 .. Len(p) PROVE put[m][j + 1] = p[j]
    <3>1. j + 1 \in 1 .. 1 + Len(p) /\ ~(j + 1 <= 1) /\ (j + 1) - 1 = j
      BY <2>1
    <3>2. QED
      BY <2>2, <3>1
  <2>4. put[m][1] = h
    <3>1. 1 \in 1 .. 1 + Len(p) /\ 1 <= 1
      BY <2>1
    <3>2. QED
      BY <2>1, <2>2, <3>1
  <2>5. QED
    BY <2>1, <2>2, <2>3, <2>4 DEF Digits
<1>13. \A j \in 1 .. Digits(m) : T[c + j] = put[m][j]
  BY DEF Sized
<1>14. T[c + 1] = h
  <2>1. 1 \in 1 .. Digits(m)
    BY <1>12
  <2>2. QED
    BY <1>12, <1>13, <2>1
<1>15. ASSUME NEW j \in 1 .. Digits(q) PROVE T[(c + 1) + j] = put[q][j]
  <2>1. j \in 1 .. Len(p) /\ j + 1 \in 1 .. Digits(m) /\ c + (j + 1) = (c + 1) + j
    <3>1. Digits(q) = Len(p) /\ Digits(m) = Len(p) + 1 /\ Len(p) \in Nat
      BY <1>11, <1>12 DEF Digits
    <3>2. QED
      BY <3>1
  <2>2. QED
    BY <1>11, <1>12, <1>13, <2>1
<1>16. Sized(next, n, q, T, c + 1)
  <2>1. next.x = x + d * P /\ next.s = s + DigitBits /\ next.i = i + 1
    BY <1>1, <1>5
  <2>2. s + DigitBits = DigitBits * (i + 1)
    BY <1>2, Widths
  <2>3. next.s = DigitBits * next.i /\ Power[next.s] = P * R
    BY <1>3, <1>7, <2>1, <2>2
  <2>4. n = next.x + Power[next.s] * q /\ next.x < Power[next.s]
    BY <1>8, <1>9, <2>1, <2>3
  <2>5. QED
    BY <1>6, <1>15, <2>3, <2>4 DEF Sized
<1>17. QED
  BY <1>1, <1>4, <1>5, <1>10, <1>11, <1>12, <1>14, <1>16 DEF Digits

\* The last digit: the size is read, and it is not taken for an overflow.
LEMMA SizeEnds ==
  ASSUME NEW n \in Word, NEW m \in Word, NEW T \in Seq(Byte), NEW c \in Nat,
         NEW rd, rd.x \in Nat, rd.s \in Nat, rd.i \in Nat,
         Sized(rd, n, m, T, c), m < Radix
  PROVE  /\ T[c + 1] = m /\ Digits(m) = 1
         /\ n = rd.x + m * Power[rd.s]
         /\ ~(rd.i >= (WordBits - 1) \div DigitBits /\ m > 1)
<1>1. PICK P \in Nat \ {0}, x \in Nat, s \in Nat, i \in Nat :
             P = Power[rd.s] /\ x = rd.x /\ s = rd.s /\ i = rd.i
  BY PowerType
<1>2. m \in Nat /\ n \in Nat /\ n = x + P * m /\ x < P /\ s = DigitBits * i
  BY <1>1, Widths DEF Sized
<1>3. put[m] = <<m>> /\ Len(<<m>>) = 1 /\ <<m>>[1] = m
  BY PutDef
<1>4. Digits(m) = 1 /\ T[c + 1] = m
  <2>1. Digits(m) = 1 /\ 1 \in 1 .. 1
    BY <1>3 DEF Digits
  <2>2. QED
    BY <1>3, <2>1 DEF Sized
<1>5. ASSUME i >= (WordBits - 1) \div DigitBits, m > 1 PROVE FALSE
  <2>1. PICK w \in Nat, D \in Nat \ {0} : w = WordBits - 1 /\ D = DigitBits /\ WordBits = w + 1
    <3>1. WordBits - 1 \in Nat /\ WordBits = (WordBits - 1) + 1
      BY Widths
    <3>2. QED
      BY <3>1, Widths
  <2>2. PICK q \in Nat : q = w \div D /\ w = D * q
    <3>1. w \div D \in Nat /\ w = D * (w \div D) + (w % D) /\ w % D \in 0 .. D - 1
      BY Division
    <3>2. w % D = 0
      BY <2>1, WidthAssumption
    <3>3. w = D * (w \div D)
      BY <3>1, <3>2
    <3>4. QED
      BY <3>1, <3>3
  <2>3. D * q <= D * i
    BY <1>5, <2>1, <2>2
  <2>4. w <= s
    BY <1>2, <2>1, <2>2, <2>3
  <2>5. PICK Q \in Nat \ {0} : Q = Power[w] /\ Power[WordBits] = 2 * Q
    BY <2>1, PowerStep, PowerType
  <2>6. Q <= P
    BY <1>1, <2>4, <2>5, PowerGrows
  <2>7. 2 * P <= P * m
    BY <1>2, <1>5
  <2>8. 2 * Q <= n
    <3>1. PICK v \in Nat : v = P * m
      BY <1>2
    <3>2. QED
      BY <1>2, <2>6, <2>7, <3>1
  <2>9. n < 2 * Q
    BY <2>5, Widths DEF Word
  <2>10. QED
    BY <1>2, <2>8, <2>9
<1>6. n = x + m * P
  BY <1>2
<1>7. QED
  BY <1>1, <1>4, <1>5, <1>6

-------------------------------------------------------------------------------
(* What RecvFrame does to the reader.                                      *)

\* A frame that is returned is the next one, and the reader stands before the one
\* behind it.
LEMMA Returned ==
  ASSUME NEW frames \in Frames, NEW T \in Seq(Byte), NEW at \in Places(frames),
         Laid(frames, T, at), NEW rcv \in Frames, NEW ls,
         Len(rcv) <= Len(frames), \A i \in 1 .. Len(rcv) : rcv[i] = frames[i],
         NEW k, k = Len(rcv) + 1, k <= Len(frames), NEW f \in Seq(Byte),
         Len(f) = Len(frames[k]), \A j \in 1 .. Len(f) : f[j] = frames[k][j]
  PROVE  /\ Append(rcv, f) \in Frames
         /\ Reading(Fresh, Append(rcv, f), ls, frames, T, at, at[k + 1])
<1>1. PICK n \in Nat, l \in Nat : n = Len(frames) /\ l = Len(rcv)
  BY LenProperties DEF Frames
<1>2. k \in 1 .. Len(frames) /\ k + 1 \in 1 .. Len(frames) + 1 /\ k = l + 1 /\ l + 1 <= n
  BY <1>1
<1>3. PICK g \in Seq(Byte) : g = frames[k]
  BY <1>2, ElementOfSeq DEF Frames
<1>4. f = g
  BY <1>3, SeqEqual
<1>5. PICK r \in Frames : r = Append(rcv, f)
  BY AppendProperties DEF Frames
<1>6. /\ Len(r) = l + 1 /\ r[l + 1] = f
      /\ \A i \in 1 .. l : r[i] = rcv[i]
  BY <1>1, <1>5, AppendProperties DEF Frames
<1>7. \A i \in 1 .. Len(r) : r[i] = frames[i]
  <2>1. ASSUME NEW i \in 1 .. l + 1 PROVE r[i] = frames[i]
    <3>1. CASE i = l + 1
      BY <1>2, <1>3, <1>4, <1>6, <3>1
    <3>2. CASE i # l + 1
      <4>1. i \in 1 .. l
        BY <3>2
      <4>2. QED
        BY <1>1, <1>6, <4>1
    <3>3. QED
      BY <3>1, <3>2
  <2>2. QED
    BY <1>6, <2>1
<1>8. AtSize(Fresh, Len(r) + 1, frames, T, at, at[k + 1])
  <2>1. Len(r) + 1 = k + 1
    BY <1>2, <1>6
  <2>2. QED
    BY <1>2, <2>1, FrameBegins
<1>9. Fresh.pc = "size"
  BY DEF Fresh
<1>10. Len(r) <= Len(frames)
  BY <1>1, <1>2, <1>6
<1>11. QED
  BY <1>5, <1>7, <1>8, <1>9, <1>10 DEF Reading

\* There is something to read only before the end of the last frame.
LEMMA FrameThere ==
  ASSUME NEW frames \in Frames, NEW T \in Seq(Byte), NEW at \in Places(frames),
         Laid(frames, T, at), NEW c \in Nat, c + 1 <= Len(T),
         NEW rd, NEW k \in 1 .. Len(frames) + 1, AtSize(rd, k, frames, T, at, c)
  PROVE  k \in 1 .. Len(frames)
<1>1. PICK n \in Nat : n = Len(frames)
  BY LenProperties DEF Frames
<1>2. CASE k = n + 1
  <2>1. at[k] = Len(T)
    BY <1>1, <1>2 DEF Laid
  <2>2. c = at[k]
    BY <1>1, <1>2 DEF AtSize
  <2>3. Len(T) \in Nat
    BY LenProperties
  <2>4. QED
    BY <2>1, <2>2, <2>3
<1>3. CASE k # n + 1
  BY <1>1, <1>3
<1>4. QED
  BY <1>2, <1>3

\* One turn of ReadUvarint's loop, on the byte b of the size of frame k: x is read.
Taken(rd, rcv, ls, frames, T, at, c, b, k, x) ==
  /\ b \in Byte /\ x \in Word /\ k \in 1 .. Len(frames)
  /\ ~(b < Radix /\ rd.i >= (WordBits - 1) \div DigitBits /\ b > 1)
  /\ Shifted(b % Radix, rd.s) = {(b % Radix) * Power[rd.s]}
  /\ Or[<<rd.x, (b % Radix) * Power[rd.s]>>] = x
  /\ b >= Radix =>
       /\ (rd.s + DigitBits) % Power[ShiftBits] = rd.s + DigitBits
       /\ rd.s + DigitBits \in 0 .. Power[ShiftBits] - 1
       /\ \A next : (/\ next.pc = "size" /\ next.data = <<>>
                     /\ next.x = x /\ next.s = rd.s + DigitBits /\ next.i = rd.i + 1)
                    => Reading(next, rcv, ls, frames, T, at, c + 1)
  /\ b < Radix => x = Len(frames[k]) /\ c + 1 = at[k] + Digits(Len(frames[k]))

\* What ReadUvarint takes is a digit of that size.
LEMMA DigitRead ==
  ASSUME NEW frames \in Frames, NEW T \in Seq(Byte), NEW at \in Places(frames),
         Laid(frames, T, at), NEW c \in Nat, c + 1 <= Len(T), NEW b, b = T[c + 1],
         NEW rcv \in Frames, NEW ls,
         NEW rd \in [pc : {"size", "data", "failed"}, x : Word, s : 0 .. Power[ShiftBits] - 1,
                     i : Nat, left : Word, data : Seq(Byte)],
         rd.pc = "size", Reading(rd, rcv, ls, frames, T, at, c)
  PROVE  Taken(rd, rcv, ls, frames, T, at, c, b, Len(rcv) + 1,
               rd.x + (b % Radix) * Power[rd.s])
<1>1. PICK n \in Nat, l \in Nat : n = Len(frames) /\ l = Len(rcv) /\ l <= n
  BY LenProperties DEF Frames, Reading
<1>2. PICK k \in 1 .. n : k = l + 1 /\ k = Len(rcv) + 1
  <2>1. AtSize(rd, l + 1, frames, T, at, c) /\ l + 1 \in 1 .. n + 1
    BY <1>1 DEF Reading
  <2>2. l + 1 \in 1 .. n
    BY <1>1, <2>1, FrameThere
  <2>3. QED
    BY <1>1, <2>2
<1>3. PICK z \in Word : z = Len(frames[k]) /\ z \in Nat
  BY <1>1, <1>2, Widths DEF Laid
<1>4. rd.data = <<>> /\ \E m \in Word : Sized(rd, z, m, T, c) /\ c + Digits(m) = at[k] + Digits(z)
  <2>1. AtSize(rd, k, frames, T, at, c)
    BY <1>2 DEF Reading
  <2>2. k <= Len(frames)
    BY <1>1
  <2>3. QED
    BY <1>3, <2>1, <2>2 DEF AtSize
<1>5. PICK m \in Word : Sized(rd, z, m, T, c) /\ c + Digits(m) = at[k] + Digits(z)
  BY <1>4
<1>6. m \in Nat /\ rd.x \in Nat /\ rd.s \in Nat /\ rd.i \in Nat
  <2>1. rd.x \in Word /\ rd.s \in 0 .. Power[ShiftBits] - 1 /\ rd.i \in Nat
    OBVIOUS
  <2>2. PICK S \in Nat : S = Power[ShiftBits]
    BY Widths
  <2>3. rd.s \in Nat
    BY <2>1, <2>2
  <2>4. QED
    BY <2>1, <2>3, Widths
<1>7. PICK R \in Nat \ {0} : R = Radix /\ R >= 2
  BY Widths
<1>8. b \in Byte /\ b \in Nat
  <2>1. c + 1 \in 1 .. Len(T)
    BY LenProperties
  <2>2. b \in Byte
    BY <2>1, ElementOfSeq
  <2>3. QED
    BY <2>2, Widths
<1>9. PICK d \in Nat : d = m % Radix /\ d <= m /\ d < R
  <2>1. m % R \in 0 .. R - 1 /\ m \div R \in Nat /\ m = R * (m \div R) + (m % R)
    BY <1>6, <1>7, Division
  <2>2. PICK e \in Nat : e = R * (m \div R)
    BY <1>7, <2>1
  <2>3. m % R \in Nat /\ m % R <= m /\ m % R < R
    BY <2>1, <2>2, <1>6, <1>7
  <2>4. QED
    BY <1>7, <2>3
<1>10. /\ z = rd.x + Power[rd.s] * m /\ rd.x < Power[rd.s] /\ (m = 0 => rd.s = 0)
  BY <1>5 DEF Sized
<1>11. /\ Shifted(d, rd.s) = {d * Power[rd.s]}
       /\ Or[<<rd.x, d * Power[rd.s]>>] = rd.x + d * Power[rd.s]
       /\ rd.x + d * Power[rd.s] \in Word
  <2>1. PICK x \in Nat, s \in Nat : x = rd.x /\ s = rd.s
    BY <1>6
  <2>2. Splits(z, x, s, m) /\ d <= m
    BY <1>9, <1>10, <2>1 DEF Splits
  <2>3. Fits(x, s, d)
    BY <2>2, DigitFits
  <2>4. Fits(rd.x, rd.s, d)
    BY ONLY <2>1, <2>3
  <2>5. QED
    BY ONLY <2>4 DEF Fits
<1>12. CASE m >= Radix
  <2>1. PICK next : /\ next.x = rd.x + (m % Radix) * Power[rd.s]
                    /\ next.s = rd.s + DigitBits /\ next.i = rd.i + 1
    <3>1. PICK u, v, w : /\ u = rd.x + (m % Radix) * Power[rd.s]
                         /\ v = rd.s + DigitBits /\ w = rd.i + 1
      OBVIOUS
    <3>2. /\ [x |-> u, s |-> v, i |-> w].x = u /\ [x |-> u, s |-> v, i |-> w].s = v
          /\ [x |-> u, s |-> v, i |-> w].i = w
      OBVIOUS
    <3>3. QED
      BY <3>1, <3>2
  <2>2. /\ b = d + Radix /\ m \div Radix \in Word
        /\ Digits(m) = Digits(m \div Radix) + 1
        /\ rd.s + DigitBits < Power[ShiftBits]
    <3>1. /\ T[c + 1] = (m % Radix) + Radix /\ m \div Radix \in Word
          /\ Digits(m) = Digits(m \div Radix) + 1 /\ rd.s + DigitBits < Power[ShiftBits]
      BY ONLY z \in Word, m \in Word, T \in Seq(Byte), c \in Nat,
              <1>5, <1>6, <1>12, <2>1, SizeContinues
    <3>2. QED
      BY <1>9, <3>1
  <2>3. b % Radix = d
    <3>1. (d + R) % R = d
      <4>1. d + R = R * 1 + d /\ d + R \in Nat /\ d \in 0 .. R - 1
        BY ONLY <1>7, <1>9
      <4>2. (R * 1 + d) % R = d
        BY <4>1, DivisionUnique
      <4>3. QED
        BY <4>1, <4>2
    <3>2. QED
      BY <1>7, <2>2, <3>1
  <2>4. b >= Radix /\ ~(b < Radix)
    BY <1>7, <1>8, <1>9, <2>2
  <2>5. /\ (rd.s + DigitBits) % Power[ShiftBits] = rd.s + DigitBits
        /\ rd.s + DigitBits \in 0 .. Power[ShiftBits] - 1
    <3>1. PICK S \in Nat \ {0}, t \in Nat : S = Power[ShiftBits] /\ t = rd.s + DigitBits
      <4>1. rd.s + DigitBits \in Nat
        BY ONLY <1>6, Widths
      <4>2. Power[ShiftBits] \in Nat \ {0}
        BY ONLY Widths
      <4>3. QED
        BY ONLY <4>1, <4>2
    <3>2. t < S
      BY <2>2, <3>1
    <3>3. t % S = t /\ t \in 0 .. S - 1
      BY ONLY <3>2, t \in Nat, S \in Nat \ {0}
    <3>4. QED
      BY <3>1, <3>3
  <2>6. ASSUME NEW nx, nx.pc = "size", nx.data = <<>>, nx.x = rd.x + d * Power[rd.s],
               nx.s = rd.s + DigitBits, nx.i = rd.i + 1
        PROVE  Reading(nx, rcv, ls, frames, T, at, c + 1)
    <3>1. Sized(nx, z, m \div Radix, T, c + 1)
      <4>1. nx.x = rd.x + (m % Radix) * Power[rd.s]
        BY <1>9, <2>6
      <4>2. QED
        BY <1>5, <1>6, <1>12, <2>6, <4>1, SizeContinues
    <3>2. (c + 1) + Digits(m \div Radix) = at[k] + Digits(z)
      <4>1. Digits(m \div Radix) \in Nat
        BY <2>2, DigitsType
      <4>2. QED
        BY <1>5, <2>2, <4>1
    <3>3. ~(k > Len(frames))
      BY <1>1
    <3>4. AtSize(nx, k, frames, T, at, c + 1)
      BY <1>3, <2>2, <2>6, <3>1, <3>2, <3>3 DEF AtSize
    <3>5. QED
      BY <1>2, <2>6, <3>4 DEF Reading
  <2>7. QED
    BY <1>1, <1>2, <1>8, <1>11, <2>3, <2>4, <2>5, <2>6 DEF Taken
<1>13. CASE m < Radix
  <2>1. /\ b = m /\ Digits(m) = 1 /\ z = rd.x + m * Power[rd.s]
        /\ ~(rd.i >= (WordBits - 1) \div DigitBits /\ m > 1)
    BY <1>5, <1>6, <1>13, SizeEnds
  <2>2. d = m /\ b % Radix = d
    <3>1. m % R = m
      <4>1. m < R
        BY <1>7, <1>13
      <4>2. QED
        BY ONLY <1>6, <4>1, R \in Nat \ {0}
    <3>2. QED
      BY <1>7, <1>9, <2>1, <3>1
  <2>3. ~(b >= Radix)
    BY <1>6, <1>7, <1>13, <2>1
  <2>4. c + 1 = at[k] + Digits(z)
    BY <1>5, <2>1
  <2>5. QED
    BY <1>1, <1>2, <1>3, <1>8, <1>11, <2>1, <2>2, <2>3, <2>4 DEF Taken
<1>14. QED
  BY <1>6, <1>7, <1>12, <1>13

\* The bytes that recv gives belong to the frame that is read: f is what there is of
\* it then.
Grown(rd, k, frames, at, c, n, f) ==
  /\ f \in Seq(Byte) /\ Len(f) = Len(rd.data) + n
  /\ \A j \in 1 .. Len(f) : f[j] = frames[k][j]
  /\ c + n = at[k] + Digits(Len(frames[k])) + Len(f)
  /\ Len(frames[k]) = Len(f) + (rd.left - n)
  /\ n = rd.left => Len(f) = Len(frames[k]) /\ c + n = at[k + 1]

\* The portions of a frame are put together in their order.
LEMMA PortionRead ==
  ASSUME NEW frames \in Frames, NEW T \in Seq(Byte), NEW at \in Places(frames),
         Laid(frames, T, at), NEW c \in Nat, NEW k \in 1 .. Len(frames),
         NEW rd, rd.data \in Seq(Byte), rd.left \in Nat, AtData(rd, k, frames, at, c),
         NEW str \in Seq(Byte), NEW n \in 1 .. Len(str), n <= rd.left,
         \A j \in 1 .. n : str[j] = T[c + j]
  PROVE  Grown(rd, k, frames, at, c, n, rd.data \o SubSeq(str, 1, n))
<1>1. PICK f : f = rd.data \o SubSeq(str, 1, n)
  OBVIOUS
<1>2. PICK q \in Seq(Byte), l \in Nat, e \in Nat : q = rd.data /\ l = rd.left /\ e = Len(q)
  BY LenProperties
<1>3. PICK z \in Nat, g \in Nat, a \in Nat :
             z = Len(frames[k]) /\ g = Digits(z) /\ a = at[k]
  <2>1. Len(frames[k]) \in Word
    BY DEF Laid
  <2>2. Len(frames[k]) \in Nat /\ Digits(Len(frames[k])) \in Nat
    BY <2>1, DigitsType, Widths
  <2>3. at[k] \in Nat
    <3>1. k \in 1 .. Len(frames) + 1 /\ Len(frames) \in Nat
      BY LenProperties DEF Frames
    <3>2. QED
      BY <3>1 DEF Places
  <2>4. QED
    BY <2>2, <2>3
<1>4. /\ z = e + l /\ c = a + g + e
      /\ \A j \in 1 .. e : q[j] = frames[k][j]
  BY <1>2, <1>3 DEF AtData
<1>5. PICK p \in Seq(Byte) : p = SubSeq(str, 1, n) /\ Len(p) = n /\ \A j \in 1 .. n : p[j] = str[j]
  <2>1. n \in 0 .. Len(str)
    BY LenProperties
  <2>2. QED
    BY <2>1, Portion
<1>6. /\ f \in Seq(Byte) /\ Len(f) = e + n
      /\ \A j \in 1 .. e + n : f[j] = IF j <= e THEN q[j] ELSE p[j - e]
  BY <1>1, <1>2, <1>5, ConcatProperties
<1>7. ASSUME NEW j \in 1 .. e + n PROVE f[j] = frames[k][j]
  <2>1. CASE j <= e
    <3>1. j \in 1 .. e
      BY <2>1
    <3>2. QED
      BY <1>4, <1>6, <2>1, <3>1
  <2>2. CASE ~(j <= e)
    <3>1. PICK i \in 1 .. n : i = j - e /\ j = e + i
      <4>1. n \in Nat /\ j - e \in 1 .. n /\ j = e + (j - e)
        BY <2>2, LenProperties
      <4>2. QED
        BY <4>1
    <3>2. f[j] = T[c + i]
      BY <1>5, <1>6, <2>2, <3>1
    <3>3. c + i = a + g + j /\ j \in 1 .. z
      <4>1. n \in Nat /\ n <= l
        BY <1>2, LenProperties
      <4>2. QED
        BY <1>4, <3>1, <4>1
    <3>4. T[a + g + j] = frames[k][j]
      BY <1>3, <3>3 DEF Laid
    <3>5. QED
      BY <3>2, <3>3, <3>4
  <2>3. QED
    BY <2>1, <2>2
<1>8. n \in Nat /\ n <= l
  BY <1>2, LenProperties
<1>9. c + n = a + g + (e + n) /\ z = (e + n) + (l - n)
  BY <1>4, <1>8
<1>10. ASSUME n = l PROVE e + n = z /\ c + n = at[k + 1]
  <2>1. at[k + 1] = a + g + z
    BY <1>3 DEF Laid
  <2>2. QED
    BY <1>4, <1>10, <2>1
<1>11. Grown(rd, k, frames, at, c, n, f)
  BY <1>2, <1>3, <1>6, <1>7, <1>9, <1>10 DEF Grown
<1>12. QED
  BY <1>1, <1>11

-------------------------------------------------------------------------------
(* The steps.                                                              *)

\* RecvFrame begins with a reader of its type.
LEMMA FreshType ==
  Fresh \in [pc : {"size", "data", "failed"}, x : Word, s : 0 .. Power[ShiftBits] - 1,
             i : Nat, left : Word, data : Seq(Byte)]
<1>1. 0 \in Word /\ 0 \in 0 .. Power[ShiftBits] - 1
  <2>1. PICK W \in Nat \ {0}, S \in Nat \ {0} : W = Power[WordBits] /\ S = Power[ShiftBits]
    BY Widths
  <2>2. 0 \in 0 .. W - 1 /\ 0 \in 0 .. S - 1
    OBVIOUS
  <2>3. QED
    BY <2>1, <2>2 DEF Word
<1>2. QED
  BY <1>1, EmptySeq DEF Fresh

\* Nothing is sent at first.
LEMMA InitInv == Init => IInv
<1> SUFFICES ASSUME Init PROVE IInv
  OBVIOUS
<1>1. /\ sent = <<>> /\ received = <<>> /\ writing = <<>> /\ stream = <<>> /\ lost = FALSE
      /\ reader = Fresh
  BY DEF Init
<1>2. <<>> \in Frames /\ <<>> \in Seq(Byte) /\ Len(<<>>) = 0
  BY EmptySeq DEF Frames
<1>3. Fresh \in [pc : {"size", "data", "failed"}, x : Word, s : 0 .. Power[ShiftBits] - 1,
                 i : Nat, left : Word, data : Seq(Byte)]
  BY FreshType
<1>4. TypeOK
  <2>1. 0 <= Capacity
    BY Widths
  <2>2. QED
    BY <1>1, <1>2, <1>3, <2>1 DEF TypeOK, Frames
<1>5. PICK at \in Places(<<>>) : at = [k \in 1 .. 0 + 1 |-> 0]
  BY <1>2 DEF Places
<1>6. at[1] = 0
  BY <1>5
<1>7. Laid(<<>>, <<>>, at)
  <2>1. 0 + 1 = 1 /\ 1 .. 0 = {}
    OBVIOUS
  <2>2. QED
    BY <1>2, <1>6, <2>1 DEF Laid
<1>8. Transit(<<>>, <<>>, FALSE, <<>>, 0)
  <2>1. 0 + 0 <= 0 /\ 0 + 0 + 0 = 0 /\ 1 .. 0 = {}
    OBVIOUS
  <2>2. QED
    BY <1>2, <2>1 DEF Transit
<1>9. Reading(Fresh, <<>>, FALSE, <<>>, <<>>, at, 0)
  <2>1. Len(<<>>) + 1 = 1 /\ 1 \in 1 .. Len(<<>>) + 1 /\ 1 .. Len(<<>>) = {} /\ Len(<<>>) <= Len(<<>>)
    BY <1>2
  <2>2. AtSize(Fresh, 1, <<>>, <<>>, at, at[1])
    BY <1>2, <1>7, <2>1, FrameBegins
  <2>3. Fresh.pc = "size"
    BY DEF Fresh
  <2>4. QED
    BY <1>6, <2>1, <2>2, <2>3 DEF Reading
<1>10. QED
  BY <1>1, <1>2, <1>4, <1>7, <1>8, <1>9 DEF IInv, Bytes, Places

\* SendFrame: the frame is laid behind the others and waits to be written.
LEMMA SendInv == IInv /\ Send => IInv'
<1> SUFFICES ASSUME IInv, NEW f \in FramesToSend, SendFrame(f)
             PROVE  IInv'
  BY DEF Send
<1>1. TypeOK /\ sent \in Frames /\ stream \in Seq(Byte)
  BY DEF IInv, TypeOK, Frames
<1>2. PICK T \in Seq(Byte), at \in Places(sent), c \in Nat : Bytes(T, at, c)
  BY DEF IInv, Places
<1>3. PICK size \in Word : size = Len(f)
  BY WidthAssumption
<1>4. f \in Seq(Byte) /\ Len(f) = size /\ size \in Nat
  BY <1>3, WidthAssumption, Widths
<1>5. PICK p : p = Written(f)
  OBVIOUS
<1>6. PICK U : U = T \o p
  OBVIOUS
<1>7. PICK more : more = Append(sent, f)
  OBVIOUS
<1>8. PICK up : up = Behind(sent, at, Len(U))
  OBVIOUS
<1>9. LaidBehind(sent, T, at, f, more, U, up)
  <2>1. Laid(sent, T, at)
    BY <1>2 DEF Bytes
  <2>2. QED
    BY <1>1, <1>3, <1>4, <1>5, <1>6, <1>7, <1>8, <2>1, LaidMore
<1>10. /\ more \in Frames /\ U \in Seq(Byte) /\ up \in Places(more) /\ Laid(more, U, up)
       /\ Len(T) <= Len(U) /\ \A j \in 1 .. Len(T) : U[j] = T[j]
       /\ Len(p) = Len(U) - Len(T)
       /\ \A j \in 1 .. Len(U) - Len(T) : p[j] = U[Len(T) + j]
  BY <1>5, <1>9 DEF LaidBehind
<1>11. /\ sent' = more /\ writing' = p /\ writing = <<>> /\ ~lost
       /\ stream' = stream /\ lost' = lost /\ reader' = reader /\ received' = received
  BY <1>5, <1>7 DEF SendFrame, putUvarint, Written
<1>12. p \in Seq(Byte)
  BY <1>3, <1>4, <1>5, PutType, ConcatProperties DEF Written
<1>13. TypeOK'
  BY <1>1, <1>10, <1>11, <1>12 DEF TypeOK, Frames
<1>14. Transit(stream, p, lost, U, c)
  <2>1. /\ c + Len(stream) + 0 = Len(T) /\ \A j \in 1 .. Len(stream) : stream[j] = T[c + j]
    BY <1>2, <1>11, EmptySeq DEF Bytes, Transit
  <2>2. PICK x \in Nat, t \in Nat, u \in Nat : x = Len(stream) /\ t = Len(T) /\ u = Len(U)
    BY <1>1, <1>10, LenProperties
  <2>3. c + x = t /\ t <= u /\ Len(p) = u - t
    BY <1>10, <2>1, <2>2
  <2>4. ASSUME NEW j \in 1 .. x PROVE stream[j] = U[c + j]
    <3>1. c + j \in 1 .. t
      BY <2>3
    <3>2. QED
      BY <1>10, <2>1, <2>2, <3>1
  <2>5. ASSUME NEW j \in 1 .. Len(p) PROVE p[j] = U[c + x + j]
    BY <1>10, <2>2, <2>3
  <2>6. c + x <= u /\ c + x + Len(p) = u
    BY <2>3
  <2>7. QED
    BY <1>11, <2>2, <2>4, <2>5, <2>6 DEF Transit
<1>15. Reading(reader, received, lost, more, U, up, c)
  <2>1. Laid(sent, T, at) /\ Reading(reader, received, lost, sent, T, at, c)
    BY <1>2 DEF Bytes
  <2>2. received \in Frames
    BY <1>1 DEF TypeOK, Frames
  <2>3. QED
    BY ONLY T \in Seq(Byte), at \in Places(sent), c \in Nat,
            <1>1, <1>4, <1>9, <2>1, <2>2, ReadingMore
<1>16. Bytes(U, up, c)'
  BY <1>10, <1>11, <1>14, <1>15 DEF Bytes
<1>17. QED
  BY <1>10, <1>11, <1>13, <1>16 DEF IInv, Places

\* Write: some of the bytes that wait are in transit.
LEMMA WriteInv == IInv /\ Write => IInv'
<1> SUFFICES ASSUME IInv, Write PROVE IInv'
  OBVIOUS
<1>1. TypeOK
  BY DEF IInv
<1>2. PICK T \in Seq(Byte), at \in Places(sent), c \in Nat : Bytes(T, at, c)
  BY DEF IInv, Places
<1>3. stream \in Seq(Byte) /\ writing \in Seq(Byte)
  BY <1>1 DEF TypeOK
<1>4. PICK n \in 1 .. Len(writing) :
             /\ Len(stream) + n <= Capacity
             /\ stream' = stream \o SubSeq(writing, 1, n)
             /\ writing' = SubSeq(writing, n + 1, Len(writing))
  BY DEF Write
<1>5. ~lost /\ sent' = sent /\ lost' = lost /\ reader' = reader /\ received' = received
  BY DEF Write
<1>6. lost = FALSE
  BY <1>1, <1>5 DEF TypeOK
<1>7. Transit(stream, writing, FALSE, T, c)
  BY <1>2, <1>6 DEF Bytes
<1>8. /\ stream' \in Seq(Byte) /\ writing' \in Seq(Byte) /\ Len(stream') = Len(stream) + n
      /\ Transit(stream', writing', FALSE, T, c)
  <2>1. PICK str, wr : /\ str = stream \o SubSeq(writing, 1, n)
                       /\ wr = SubSeq(writing, n + 1, Len(writing))
    OBVIOUS
  <2>2. str \in Seq(Byte) /\ wr \in Seq(Byte) /\ Len(str) = Len(stream) + n
    BY <1>3, <1>7, <2>1, MoreWritten
  <2>3. Transit(str, wr, FALSE, T, c)
    BY <1>3, <1>7, <2>1, MoreWritten
  <2>4. QED
    BY <1>4, <2>1, <2>2, <2>3
<1>9. TypeOK'
  BY <1>1, <1>4, <1>5, <1>8 DEF TypeOK
<1>10. Transit(stream', writing', lost', T, c)
  BY <1>5, <1>6, <1>8
<1>11. Bytes(T, at, c)'
  BY <1>2, <1>5, <1>10 DEF Bytes
<1>12. QED
  BY <1>5, <1>9, <1>11 DEF IInv, Places

\* Lose: what is in transit is cut off, and nothing waits.
LEMMA LoseInv == IInv /\ Lose => IInv'
<1> SUFFICES ASSUME IInv, Lose PROVE IInv'
  OBVIOUS
<1>1. TypeOK
  BY DEF IInv
<1>2. PICK T \in Seq(Byte), at \in Places(sent), c \in Nat : Bytes(T, at, c)
  BY DEF IInv, Places
<1>3. PICK n \in 0 .. Len(stream) : stream' = SubSeq(stream, 1, n)
  BY DEF Lose
<1>4. /\ lost' = TRUE /\ writing' = <<>> /\ sent' = sent /\ reader' = reader
      /\ received' = received
  BY DEF Lose
<1>5. stream' \in Seq(Byte) /\ Len(stream') <= Len(stream) /\ Len(stream') \in Nat
  <2>1. stream \in Seq(Byte)
    BY <1>1 DEF TypeOK
  <2>2. stream' \in Seq(Byte) /\ Len(stream') = n
    BY <1>3, <2>1, Portion
  <2>3. Len(stream) \in Nat
    BY <2>1, LenProperties
  <2>4. QED
    BY <2>2, <2>3
<1>6. TypeOK'
  <2>1. <<>> \in Seq(Byte)
    BY EmptySeq
  <2>2. Len(stream') <= Capacity
    <3>1. Len(stream) \in Nat /\ Len(stream) <= Capacity /\ Capacity \in Nat
      BY <1>1, LenProperties, Widths DEF TypeOK
    <3>2. QED
      BY <1>5, <3>1
  <2>3. QED
    BY <1>1, <1>4, <1>5, <2>1, <2>2 DEF TypeOK
<1>7. Transit(stream', writing', lost', T, c)
  <2>1. Transit(stream, writing, lost, T, c) /\ stream \in Seq(Byte)
    BY <1>1, <1>2 DEF Bytes, TypeOK
  <2>2. Transit(SubSeq(stream, 1, n), <<>>, TRUE, T, c)
    BY <2>1, CutOff
  <2>3. QED
    BY <1>3, <1>4, <2>2
<1>8. Reading(reader, received, lost', sent, T, at, c)
  BY <1>2, <1>4 DEF Bytes, Reading
<1>9. Bytes(T, at, c)'
  BY <1>2, <1>4, <1>7, <1>8 DEF Bytes
<1>10. QED
  BY <1>4, <1>6, <1>9 DEF IInv, Places

\* The reader and the stream after bytes are read.
LEMMA ReadSuffices ==
  ASSUME TypeOK, NEW T \in Seq(Byte), NEW at \in Places(sent), NEW c \in Nat, Bytes(T, at, c),
         NEW n \in 1 .. Len(stream), stream' = SubSeq(stream, n + 1, Len(stream)),
         sent' = sent, writing' = writing, lost' = lost,
         reader' \in [pc : {"size", "data", "failed"}, x : Word, s : 0 .. Power[ShiftBits] - 1,
                      i : Nat, left : Word, data : Seq(Byte)],
         received' \in Frames, Reading(reader', received', lost, sent, T, at, c + n)
  PROVE  IInv'
<1>1. stream \in Seq(Byte) /\ writing \in Seq(Byte) /\ lost \in BOOLEAN
  BY DEF TypeOK
<1>2. Transit(stream, writing, lost, T, c)
  BY DEF Bytes
<1>3. /\ c + n \in Nat /\ stream' \in Seq(Byte) /\ Len(stream') <= Len(stream)
      /\ Transit(stream', writing, lost, T, c + n)
  <2>1. PICK str : str = SubSeq(stream, n + 1, Len(stream))
    OBVIOUS
  <2>2. c + n \in Nat /\ str \in Seq(Byte) /\ Len(str) <= Len(stream)
    BY <1>1, <1>2, <2>1, TakenOff
  <2>3. Transit(str, writing, lost, T, c + n)
    BY <1>1, <1>2, <2>1, TakenOff
  <2>4. QED
    BY <2>1, <2>2, <2>3
<1>4. Len(stream') <= Capacity
  <2>1. Len(stream) \in Nat /\ Len(stream') \in Nat /\ Len(stream) <= Capacity /\ Capacity \in Nat
    BY <1>1, <1>3, LenProperties, Widths DEF TypeOK
  <2>2. QED
    BY <1>3, <2>1
<1>5. TypeOK'
  BY <1>3, <1>4 DEF TypeOK, Frames
<1>6. Bytes(T, at, c + n)'
  BY <1>3 DEF Bytes
<1>7. QED
  BY <1>3, <1>5, <1>6 DEF IInv, Places

\* ReadUvarint: a digit with its mark goes into the size, the last one ends it.
LEMMA ReadUvarintInv == IInv /\ ReadUvarint => IInv'
<1> SUFFICES ASSUME IInv, ReadUvarint PROVE IInv'
  OBVIOUS
<1>1. TypeOK
  BY DEF IInv
<1>2. PICK T \in Seq(Byte), at \in Places(sent), c \in Nat : Bytes(T, at, c)
  BY DEF IInv, Places
<1>3. /\ stream \in Seq(Byte) /\ writing \in Seq(Byte) /\ lost \in BOOLEAN
      /\ sent \in Frames /\ received \in Frames
  BY <1>1 DEF TypeOK, Frames
<1>4. reader \in [pc : {"size", "data", "failed"}, x : Word, s : 0 .. Power[ShiftBits] - 1,
                  i : Nat, left : Word, data : Seq(Byte)]
  BY <1>1 DEF TypeOK
<1>5. /\ Laid(sent, T, at) /\ Transit(stream, writing, lost, T, c)
      /\ Reading(reader, received, lost, sent, T, at, c)
  BY <1>2 DEF Bytes
<1>6. /\ reader.pc = "size" /\ stream # <<>> /\ stream' = Tail(stream)
      /\ sent' = sent /\ writing' = writing /\ lost' = lost
  BY DEF ReadUvarint
<1>7. /\ 1 \in 1 .. Len(stream)
      /\ Head(stream) = stream[1] /\ Tail(stream) = SubSeq(stream, 1 + 1, Len(stream))
  <2>1. Len(stream) \in Nat /\ Len(stream) # 0
    BY <1>3, <1>6, LenProperties, EmptySeq
  <2>2. QED
    BY <1>3, <1>6, <2>1, HeadTailProperties, TailIsSubSeq
<1>8. PICK b : b = Head(stream) /\ b = T[c + 1]
  <2>1. /\ stream \in Seq(Byte) /\ writing \in Seq(Byte) /\ lost \in BOOLEAN
        /\ Transit(stream, writing, lost, T, c) /\ 1 \in 1 .. Len(stream) /\ 1 \in 1 .. 1
    BY <1>3, <1>5, <1>7
  <2>2. \A j \in 1 .. 1 : stream[j] = T[c + j]
    BY <2>1, TakenOff, SMTT(30)
  <2>3. stream[1] = T[c + 1]
    BY <2>1, <2>2, Zenon
  <2>4. QED
    BY <1>7, <2>3, Zenon
<1>9. c + 1 <= Len(T)
  BY <1>3, <1>5, <1>7, TakenOff
<1>10. PICK k : k = Len(received) + 1
  OBVIOUS
<1>11. PICK x : x = reader.x + (b % Radix) * Power[reader.s]
  OBVIOUS
<1>12. Taken(reader, received, lost, sent, T, at, c, b, k, x)
  BY <1>3, <1>4, <1>5, <1>6, <1>8, <1>9, <1>10, <1>11, DigitRead
<1>13. /\ b \in Byte /\ x \in Word /\ k \in 1 .. Len(sent)
       /\ ~(b < Radix /\ reader.i >= (WordBits - 1) \div DigitBits /\ b > 1)
       /\ Shifted(b % Radix, reader.s) = {(b % Radix) * Power[reader.s]}
       /\ Or[<<reader.x, (b % Radix) * Power[reader.s]>>] = x
       /\ b >= Radix =>
            /\ (reader.s + DigitBits) % Power[ShiftBits] = reader.s + DigitBits
            /\ reader.s + DigitBits \in 0 .. Power[ShiftBits] - 1
            /\ \A next : (/\ next.pc = "size" /\ next.data = <<>>
                          /\ next.x = x /\ next.s = reader.s + DigitBits /\ next.i = reader.i + 1)
                         => Reading(next, received, lost, sent, T, at, c + 1)
       /\ b < Radix => x = Len(sent[k]) /\ c + 1 = at[k] + Digits(Len(sent[k]))
  BY <1>12 DEF Taken
<1>14. IF b >= Radix
       THEN /\ reader' = [reader EXCEPT !.x = x, !.i = @ + 1,
                                        !.s = (@ + DigitBits) % Power[ShiftBits]]
            /\ received' = received
       ELSE IF x = 0 THEN Returns(<<>>)
       ELSE reader' = [reader EXCEPT !.pc = "data", !.left = x] /\ received' = received
  BY <1>8, <1>13 DEF ReadUvarint
<1>15. AtSize(reader, k, sent, T, at, c)
  BY <1>5, <1>6, <1>10 DEF Reading
<1>16. reader.data = <<>>
  BY <1>15 DEF AtSize
<1>17. b \in Nat /\ Radix \in Nat
  BY <1>13, Widths
<1>18. /\ reader' \in [pc : {"size", "data", "failed"}, x : Word, s : 0 .. Power[ShiftBits] - 1,
                       i : Nat, left : Word, data : Seq(Byte)]
       /\ received' \in Frames /\ Reading(reader', received', lost, sent, T, at, c + 1)
  <2>1. CASE b >= Radix
    <3>1. /\ reader' = [reader EXCEPT !.x = x, !.i = @ + 1,
                                      !.s = (@ + DigitBits) % Power[ShiftBits]]
          /\ received' = received
      BY <1>14, <2>1
    <3>2. reader' = [reader EXCEPT !.x = x, !.i = reader.i + 1, !.s = reader.s + DigitBits]
      BY <1>13, <2>1, <3>1
    <3>3. /\ reader'.pc = "size" /\ reader'.data = <<>> /\ reader'.x = x
          /\ reader'.s = reader.s + DigitBits /\ reader'.i = reader.i + 1
      BY <1>4, <1>6, <1>16, <3>2
    <3>4. Reading(reader', received, lost, sent, T, at, c + 1)
      BY <1>13, <2>1, <3>3
    <3>5. reader.i + 1 \in Nat /\ x \in Word /\ reader.s + DigitBits \in 0 .. Power[ShiftBits] - 1
      BY <1>4, <1>13, <2>1
    <3>6. reader' \in [pc : {"size", "data", "failed"}, x : Word, s : 0 .. Power[ShiftBits] - 1,
                       i : Nat, left : Word, data : Seq(Byte)]
      BY <1>4, <3>2, <3>5
    <3>7. QED
      BY <1>3, <3>1, <3>4, <3>6
  <2>2. CASE b < Radix /\ x = 0
    <3>1. reader' = Fresh /\ received' = Append(received, <<>>)
      BY <1>14, <1>17, <2>2 DEF Returns
    <3>2. c + 1 = at[k + 1] /\ Len(sent[k]) = 0
      <4>1. Len(sent[k]) = 0 /\ c + 1 = at[k] + Digits(Len(sent[k]))
        BY <1>13, <2>2
      <4>2. at[k + 1] = at[k] + Digits(Len(sent[k])) + Len(sent[k])
        BY <1>5, <1>13 DEF Laid
      <4>3. QED
        BY <4>1, <4>2
    <3>3. /\ Append(received, <<>>) \in Frames
          /\ Reading(Fresh, Append(received, <<>>), lost, sent, T, at, at[k + 1])
      <4>1. <<>> \in Seq(Byte) /\ Len(<<>>) = Len(sent[k]) /\ 1 .. Len(<<>>) = {}
        BY <3>2, EmptySeq
      <4>2. /\ Len(received) <= Len(sent) /\ (\A i \in 1 .. Len(received) : received[i] = sent[i])
            /\ k <= Len(sent)
        BY <1>5, <1>13 DEF Reading
      <4>3. QED
        BY <1>3, <1>5, <1>10, <4>1, <4>2, Returned
    <3>4. Fresh \in [pc : {"size", "data", "failed"}, x : Word, s : 0 .. Power[ShiftBits] - 1,
                     i : Nat, left : Word, data : Seq(Byte)]
      BY FreshType
    <3>5. QED
      BY <3>1, <3>2, <3>3, <3>4
  <2>3. CASE b < Radix /\ x # 0
    <3>1. reader' = [reader EXCEPT !.pc = "data", !.left = x] /\ received' = received
      BY <1>14, <1>17, <2>3
    <3>2. /\ reader' \in [pc : {"size", "data", "failed"}, x : Word, s : 0 .. Power[ShiftBits] - 1,
                          i : Nat, left : Word, data : Seq(Byte)]
          /\ reader'.pc = "data" /\ reader'.left = x /\ reader'.data = <<>>
      BY <1>4, <1>13, <1>16, <3>1
    <3>3. x = Len(sent[k]) /\ c + 1 = at[k] + Digits(Len(sent[k])) /\ k <= Len(sent)
      BY <1>13, <2>3
    <3>4. AtData(reader', k, sent, at, c + 1)
      <4>1. Len(<<>>) = 0 /\ 1 .. 0 = {} /\ x \in Nat /\ x = 0 + x
        BY <1>13, Widths
      <4>2. c + 1 = at[k] + Digits(Len(sent[k])) + 0
        BY <3>3
      <4>3. QED
        BY <2>3, <3>2, <3>3, <4>1, <4>2 DEF AtData
    <3>5. Reading(reader', received', lost, sent, T, at, c + 1)
      BY <1>5, <1>10, <3>1, <3>2, <3>4 DEF Reading
    <3>6. QED
      BY <1>3, <3>1, <3>2, <3>5
  <2>4. QED
    BY <1>17, <2>1, <2>2, <2>3
<1>19. QED
  BY <1>1, <1>2, <1>6, <1>7, <1>18, ReadSuffices

\* Read: the bytes go to the frame, and the last of them returns it.
LEMMA ReadInv == IInv /\ Read => IInv'
<1> SUFFICES ASSUME IInv, Read PROVE IInv'
  OBVIOUS
<1>1. TypeOK
  BY DEF IInv
<1>2. PICK T \in Seq(Byte), at \in Places(sent), c \in Nat : Bytes(T, at, c)
  BY DEF IInv, Places
<1>3. /\ stream \in Seq(Byte) /\ writing \in Seq(Byte) /\ lost \in BOOLEAN
      /\ sent \in Frames /\ received \in Frames
      /\ reader.data \in Seq(Byte) /\ reader.left \in Word /\ reader.left \in Nat
  BY <1>1, Widths DEF TypeOK, Frames
<1>4. reader \in [pc : {"size", "data", "failed"}, x : Word, s : 0 .. Power[ShiftBits] - 1,
                  i : Nat, left : Word, data : Seq(Byte)]
  BY <1>1 DEF TypeOK
<1>5. /\ Laid(sent, T, at) /\ Transit(stream, writing, lost, T, c)
      /\ Reading(reader, received, lost, sent, T, at, c)
  BY <1>2 DEF Bytes
<1>6. PICK n \in 1 .. Len(stream) :
             \E f : /\ f = reader.data \o SubSeq(stream, 1, n)
                    /\ n <= reader.left
                    /\ stream' = SubSeq(stream, n + 1, Len(stream))
                    /\ IF n = reader.left THEN Returns(f)
                       ELSE /\ reader' = [reader EXCEPT !.data = f, !.left = @ - n]
                            /\ UNCHANGED received
  BY DEF Read
<1>7. PICK f : /\ f = reader.data \o SubSeq(stream, 1, n)
             /\ n <= reader.left
             /\ stream' = SubSeq(stream, n + 1, Len(stream))
             /\ IF n = reader.left THEN Returns(f)
                ELSE /\ reader' = [reader EXCEPT !.data = f, !.left = @ - n]
                     /\ UNCHANGED received
  BY <1>6
<1>8. reader.pc = "data" /\ sent' = sent /\ writing' = writing /\ lost' = lost
  BY DEF Read
<1>9. PICK k \in 1 .. Len(sent) : k = Len(received) + 1 /\ AtData(reader, k, sent, at, c)
  <2>1. AtData(reader, Len(received) + 1, sent, at, c)
    BY <1>5, <1>8 DEF Reading
  <2>2. Len(received) \in Nat /\ Len(sent) \in Nat
    BY <1>3, LenProperties DEF Frames
  <2>3. Len(received) + 1 \in 1 .. Len(sent)
    BY <2>1, <2>2 DEF AtData
  <2>4. QED
    BY <2>1, <2>3
<1>10. \A j \in 1 .. n : stream[j] = T[c + j]
  BY <1>3, <1>5, TakenOff
<1>11. /\ f \in Seq(Byte) /\ Len(f) = Len(reader.data) + n
       /\ \A j \in 1 .. Len(f) : f[j] = sent[k][j]
       /\ c + n = at[k] + Digits(Len(sent[k])) + Len(f)
       /\ Len(sent[k]) = Len(f) + (reader.left - n)
       /\ n = reader.left => Len(f) = Len(sent[k]) /\ c + n = at[k + 1]
  <2>1. Grown(reader, k, sent, at, c, n, f)
    BY <1>3, <1>5, <1>7, <1>9, <1>10, PortionRead
  <2>2. QED
    BY <2>1 DEF Grown
<1>12. /\ Len(received) <= Len(sent) /\ (\A i \in 1 .. Len(received) : received[i] = sent[i])
       /\ k <= Len(sent)
  BY <1>5, <1>9 DEF Reading, AtData
<1>13. /\ reader' \in [pc : {"size", "data", "failed"}, x : Word, s : 0 .. Power[ShiftBits] - 1,
                       i : Nat, left : Word, data : Seq(Byte)]
       /\ received' \in Frames /\ Reading(reader', received', lost, sent, T, at, c + n)
  <2>1. CASE n = reader.left
    <3>1. reader' = Fresh /\ received' = Append(received, f)
      BY <1>7, <2>1 DEF Returns
    <3>2. Append(received, f) \in Frames /\ Reading(Fresh, Append(received, f), lost, sent, T, at, at[k + 1])
      BY <1>3, <1>5, <1>9, <1>11, <1>12, <2>1, Returned
    <3>3. QED
      BY <1>11, <2>1, <3>1, <3>2, FreshType
  <2>2. CASE n # reader.left
    <3>1. reader' = [reader EXCEPT !.data = f, !.left = reader.left - n] /\ received' = received
      BY <1>7, <2>2
    <3>2. reader.left - n \in Word /\ reader.left - n # 0
      <4>1. n \in Nat /\ n <= reader.left /\ reader.left \in Nat
        BY <1>3, <1>7, LenProperties
      <4>2. PICK W \in Nat \ {0} : W = Power[WordBits]
        BY Widths
      <4>3. reader.left \in 0 .. W - 1
        BY <1>3, <4>2 DEF Word
      <4>4. reader.left - n \in 0 .. W - 1 /\ reader.left - n # 0
        BY <2>2, <4>1, <4>3
      <4>5. QED
        BY <4>2, <4>4 DEF Word
    <3>3. /\ reader' \in [pc : {"size", "data", "failed"}, x : Word, s : 0 .. Power[ShiftBits] - 1,
                          i : Nat, left : Word, data : Seq(Byte)]
          /\ reader'.pc = "data" /\ reader'.data = f /\ reader'.left = reader.left - n
      BY <1>4, <1>8, <1>11, <3>1, <3>2
    <3>4. AtData(reader', k, sent, at, c + n)
      BY <1>11, <1>12, <3>2, <3>3 DEF AtData
    <3>5. Reading(reader', received', lost, sent, T, at, c + n)
      BY <1>9, <1>12, <3>1, <3>3, <3>4 DEF Reading
    <3>6. QED
      BY <1>3, <3>1, <3>3, <3>5
  <2>3. QED
    BY <2>1, <2>2
<1>14. QED
  BY <1>1, <1>2, <1>7, <1>8, <1>13, ReadSuffices

\* The connection is closed: nothing of the frame is kept.
LEMMA ReadFailsInv == IInv /\ ReadFails => IInv'
<1> SUFFICES ASSUME IInv, ReadFails PROVE IInv'
  OBVIOUS
<1>1. TypeOK
  BY DEF IInv
<1>2. PICK T \in Seq(Byte), at \in Places(sent), c \in Nat : Bytes(T, at, c)
  BY DEF IInv, Places
<1>3. reader' = [reader EXCEPT !.pc = "failed", !.data = <<>>] /\ lost
  BY DEF ReadFails
<1>4. sent' = sent /\ writing' = writing /\ stream' = stream /\ lost' = lost /\ received' = received
  BY DEF ReadFails
<1>5. reader \in [pc : {"size", "data", "failed"}, x : Word, s : 0 .. Power[ShiftBits] - 1,
                  i : Nat, left : Word, data : Seq(Byte)]
  BY <1>1 DEF TypeOK
<1>6. /\ reader' \in [pc : {"size", "data", "failed"}, x : Word, s : 0 .. Power[ShiftBits] - 1,
                      i : Nat, left : Word, data : Seq(Byte)]
      /\ reader'.pc = "failed"
  BY <1>3, <1>5, EmptySeq
<1>7. TypeOK'
  BY <1>1, <1>4, <1>6 DEF TypeOK
<1>8. Reading(reader', received, lost, sent, T, at, c)
  BY <1>2, <1>3, <1>6 DEF Bytes, Reading
<1>9. Bytes(T, at, c)'
  BY <1>2, <1>4, <1>8 DEF Bytes
<1>10. QED
  BY <1>4, <1>7, <1>9 DEF IInv, Places

\* Every step keeps the invariant.
LEMMA NextInv == IInv /\ [Next]_vars => IInv'
<1> SUFFICES ASSUME IInv, [Next]_vars PROVE IInv'
  OBVIOUS
<1>1. CASE Send
  BY <1>1, SendInv
<1>2. CASE Write
  BY <1>2, WriteInv
<1>3. CASE Lose
  BY <1>3, LoseInv
<1>4. CASE ReadUvarint
  BY <1>4, ReadUvarintInv
<1>5. CASE Read
  BY <1>5, ReadInv
<1>6. CASE ReadFails
  BY <1>6, ReadFailsInv
<1>7. CASE UNCHANGED vars
  BY <1>7 DEF vars, IInv, TypeOK, Bytes
<1>8. QED
  BY <1>1, <1>2, <1>3, <1>4, <1>5, <1>6, <1>7 DEF Next, RecvFrame

\* A sequence that agrees with another one as far as it goes is a prefix of it.
LEMMA PrefixOf ==
  ASSUME NEW S, NEW p \in Seq(S), NEW q \in Seq(S),
         Len(p) <= Len(q), \A i \in 1 .. Len(p) : p[i] = q[i]
  PROVE  IsPrefix(p, q)
<1>1. PICK n \in Nat, m \in Nat : n = Len(p) /\ m = Len(q) /\ n <= m
  BY LenProperties
<1>2. \A i \in 1 .. n : p[i] \in S /\ q[i] \in S
  <2>1. \A i \in 1 .. n : i \in 1 .. m
    BY <1>1
  <2>2. QED
    BY <1>1, <2>1, ElementOfSeq
<1>3. ASSUME NEW r \in Seq(S), NEW u, u = SubSeq(r, 1, n), \A i \in 1 .. n : r[i] \in S
      PROVE  u \in Seq(S) /\ Len(u) = n /\ \A i \in 1 .. n : u[i] = r[i]
  <2>1. 1 \in Int /\ n \in Int
    OBVIOUS
  <2>2. /\ u \in Seq(S) /\ Len(u) = IF 1 <= n THEN n - 1 + 1 ELSE 0
        /\ \A i \in 1 .. n - 1 + 1 : u[i] = r[1 + i - 1]
    BY <1>3, <2>1, SubSeqProperties
  <2>3. n - 1 + 1 = n /\ (~(1 <= n) => n = 0) /\ \A i \in 1 .. n : 1 + i - 1 = i
    OBVIOUS
  <2>4. QED
    BY <2>2, <2>3
<1>4. PICK u : u = SubSeq(p, 1, n)
  OBVIOUS
<1>5. PICK v : v = SubSeq(q, 1, n)
  OBVIOUS
<1>6. /\ u \in Seq(S) /\ Len(u) = n /\ \A i \in 1 .. n : u[i] = p[i]
      /\ v \in Seq(S) /\ Len(v) = n /\ \A i \in 1 .. n : v[i] = q[i]
  BY <1>2, <1>3, <1>4, <1>5
<1>7. \A i \in 1 .. Len(u) : u[i] = v[i]
  BY <1>1, <1>6
<1>8. u = v
  BY <1>6, <1>7, SeqEqual
<1>9. QED
  BY <1>1, <1>4, <1>5, <1>8 DEF IsPrefix

\* The frames that arrived, one by one; RecvFrame fails for a lost connection only.
Arrived ==
  /\ sent \in Frames /\ received \in Frames
  /\ Len(received) <= Len(sent) /\ \A i \in 1 .. Len(received) : received[i] = sent[i]
  /\ reader.pc = "failed" => lost

\* What a state of the invariant says of the frames that arrived.
LEMMA InvArrived == IInv => Arrived
<1> SUFFICES ASSUME IInv PROVE Arrived
  OBVIOUS
<1>1. PICK T \in Seq(Byte), at \in Places(sent), c \in Nat : Bytes(T, at, c)
  BY DEF IInv, Places
<1>2. sent \in Frames /\ received \in Frames
  BY DEF IInv, TypeOK, Frames
<1>3. /\ Len(received) <= Len(sent) /\ (\A i \in 1 .. Len(received) : received[i] = sent[i])
      /\ reader.pc = "failed" => lost
  BY <1>1 DEF Bytes, Reading
<1>4. QED
  BY <1>2, <1>3 DEF Arrived

LEMMA InvFrames == IInv => FramesWhole
BY InvArrived, PrefixOf DEF Arrived, Frames, FramesWhole

-------------------------------------------------------------------------------
(* The abstract channel.                                                   *)

\* A frame that is returned is the next one that was sent.
LEMMA ReturnsNext ==
  ASSUME Arrived, Arrived', NEW frame, received' = Append(received, frame), sent' = sent
  PROVE  /\ Len(received) < Len(sent)
         /\ received' = Append(received, sent[Len(received) + 1])
<1>1. PICK n \in Nat, m \in Nat : n = Len(received) /\ m = Len(sent)
  BY LenProperties DEF Arrived, Frames
<1>2. Len(received') = n + 1 /\ received'[n + 1] = frame
  <2>1. received \in Seq(Seq(Byte) \cup {frame})
    BY LenProperties, SeqDef DEF Arrived, Frames
  <2>2. QED
    BY <1>1, <2>1, AppendProperties
<1>3. n + 1 <= m
  BY <1>1, <1>2 DEF Arrived
<1>4. frame = sent[n + 1]
  BY <1>1, <1>2 DEF Arrived
<1>5. QED
  BY <1>1, <1>3, <1>4

\* A step in which RecvFrame returns is Receive, one in which it fails is Fail, and
\* any other step of it is not seen.
LEMMA RecvRefines ==
  ASSUME Arrived, Arrived', RecvFrame
  PROVE  Channel!Receive \/ Channel!Fail \/ UNCHANGED Channel!vars
<1>1. sent' = sent /\ lost' = lost /\ reader.pc # "failed"
  BY DEF RecvFrame, ReadUvarint, Read, ReadFails
<1>2. ASSUME NEW frame, Returns(frame)
      PROVE  Channel!Receive
  <2>1. reader'.pc # "failed" /\ received' = Append(received, frame)
    BY <1>2 DEF Returns, Fresh
  <2>2. QED
    BY <1>1, <2>1, ReturnsNext DEF Channel!Receive
<1>3. CASE \E frame : Returns(frame)
  BY <1>2, <1>3
<1>4. CASE ~\E frame : Returns(frame)
  <2>1. received' = received
    BY <1>4 DEF RecvFrame, ReadUvarint, Read, ReadFails
  <2>2. CASE reader'.pc = "failed"
    BY <1>1, <2>1, <2>2 DEF Arrived, Channel!Fail
  <2>3. CASE reader'.pc # "failed"
    BY <1>1, <2>1, <2>3 DEF Channel!vars
  <2>4. QED
    BY <2>2, <2>3
<1>5. QED
  BY <1>3, <1>4

\* Every step of both ends is a step of the abstract channel or leaves it unchanged.
LEMMA StepRefines == Arrived /\ Arrived' /\ [Next]_vars => [Channel!Next]_(Channel!vars)
<1> SUFFICES ASSUME Arrived, Arrived', [Next]_vars
             PROVE  Channel!Next \/ UNCHANGED Channel!vars
  OBVIOUS
<1>1. CASE Send
  BY <1>1 DEF Send, SendFrame, Channel!Send, Channel!Next
<1>2. CASE Write
  BY <1>2 DEF Write, Channel!vars
<1>3. CASE Lose
  BY <1>3 DEF Lose, Channel!Disconnect, Channel!Next
<1>4. CASE RecvFrame
  BY <1>4, RecvRefines DEF Channel!Next
<1>5. CASE UNCHANGED vars
  BY <1>5 DEF vars, Channel!vars
<1>6. QED
  BY <1>1, <1>2, <1>3, <1>4, <1>5 DEF Next

\* A size is read only while a digit of it is missing.
LEMMA InvShift == IInv => ShiftDefined
<1> SUFFICES ASSUME IInv, reader.pc = "size" PROVE reader.s < WordBits
  BY DEF ShiftDefined
<1>1. PICK T \in Seq(Byte), at \in Places(sent), c \in Nat : Bytes(T, at, c)
  BY DEF IInv, Places
<1>2. sent \in Frames /\ received \in Frames
  BY DEF IInv, TypeOK, Frames
<1>3. reader.x \in Nat /\ reader.s \in Nat
  <2>1. reader.x \in Word /\ reader.s \in 0 .. Power[ShiftBits] - 1
    BY DEF IInv, TypeOK
  <2>2. PICK S \in Nat : S = Power[ShiftBits]
    BY Widths
  <2>3. reader.s \in Nat
    BY <2>1, <2>2
  <2>4. reader.x \in Nat
    BY <2>1, Widths
  <2>5. QED
    BY <2>3, <2>4
<1>4. PICK k \in Nat : k = Len(received) + 1 /\ AtSize(reader, k, sent, T, at, c)
  <2>1. Len(received) + 1 \in Nat
    BY <1>2, LenProperties DEF Frames
  <2>2. AtSize(reader, Len(received) + 1, sent, T, at, c)
    BY <1>1 DEF Bytes, Reading
  <2>3. QED
    BY <2>1, <2>2
<1>5. CASE k <= Len(sent)
  <2>1. k \in 1 .. Len(sent)
    <3>1. Len(sent) \in Nat /\ Len(received) \in Nat
      BY <1>2, LenProperties DEF Frames
    <3>2. QED
      BY <1>4, <1>5, <3>1
  <2>2. Len(sent[k]) \in Word
    BY <1>1, <2>1 DEF Bytes, Laid
  <2>3. PICK m \in Word : Sized(reader, Len(sent[k]), m, T, c)
    BY <1>4, <1>5 DEF AtSize
  <2>4. /\ Len(sent[k]) = reader.x + Power[reader.s] * m /\ reader.x < Power[reader.s]
        /\ m = 0 => reader.s = 0
    BY <2>3 DEF Sized
  <2>5. PICK z \in Word, x \in Nat, s \in Nat : z = Len(sent[k]) /\ x = reader.x /\ s = reader.s
    BY <1>3, <2>2
  <2>6. 0 \in Nat /\ 0 <= m /\ m \in Nat
    BY Widths
  <2>7. Splits(z, x, s, m)
    BY <2>4, <2>5 DEF Splits
  <2>8. s < WordBits
    BY <2>6, <2>7, DigitFits DEF Fits
  <2>9. QED
    BY <2>5, <2>8
<1>6. CASE ~(k <= Len(sent))
  <2>1. k > Len(sent)
    <3>1. Len(sent) \in Nat
      BY <1>2, LenProperties DEF Frames
    <3>2. QED
      BY <1>6, <3>1
  <2>2. reader = Fresh
    BY <1>4, <2>1 DEF AtSize
  <2>3. QED
    BY <2>2, Widths DEF Fresh
<1>7. QED
  BY <1>5, <1>6

-------------------------------------------------------------------------------
(* The theorems.                                                           *)

\* In every state there are bytes, places and a position as IInv says.
LEMMA Invariant == Spec => []IInv
<1>1. Init => IInv
  BY InitInv
<1>2. IInv /\ [Next]_vars => IInv'
  BY NextInv
<1>3. QED
  BY <1>1, <1>2, PTL DEF Spec

\* The state of both ends of a connection has its type, and no more than Capacity
\* bytes are in transit.
THEOREM CodecTypes == Spec => []TypeOK
<1>1. IInv => TypeOK
  BY DEF IInv
<1>2. QED
  BY <1>1, Invariant, PTL

\* The frames that RecvFrame returns are the first ones that were given to SendFrame,
\* each whole, whatever the width of the words and the digits, the sizes and the
\* contents of the frames and the portions of the bytes; and a size that SendFrame
\* wrote is never refused.
THEOREM FramesArriveWhole == Spec => []FramesWhole
<1>1. IInv => FramesWhole
  BY InvFrames
<1>2. QED
  BY <1>1, Invariant, PTL

\* ReadUvarint's shift is always smaller than the word, on every stream that SendFrame
\* writes.
THEOREM ShiftsAreDefined == Spec => []ShiftDefined
<1>1. IInv => ShiftDefined
  BY InvShift
<1>2. QED
  BY <1>1, Invariant, PTL

\* SendFrame and RecvFrame, with their varints and portions of bytes, implement the
\* channel of whole frames: each step of RecvFrame returns the next frame, fails since
\* the connection is lost, or is not seen.
THEOREM CodecImplementsFrameChannel == Spec => ImplementsFrameChannel
<1>1. Init => Channel!Init
  BY DEF Init, Fresh, Channel!Init
<1>2. QED
  BY <1>1, Invariant, InvArrived, StepRefines, PTL DEF Spec, ImplementsFrameChannel, Channel!Spec

===============================================================================
