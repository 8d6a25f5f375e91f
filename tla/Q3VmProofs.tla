------------------------------ MODULE Q3VmProofs ------------------------------
(***************************************************************************)
(* The interpreter and the game it runs: as long as the code keeps the     *)
(* convention of its compiler, Exec restores the registers and keeps its   *)
(* parameters, for any program, any sizes of the memory, any depth and     *)
(* number of Execs within system calls and anything that the engine writes *)
(* in them.  The convention is about the instruction that is next and the  *)
(* frame of its own Exec.  That the words of the other Execs, which wait,  *)
(* are not touched either is proved, and so is what Exec itself overwrites *)
(* with its frame and its operand.                                         *)
(***************************************************************************)
EXTENDS Q3Vm, SequenceTheorems, TLAPS

-------------------------------------------------------------------------------
(* The invariant.                                                          *)

RunType ==
  [opStack : Int, opPointer : Int, args : Int, trapped : BOOLEAN,
   buffer : SUBSET Int, trap : TrapValues \cup {0}, command : Commands, arg : Arguments, saved : Int \X Int \X Int]

Typed ==
  /\ mem = [a \in Addresses |-> mem[a]]
  /\ opBase \in Int /\ opStack \in Int /\ opPointer \in Int
  /\ runs \in Seq(RunType)

Size == DataWords + StackWords
FramesEnd == DataWords + StackWords \div 2

\* The words that Exec has pushed for r and that must last: the pc of its caller,
\* the command and the first parameter.
KeptBy(r) == r.args + 1 .. r.args + 3
Kept == UNION {KeptBy(runs[i]) : i \in 1 .. Len(runs)}

\* The frame that Exec pushed lies in the memory, and its first words are there.
Placed(r) ==
  /\ r.args = r.saved[1] - Frame /\ 0 <= r.args /\ r.args + Frame <= Size
  /\ mem[r.args + 1] = r.saved[3] /\ mem[r.args + 2] = r.command /\ mem[r.args + 3] = r.arg

\* The frames of inner Execs lie below those of outer ones.
Nested ==
  \A i, j \in 1 .. Len(runs) : i < j => runs[j].args + Frame <= runs[i].args

\* The first one begins where Create has put the end of the frames.
Rooted == (IF runs = <<>> THEN opBase ELSE runs[1].saved[1]) = FramesEnd

\* What the engine writes in a system call is not what an Exec has pushed before.
Clear ==
  \A i \in 1 .. Len(runs) : \A j \in 1 .. i : runs[i].buffer \cap KeptBy(runs[j]) = {}

\* An activation in a system call, and the registers with which it goes on.
Resumes(r, regs) ==
  /\ r.opPointer # Null
  /\ regs[1] <= r.args
  /\ regs[2] = r.opStack /\ LastOperand <= r.opStack
  /\ regs[3] = r.opPointer + 1

Suspended ==
  /\ \A i \in 1 .. Len(runs) - 1 : runs[i].trapped /\ Resumes(runs[i], runs[i + 1].saved)
  /\ (runs # <<>> /\ Top.trapped) => Resumes(Top, registers)

Inv ==
  /\ Typed
  /\ \A i \in 1 .. Len(runs) : Placed(runs[i])
  /\ Nested
  /\ Rooted
  /\ Clear
  /\ Suspended

-------------------------------------------------------------------------------
(* Facts about the activations.                                            *)

LEMMA Sizes ==
  /\ Frame \in Nat /\ 4 <= Frame /\ Size \in Nat
  /\ FramesEnd \in Nat /\ FramesEnd <= Size /\ LastOperand = FramesEnd - Frame + 4
BY SizeAssumption DEF Frame, Size, FramesEnd, LastOperand

\* There is a last activation when there is any.
LEMMA TopType ==
  ASSUME Typed, runs # <<>>
  PROVE  Len(runs) \in Nat /\ 1 <= Len(runs) /\ Top = runs[Len(runs)] /\ Top \in RunType
BY EmptySeq, LenProperties DEF Typed, Top

LEMMA EachType ==
  ASSUME Typed, NEW i \in 1 .. Len(runs)
  PROVE  runs[i] \in RunType /\ runs[i].args \in Int
<1>1. runs[i] \in RunType
  BY ElementOfSeq DEF Typed
<1>2. QED
  BY <1>1 DEF RunType

\* What must last lies between the running frame and the operands.
LEMMA KeptBetween ==
  ASSUME Inv, NEW a \in Kept
  PROVE  /\ a \in Addresses /\ runs # <<>>
         /\ Top.args + 1 <= a /\ a < LastOperand
<1>1. PICK i \in 1 .. Len(runs) : a \in runs[i].args + 1 .. runs[i].args + 3
  BY DEF Kept, KeptBy
<1>2. Typed /\ Nested /\ Placed(runs[i]) /\ Rooted
  BY DEF Inv
<1>3. Len(runs) \in Nat /\ 1 <= Len(runs) /\ runs # <<>>
  BY <1>2, EmptySeq, LenProperties DEF Typed
<1>4. runs[i].args \in Int /\ runs[1].args \in Int /\ runs[Len(runs)].args \in Int
  BY <1>2, <1>3, EachType
<1>5. runs[Len(runs)].args <= runs[i].args /\ runs[i].args <= runs[1].args
  <2>1. 1 \in 1 .. Len(runs) /\ Len(runs) \in 1 .. Len(runs)
    BY <1>3
  <2>2. i = Len(runs) \/ runs[Len(runs)].args + Frame <= runs[i].args
    BY <1>2, <2>1, <1>3 DEF Nested
  <2>3. i = 1 \/ runs[i].args + Frame <= runs[1].args
    BY <1>2, <2>1, <1>3 DEF Nested
  <2>4. QED
    BY <1>4, <2>2, <2>3, Sizes
<1>6. a \in Int /\ runs[i].args + 1 <= a /\ a <= runs[i].args + 3
  BY <1>1, <1>4
<1>7. a \in Addresses
  BY <1>2, <1>4, <1>6, Sizes, SizeAssumption DEF Placed, Addresses, Size
<1>8. runs[1].args = FramesEnd - Frame
  BY <1>2, <1>3 DEF Inv, Placed, Rooted
<1>9. QED
  BY <1>3, <1>4, <1>5, <1>6, <1>7, <1>8, Sizes DEF Top

\* The running code's own words are not among them.
LEMMA OwnOff ==
  ASSUME Inv, runs # <<>>, NEW a \in Own
  PROVE  a \notin Kept
<1> SUFFICES ASSUME a \in Kept PROVE FALSE
  OBVIOUS
<1>1. PICK i \in 1 .. Len(runs) : a \in runs[i].args + 1 .. runs[i].args + 3
  BY DEF Kept, KeptBy
<1>2. Typed /\ Nested
  BY DEF Inv
<1>3. Len(runs) \in Nat /\ 1 <= Len(runs) /\ Top = runs[Len(runs)]
  BY <1>2, TopType
<1>4. runs[i].args \in Int /\ Top.args \in Int
  BY <1>2, <1>3, EachType
<1>5. i = Len(runs) \/ Top.args + Frame <= runs[i].args
  BY <1>2, <1>3 DEF Nested
<1>6. a \in Int /\ runs[i].args + 1 <= a /\ a <= runs[i].args + 3
  BY <1>1, <1>4
<1>7. a <= Top.args \/ (Top.args + 4 <= a /\ a <= Top.args + Frame - 1)
  BY <1>4, Sizes DEF Own
<1>8. CASE i = Len(runs)
  BY <1>3, <1>4, <1>6, <1>7, <1>8
<1>9. CASE Top.args + Frame <= runs[i].args
  BY <1>4, <1>6, <1>7, <1>9, Sizes
<1>10. QED
  BY <1>5, <1>8, <1>9

\* The last activation is replaced.
LEMMA LastReplaced ==
  ASSUME Typed, runs # <<>>, NEW r, runs' = [runs EXCEPT ![Len(runs)] = r]
  PROVE  /\ Len(runs') = Len(runs)
         /\ \A i \in 1 .. Len(runs) - 1 : runs'[i] = runs[i]
         /\ runs'[Len(runs)] = r
         /\ r \in RunType => runs' \in Seq(RunType)
<1>1. Len(runs) \in Nat /\ 1 <= Len(runs)
  BY TopType
<1>2. ASSUME NEW Q, RunType \subseteq Q, r \in Q
      PROVE  /\ runs' \in Seq(Q) /\ Len(runs') = Len(runs)
             /\ \A j \in 1 .. Len(runs) : runs'[j] = IF j = Len(runs) THEN r ELSE runs[j]
  <2>1. runs \in Seq(Q) /\ Len(runs) \in 1 .. Len(runs)
    <3>1. runs \in [1 .. Len(runs) -> RunType]
      BY LenProperties DEF Typed
    <3>2. runs \in [1 .. Len(runs) -> Q]
      BY <1>2, <3>1
    <3>3. QED
      BY <1>1, <3>2, SeqDef
  <2>2. /\ [runs EXCEPT ![Len(runs)] = r] \in Seq(Q)
        /\ Len([runs EXCEPT ![Len(runs)] = r]) = Len(runs)
        /\ \A j \in 1 .. Len(runs) : [runs EXCEPT ![Len(runs)] = r][j] =
             IF j = Len(runs) THEN r ELSE runs[j]
    BY <1>2, <2>1, ExceptSeq
  <2>3. QED
    BY <2>2, Zenon
<1>3. /\ Len(runs') = Len(runs)
      /\ \A j \in 1 .. Len(runs) : runs'[j] = IF j = Len(runs) THEN r ELSE runs[j]
  <2>1. RunType \subseteq RunType \cup {r} /\ r \in RunType \cup {r}
    OBVIOUS
  <2>2. QED
    BY <1>2, <2>1
<1>4. r \in RunType => runs' \in Seq(RunType)
  BY <1>2
<1>5. runs'[Len(runs)] = r
  BY <1>1, <1>3
<1>6. ASSUME NEW i \in 1 .. Len(runs) - 1
      PROVE  runs'[i] = runs[i]
  <2>1. i \in 1 .. Len(runs) /\ i # Len(runs)
    BY <1>1
  <2>2. QED
    BY <1>3, <2>1
<1>7. QED
  BY <1>3, <1>4, <1>5, <1>6

\* What Locals does.
LEMMA LocalsEffect ==
  ASSUME Typed, runs # <<>>, NEW s \in Int, NEW p, Locals(s, p)
  PROVE  /\ Len(runs') = Len(runs)
         /\ \A i \in 1 .. Len(runs) - 1 : runs'[i] = runs[i]
         /\ runs'[Len(runs)] = [Top EXCEPT !.opStack = s, !.opPointer = p]
         /\ p \in Int => runs' \in Seq(RunType)
<1>1. Len(runs) \in Nat /\ 1 <= Len(runs) /\ Top = runs[Len(runs)] /\ Top \in RunType
  BY TopType
<1>2. PICK r : r = [Top EXCEPT !.opStack = s, !.opPointer = p]
  OBVIOUS
<1>3. p \in Int => r \in RunType
  BY <1>1, <1>2 DEF RunType
<1>4. runs' = [runs EXCEPT ![Len(runs)] = r]
  BY <1>1, <1>2 DEF Locals
<1>5. QED
  BY <1>2, <1>3, <1>4, LastReplaced

-------------------------------------------------------------------------------
(* The steps.                                                              *)

\* A step that only moves the last activation, and leaves Kept alone.
SameCall(r, q) ==
  r.args = q.args /\ r.saved = q.saved /\ r.command = q.command /\ r.arg = q.arg

LEMMA QuietStep ==
  ASSUME Inv, runs # <<>>, Typed', Len(runs') = Len(runs),
         \A i \in 1 .. Len(runs) - 1 : runs'[i] = runs[i],
         SameCall(runs'[Len(runs)], Top),
         \A a \in Kept : mem'[a] = mem[a],
         runs'[Len(runs)].buffer \subseteq Top.buffer
           \/ runs'[Len(runs)].buffer \cap Kept = {},
         (Top.trapped => Resumes(Top, registers))'
  PROVE  Inv'
<1>1. Typed /\ Nested /\ Rooted /\ Clear /\ Suspended /\ \A i \in 1 .. Len(runs) : Placed(runs[i])
  BY DEF Inv
<1>2. Len(runs) \in Nat /\ 1 <= Len(runs) /\ Top = runs[Len(runs)]
  BY <1>1, TopType
<1>3. \A i \in 1 .. Len(runs) : SameCall(runs'[i], runs[i])
  BY <1>2 DEF SameCall
<1>4. ASSUME NEW i \in 1 .. Len(runs)
      PROVE  Placed(runs[i])'
  <2>1. Placed(runs[i]) /\ runs[i].args \in Int /\ SameCall(runs'[i], runs[i])
    BY <1>1, <1>3, EachType
  <2>2. {runs[i].args + 1, runs[i].args + 2, runs[i].args + 3} \subseteq Kept
    <3>1. {runs[i].args + 1, runs[i].args + 2, runs[i].args + 3} \subseteq KeptBy(runs[i])
      BY <2>1 DEF KeptBy
    <3>2. QED
      BY <3>1 DEF Kept
  <2>3. QED
    BY <2>1, <2>2 DEF Placed, SameCall
<1>5. Nested'
  BY <1>1, <1>3 DEF Nested, SameCall
<1>6. Suspended'
  <2>1. ASSUME NEW i \in 1 .. Len(runs) - 1
        PROVE  runs'[i].trapped /\ Resumes(runs[i], runs[i + 1].saved)'
    <3>1. i + 1 \in 1 .. Len(runs)
      BY <1>2
    <3>2. runs'[i] = runs[i] /\ runs'[i + 1].saved = runs[i + 1].saved
      BY <1>3, <3>1 DEF SameCall
    <3>3. runs[i].trapped /\ Resumes(runs[i], runs[i + 1].saved)
      BY <1>1 DEF Suspended
    <3>4. QED
      BY <3>2, <3>3 DEF Resumes
  <2>2. QED
    BY <2>1 DEF Suspended
<1>7. runs' # <<>>
  BY <1>2, EmptySeq
<1>8. Rooted'
  <2>1. SameCall(runs'[1], runs[1]) /\ runs # <<>>
    BY <1>2, <1>3
  <2>2. QED
    BY <1>1, <1>7, <2>1 DEF Rooted, SameCall, FramesEnd
<1>9. ASSUME NEW i \in 1 .. Len(runs), NEW j \in 1 .. i
      PROVE  (runs[i].buffer \cap KeptBy(runs[j]) = {})'
  <2>1. j \in 1 .. Len(runs) /\ KeptBy(runs'[j]) = KeptBy(runs[j])
    BY <1>2, <1>3 DEF KeptBy, SameCall
  <2>2. runs[i].buffer \cap KeptBy(runs[j]) = {} /\ KeptBy(runs[j]) \subseteq Kept
    BY <1>1, <2>1 DEF Clear, Kept
  <2>3. runs'[i].buffer \subseteq runs[i].buffer \/ runs'[i].buffer \cap Kept = {}
    BY <1>2
  <2>4. QED
    BY <2>1, <2>2, <2>3 DEF KeptBy
<1>10. Clear'
  BY <1>9 DEF Clear
<1>11. QED
  BY <1>4, <1>5, <1>6, <1>8, <1>10 DEF Inv

\* The same for an instruction.
LEMMA LocalStep ==
  ASSUME Inv, Running, CodeKeepsConvention', NEW s \in Int, NEW p, Locals(s, p),
         mem' = [a \in Addresses |-> mem'[a]], \A a \in Kept : mem'[a] = mem[a],
         opBase' \in Int, opStack' \in Int, opPointer' \in Int
  PROVE  Inv'
<1>1. Typed /\ runs # <<>> /\ ~Top.trapped
  BY DEF Inv, Running
<1>2. Len(runs) \in Nat /\ 1 <= Len(runs) /\ Top \in RunType
  BY <1>1, TopType
<1>3. /\ Len(runs') = Len(runs)
      /\ \A i \in 1 .. Len(runs) - 1 : runs'[i] = runs[i]
      /\ runs'[Len(runs)] = [Top EXCEPT !.opStack = s, !.opPointer = p]
      /\ p \in Int => runs' \in Seq(RunType)
  BY <1>1, LocalsEffect
<1>4. /\ runs'[Len(runs)].opPointer = p /\ runs'[Len(runs)].trapped = Top.trapped
      /\ SameCall(runs'[Len(runs)], Top) /\ runs'[Len(runs)].buffer = Top.buffer
  BY <1>2, <1>3 DEF SameCall, RunType
<1>5. runs' # <<>> /\ Top' = runs'[Len(runs)]
  BY <1>2, <1>3, EmptySeq DEF Top
<1>6. p \in Int
  BY <1>1, <1>4, <1>5, LenProperties, CodeAssumption DEF CodeKeepsConvention, Null
<1>7. Typed'
  BY <1>3, <1>6 DEF Typed
<1>8. (Top.trapped => Resumes(Top, registers))'
  BY <1>1, <1>4, <1>5
<1>9. QED
  BY <1>1, <1>3, <1>4, <1>7, <1>8, QuietStep

\* A store that keeps off those words.
LEMMA StoreKeeps ==
  ASSUME Inv, NEW k, k \notin Kept, NEW x, Store(k, x)
  PROVE  mem' = [a \in Addresses |-> mem'[a]] /\ \A a \in Kept : mem'[a] = mem[a]
<1>1. mem = [a \in Addresses |-> mem[a]] /\ Kept \subseteq Addresses
  BY KeptBetween DEF Inv, Typed
<1>2. mem' = [a \in Addresses |-> IF a = k THEN x ELSE mem[a]]
  BY <1>1 DEF Store
<1>3. QED
  BY <1>1, <1>2

\* No store at all.
LEMMA NoStore ==
  ASSUME Inv, UNCHANGED mem
  PROVE  mem' = [a \in Addresses |-> mem'[a]] /\ \A a \in Kept : mem'[a] = mem[a]
BY DEF Inv, Typed

\* The operands lie above.
LEMMA OperandOff ==
  ASSUME Inv, NEW k \in Int, LastOperand <= k
  PROVE  k \notin Kept
<1> SUFFICES ASSUME k \in Kept PROVE FALSE
  OBVIOUS
<1>1. k < LastOperand
  BY KeptBetween
<1>2. QED
  BY <1>1, Sizes

\* What an instruction may count on.
LEMMA Instruction ==
  ASSUME Inv, Running, CodeKeepsConvention
  PROVE  /\ Typed /\ runs # <<>> /\ Top.opStack \in Int /\ Top.opPointer \in Int
         /\ opBase \in Int /\ opStack \in Int /\ opPointer \in Int
         /\ Param \in Int /\ Following \in Int /\ opBase <= Top.args /\ Top.args \in Int
         /\ LastOperand \in Int /\ LastOperand <= Top.opStack
         /\ \A i \in 0 .. 1 : Top.opStack + i \notin Kept
<1>1. Typed /\ runs # <<>> /\ ~Top.trapped /\ Top.opPointer # Null
  BY DEF Inv, Running
<1>2. Len(runs) \in Nat /\ 1 <= Len(runs) /\ Top \in RunType
  BY <1>1, TopType
<1>3. /\ opBase <= Top.args /\ LastOperand <= Top.opStack
      /\ Top.opPointer \in 0 .. Len(Code) - 1
  BY <1>1 DEF CodeKeepsConvention
<1>4. Top.opStack \in Int /\ Top.opPointer \in Int /\ Top.args \in Int
  BY <1>2 DEF RunType
<1>5. LastOperand \in Int
  BY Sizes
<1>6. Param \in Int
  <2>1. Len(Code) \in Nat
    BY CodeAssumption, LenProperties
  <2>2. Top.opPointer + 1 \in 1 .. Len(Code)
    BY <1>3, <1>4, <2>1
  <2>3. Code[Top.opPointer + 1] \in [op : Ops, param : Int]
    BY <2>2, CodeAssumption, ElementOfSeq
  <2>4. QED
    BY <2>3 DEF Param
<1>7. ASSUME NEW i \in 0 .. 1
      PROVE  Top.opStack + i \notin Kept
  <2>1. Top.opStack + i \in Int /\ LastOperand <= Top.opStack + i
    BY <1>3, <1>4, <1>5
  <2>2. QED
    BY <2>1, OperandOff
<1>8. QED
  BY <1>1, <1>3, <1>4, <1>5, <1>6, <1>7 DEF Following, Typed

LEMMA EnterInv ==
  ASSUME Inv, CodeKeepsConvention, CodeKeepsConvention', Enter
  PROVE  Inv'
<1>1. Running /\ Op = "ENTER"
  BY DEF Enter
<1>2. /\ opBase \in Int /\ Param \in Int /\ Top.opStack + 1 \in Int /\ Top.args \in Int
      /\ opStack \in Int /\ opPointer \in Int /\ opBase <= Top.args
  BY <1>1, Instruction
<1>3. Param >= 2
  BY <1>1 DEF CodeKeepsConvention, Running
<1>4. opBase - Param + 1 \notin Kept
  <2> SUFFICES ASSUME opBase - Param + 1 \in Kept PROVE FALSE
    OBVIOUS
  <2>1. Top.args + 1 <= opBase - Param + 1
    BY KeptBetween
  <2>2. QED
    BY <1>2, <1>3, <2>1
<1>5. mem' = [a \in Addresses |-> mem'[a]] /\ \A a \in Kept : mem'[a] = mem[a]
  BY <1>4, StoreKeeps DEF Enter
<1>6. opBase' \in Int /\ opStack' \in Int /\ opPointer' \in Int
  BY <1>2 DEF Enter
<1>7. Locals(Top.opStack + 1, Following)
  BY DEF Enter
<1>8. QED
  BY <1>1, <1>2, <1>5, <1>6, <1>7, LocalStep

LEMMA LeaveInv ==
  ASSUME Inv, CodeKeepsConvention, CodeKeepsConvention', Leave
  PROVE  Inv'
<1>1. Running /\ Locals(Top.opStack, mem[opBase + 1]) /\ UNCHANGED mem
  BY DEF Leave
<1>2. Top.opStack \in Int /\ opBase' \in Int /\ opStack' \in Int /\ opPointer' \in Int
  BY <1>1, Instruction DEF Leave
<1>3. QED
  BY <1>1, <1>2, NoStore, LocalStep

LEMMA CallInv ==
  ASSUME Inv, CodeKeepsConvention, CodeKeepsConvention', Call
  PROVE  Inv'
<1>1. Running /\ Locals(Top.opStack, Operand(0)) /\ Store(Top.opStack, Following)
  BY DEF Call
<1>2. /\ Top.opStack \in Int /\ opBase' \in Int /\ opStack' \in Int /\ opPointer' \in Int
      /\ Top.opStack + 0 \notin Kept
  BY <1>1, Instruction DEF Call, registers
<1>3. Top.opStack \notin Kept
  BY <1>2
<1>4. mem' = [a \in Addresses |-> mem'[a]] /\ \A a \in Kept : mem'[a] = mem[a]
  BY <1>1, <1>3, StoreKeeps
<1>5. QED
  BY <1>1, <1>2, <1>4, LocalStep

LEMMA PushesInv ==
  ASSUME Inv, CodeKeepsConvention, CodeKeepsConvention', Pushes
  PROVE  Inv'
<1>1. PICK s : s = Top.opStack - 1
  OBVIOUS
<1>2. Running /\ Locals(s, Following)
  BY <1>1 DEF Pushes
<1>3. /\ Typed /\ runs # <<>> /\ ~Top.trapped
      /\ Top.opStack \in Int /\ opBase' \in Int /\ opStack' \in Int /\ opPointer' \in Int
      /\ s \in Int /\ Following \in Int
  BY <1>1, <1>2, Instruction DEF Pushes, registers, Running
<1>4. s \notin Kept
  <2>1. Len(runs) \in Nat /\ 1 <= Len(runs) /\ Top \in RunType /\ Top = runs[Len(runs)]
    BY <1>3, TopType
  <2>2. /\ Len(runs') = Len(runs) /\ \A i \in 1 .. Len(runs) - 1 : runs'[i] = runs[i]
        /\ runs'[Len(runs)] = [Top EXCEPT !.opStack = s, !.opPointer = Following]
    BY <1>2, <1>3, LocalsEffect
  <2>3. /\ runs' # <<>> /\ Top' = runs'[Len(runs)]
        /\ runs'[Len(runs)].opStack = s /\ ~runs'[Len(runs)].trapped
        /\ runs'[Len(runs)].args = Top.args
    BY <1>3, <2>1, <2>2, EmptySeq DEF Top, RunType
  <2>4. LastOperand <= s
    BY <2>3 DEF CodeKeepsConvention
  <2>5. QED
    BY <1>3, <2>4, OperandOff
<1>5. mem' = [a \in Addresses |-> mem'[a]] /\ \A a \in Kept : mem'[a] = mem[a]
  BY <1>1, <1>4, StoreKeeps DEF Pushes
<1>6. QED
  BY <1>2, <1>3, <1>5, LocalStep

LEMMA PopInv ==
  ASSUME Inv, CodeKeepsConvention, CodeKeepsConvention', Pop
  PROVE  Inv'
<1>1. PICK s : s = Top.opStack + 1
  OBVIOUS
<1>2. Running /\ Locals(s, Following) /\ UNCHANGED mem
  BY <1>1 DEF Pop
<1>3. s \in Int /\ opBase' \in Int /\ opStack' \in Int /\ opPointer' \in Int
  BY <1>1, <1>2, Instruction DEF Pop, registers
<1>4. QED
  BY <1>2, <1>3, NoStore, LocalStep

LEMMA BranchInv ==
  ASSUME Inv, CodeKeepsConvention, CodeKeepsConvention', Branch
  PROVE  Inv'
<1>1. Running /\ UNCHANGED mem
  BY DEF Branch
<1>2. Top.opStack \in Int /\ opBase' \in Int /\ opStack' \in Int /\ opPointer' \in Int
  BY <1>1, Instruction DEF Branch, registers
<1>3. PICK s \in Int : \E p : Locals(s, p)
  <2>1. Top.opStack + 1 \in Int /\ Top.opStack + 2 \in Int
    BY <1>2
  <2>2. QED
    BY <2>1 DEF Branch
<1>4. PICK p : Locals(s, p)
  BY <1>3
<1>5. QED
  BY <1>1, <1>2, <1>4, NoStore, LocalStep

LEMMA MemoryInv ==
  ASSUME Inv, CodeKeepsConvention, CodeKeepsConvention', Memory
  PROVE  Inv'
<1>1. Running
  BY DEF Memory
<1>2. /\ Top.opStack \in Int /\ Param \in Int
      /\ opBase' \in Int /\ opStack' \in Int /\ opPointer' \in Int
      /\ \A i \in 0 .. 1 : Top.opStack + i \notin Kept
  BY <1>1, Instruction DEF Memory, registers
<1>3. PICK s \in Int : \E p : Locals(s, p)
  <2>1. Top.opStack + 1 \in Int /\ Top.opStack + 2 \in Int
    BY <1>2
  <2>2. QED
    BY <1>2, <2>1 DEF Memory
<1>4. /\ Op = "STORE4" => Operand(1) \notin Kept
      /\ Op = "ARG" => Param + opBase \notin Kept
      /\ Op = "BLOCK_COPY" => /\ Operand(1) \in Int
                              /\ (Operand(1) .. Operand(1) + Param - 1) \cap Kept = {}
  <2>1. runs # <<>> /\ Own \cap Kept = {}
    BY <1>1, OwnOff DEF Running
  <2>2. /\ Op = "STORE4" => Operand(1) \in Own
        /\ Op = "ARG" => Param + opBase \in Own
        /\ Op = "BLOCK_COPY" => /\ Operand(1) \in Own
                                /\ Operand(1) .. Operand(1) + Param - 1 \subseteq Own
    BY <1>1 DEF CodeKeepsConvention, Running
  <2>3. Own \subseteq Int
    <3>1. Top.args \in Int
      BY <1>1, Instruction
    <3>2. QED
      BY <3>1, Sizes DEF Own
  <2>4. QED
    BY <2>1, <2>2, <2>3
<1>5. mem' = [a \in Addresses |-> mem'[a]] /\ \A a \in Kept : mem'[a] = mem[a]
  <2>1. CASE Op = "LOAD4" /\ Store(Top.opStack, mem[Operand(0)])
    <3>1. Top.opStack + 0 = Top.opStack /\ 0 \in 0 .. 1
      BY <1>2
    <3>2. Top.opStack \notin Kept
      BY <1>2, <3>1, Zenon
    <3>3. QED
      BY <2>1, <3>2, StoreKeeps
  <2>2. CASE Op = "STORE4" /\ Store(Operand(1), Operand(0))
    BY <1>4, <2>2, StoreKeeps
  <2>3. CASE Op = "ARG" /\ Store(Param + opBase, Operand(0))
    <3>1. PICK k : k = Param + opBase
      OBVIOUS
    <3>2. QED
      BY <1>4, <2>3, <3>1, StoreKeeps
  <2>4. CASE /\ Op = "BLOCK_COPY"
             /\ \E word : mem' = [a \in Addresses |-> IF a - Operand(1) \in 0 .. Param - 1
                                                      THEN word[a - Operand(1)] ELSE mem[a]]
    <3>1. PICK word : mem' = [a \in Addresses |-> IF a - Operand(1) \in 0 .. Param - 1
                                                  THEN word[a - Operand(1)] ELSE mem[a]]
      BY <2>4
    <3>2. ASSUME NEW a \in Kept
          PROVE  a \in Addresses /\ a - Operand(1) \notin 0 .. Param - 1
      <4>1. a \in Addresses /\ a \in Int
        BY KeptBetween DEF Addresses
      <4>2. a \notin Operand(1) .. Operand(1) + Param - 1
        BY <1>4, <2>4, <3>2
      <4>3. Operand(1) \in Int
        BY <1>4, <2>4
      <4>4. QED
        BY <1>2, <4>1, <4>2, <4>3
    <3>3. QED
      BY <3>1, <3>2
  <2>5. QED
    BY <2>1, <2>2, <2>3, <2>4 DEF Memory
<1>6. PICK p : Locals(s, p)
  BY <1>3
<1>7. QED
  BY <1>1, <1>2, <1>5, <1>6, LocalStep

LEMMA ArithmeticInv ==
  ASSUME Inv, CodeKeepsConvention, CodeKeepsConvention', Arithmetic
  PROVE  Inv'
<1>1. Running
  BY DEF Arithmetic
<1>2. /\ Top.opStack \in Int /\ opBase' \in Int /\ opStack' \in Int /\ opPointer' \in Int
      /\ \A i \in 0 .. 1 : Top.opStack + i \notin Kept
  BY <1>1, Instruction DEF Arithmetic, registers
<1>3. PICK i \in 0 .. 1 :
        \E x : Store(Top.opStack + i, x) /\ Locals(Top.opStack + i, Following)
  <2>1. Top.opStack + 0 = Top.opStack /\ 0 \in 0 .. 1 /\ 1 \in 0 .. 1
    BY <1>2
  <2>2. CASE \E x : Store(Top.opStack + 1, x) /\ Locals(Top.opStack + 1, Following)
    BY <2>1, <2>2
  <2>3. CASE \E x : Store(Top.opStack, x) /\ Locals(Top.opStack, Following)
    BY <2>1, <2>3, Zenon
  <2>4. QED
    BY <2>2, <2>3, Zenon DEF Arithmetic
<1>4. PICK s : s = Top.opStack + i
  OBVIOUS
<1>5. PICK x : Store(s, x) /\ Locals(s, Following) /\ s \notin Kept /\ s \in Int
  BY <1>2, <1>3, <1>4
<1>6. mem' = [a \in Addresses |-> mem'[a]] /\ \A a \in Kept : mem'[a] = mem[a]
  BY <1>5, StoreKeeps
<1>7. QED
  BY <1>1, <1>2, <1>5, <1>6, LocalStep

\* A system call saves what Run goes on with.
LEMMA TrapInv ==
  ASSUME Inv, CodeKeepsConvention, Trap
  PROVE  Inv'
<1>1. Running /\ UNCHANGED mem
  BY DEF Trap
<1>2. /\ Typed /\ runs # <<>> /\ Top.opStack \in Int /\ Top.opPointer \in Int /\ opBase \in Int
      /\ Following \in Int /\ opBase <= Top.args /\ LastOperand <= Top.opStack
  BY <1>1, Instruction
<1>3. Len(runs) \in Nat /\ 1 <= Len(runs) /\ Top = runs[Len(runs)] /\ Top \in RunType
  BY <1>2, TopType
<1>11. Buffer \subseteq Own /\ Own \cap Kept = {} /\ Own \subseteq Int
  <2>1. Buffer \subseteq Own
    BY DEF Trap, Running, CodeKeepsConvention
  <2>2. Own \cap Kept = {}
    BY <1>2, OwnOff
  <2>3. Top.args \in Int
    BY <1>3 DEF RunType
  <2>4. QED
    BY <2>1, <2>2, <2>3, Sizes DEF Own
<1>4. PICK r : r = [Top EXCEPT !.trapped = TRUE, !.buffer = Buffer]
  OBVIOUS
<1>5. /\ r \in RunType /\ r.trapped /\ SameCall(r, Top) /\ r.buffer = Buffer
      /\ r.opStack = Top.opStack /\ r.opPointer = Top.opPointer
  BY <1>3, <1>4, <1>11 DEF RunType, SameCall
<1>6. /\ Len(runs') = Len(runs) /\ runs' \in Seq(RunType)
      /\ \A i \in 1 .. Len(runs) - 1 : runs'[i] = runs[i]
      /\ runs'[Len(runs)] = r
  <2>1. runs' = [runs EXCEPT ![Len(runs)] = r]
    BY <1>3, <1>4 DEF Trap
  <2>2. QED
    BY <1>2, <1>5, <2>1, LastReplaced
<1>7. Typed'
  BY <1>2, <1>6, NoStore DEF Trap, Typed
<1>8. (Top.trapped => Resumes(Top, registers))'
  <2>1. Top' = r
    BY <1>6 DEF Top
  <2>2. opBase' = opBase /\ opStack' = Top.opStack /\ opPointer' = Top.opPointer + 1
    BY DEF Trap, Following
  <2>3. r.opPointer # Null /\ opBase <= r.args /\ LastOperand <= r.opStack
    BY <1>1, <1>2, <1>5 DEF Running, SameCall
  <2>4. QED
    BY <1>5, <2>1, <2>2, <2>3 DEF Resumes, registers, LastOperand
<1>9. \A a \in Kept : mem'[a] = mem[a]
  BY <1>1
<1>10. runs'[Len(runs)].buffer \cap Kept = {}
  BY <1>5, <1>6, <1>11
<1>12. QED
  BY <1>2, <1>5, <1>6, <1>7, <1>8, <1>9, <1>10, QuietStep

\* What the engine writes in it is what it was told, or is not used by any code.
LEMMA EngineWritesInv ==
  ASSUME Inv, NEW a, NEW x, EngineWrites(a, x)
  PROVE  Inv'
<1>1. Typed /\ Clear /\ UNCHANGED <<registers, runs>> /\ Store(a, x)
  BY DEF Inv, EngineWrites
<1>2. a \notin Kept
  <2> SUFFICES ASSUME a \in Kept PROVE FALSE
    OBVIOUS
  <2>1. PICK j \in 1 .. Len(runs) : a \in KeptBy(runs[j])
    BY DEF Kept
  <2>2. runs # <<>>
    BY KeptBetween
  <2>3. Len(runs) \in Nat /\ 1 <= Len(runs) /\ Top = runs[Len(runs)]
    BY <1>1, <2>2, TopType
  <2>4. Top.buffer \cap KeptBy(runs[j]) = {}
    BY <1>1, <2>3 DEF Clear
  <2>5. QED
    BY <2>1, <2>2, <2>4 DEF EngineWrites
<1>3. mem' = [b \in Addresses |-> mem'[b]] /\ \A b \in Kept : mem'[b] = mem[b]
  BY <1>1, <1>2, StoreKeeps
<1>4. opBase' = opBase /\ opStack' = opStack /\ opPointer' = opPointer /\ runs' = runs
  BY <1>1 DEF registers
<1>5. Typed'
  BY <1>1, <1>3, <1>4 DEF Typed
<1>6. CASE runs = <<>>
  <2>1. \A i \in 1 .. Len(runs) : FALSE
    BY <1>6, EmptySeq
  <2>2. QED
    BY <1>4, <1>5, <1>6, <2>1
    DEF Inv, Nested, Rooted, Clear, Suspended, FramesEnd
<1>7. CASE runs # <<>>
  <2>1. (Top.trapped => Resumes(Top, registers))'
    BY <1>4, <1>7 DEF Inv, Suspended, Resumes, registers, Top, LastOperand
  <2>2. Len(runs') = Len(runs) /\ runs'[Len(runs)] = Top
    BY <1>4 DEF Top
  <2>3. QED
    BY <1>3, <1>4, <1>5, <1>7, <2>1, <2>2, QuietStep DEF SameCall
<1>8. QED
  BY <1>6, <1>7

\* Its answer is put in the place of the call's operand.
LEMMA TrapReturnsInv ==
  ASSUME Inv, Answer
  PROVE  Inv'
<1>1. PICK x \in TrapValues : TrapReturns(x)
  BY DEF Answer
<1>2. Typed /\ runs # <<>> /\ Top.trapped /\ Resumes(Top, registers)
  BY <1>1 DEF TrapReturns, Inv, Suspended
<1>3. Len(runs) \in Nat /\ 1 <= Len(runs) /\ Top = runs[Len(runs)] /\ Top \in RunType
  BY <1>2, TopType
<1>4. opStack \in Int /\ opPointer \in Int /\ opBase \in Int
  BY <1>2 DEF Typed
<1>5. PICK r : r = [Top EXCEPT !.opStack = opStack, !.opPointer = opPointer,
                               !.trapped = FALSE, !.buffer = {}, !.trap = x]
  OBVIOUS
<1>6. r \in RunType /\ ~r.trapped /\ SameCall(r, Top) /\ r.buffer = {}
  BY <1>3, <1>4, <1>5 DEF RunType, SameCall
<1>7. /\ Len(runs') = Len(runs) /\ runs' \in Seq(RunType)
      /\ \A i \in 1 .. Len(runs) - 1 : runs'[i] = runs[i]
      /\ runs'[Len(runs)] = r
  <2>1. runs' = [runs EXCEPT ![Len(runs)] = r]
    BY <1>1, <1>3, <1>5 DEF TrapReturns
  <2>2. QED
    BY <1>2, <1>6, <2>1, LastReplaced
<1>8. mem' = [a \in Addresses |-> mem'[a]] /\ \A a \in Kept : mem'[a] = mem[a]
  <2>1. LastOperand <= opStack
    BY <1>2 DEF Resumes, registers
  <2>2. opStack \notin Kept
    BY <1>4, <2>1, OperandOff
  <2>3. QED
    BY <1>1, <2>2, StoreKeeps DEF TrapReturns
<1>9. Typed'
  BY <1>1, <1>4, <1>7, <1>8 DEF TrapReturns, Typed, registers
<1>10. (Top.trapped => Resumes(Top, registers))'
  BY <1>6, <1>7 DEF Top
<1>11. QED
  BY <1>2, <1>6, <1>7, <1>8, <1>9, <1>10, QuietStep

\* Both leave Run where it was.
LEMMA AnswerRestores ==
  ASSUME Inv, Answer
  PROVE  /\ runs'[Len(runs)].opStack = Top.opStack
         /\ runs'[Len(runs)].opPointer = Following
<1>1. PICK x \in TrapValues : TrapReturns(x)
  BY DEF Answer
<1>2. Typed /\ runs # <<>> /\ Resumes(Top, registers)
  BY <1>1 DEF TrapReturns, Inv, Suspended
<1>3. Len(runs) \in Nat /\ 1 <= Len(runs) /\ Top = runs[Len(runs)] /\ Top \in RunType
  BY <1>2, TopType
<1>4. PICK r : r = [Top EXCEPT !.opStack = opStack, !.opPointer = opPointer,
                               !.trapped = FALSE, !.buffer = {}, !.trap = x]
  OBVIOUS
<1>5. Len(runs') = Len(runs) /\ runs'[Len(runs)] = r
  <2>1. runs' = [runs EXCEPT ![Len(runs)] = r]
    BY <1>1, <1>3, <1>4 DEF TrapReturns
  <2>2. QED
    BY <1>2, <2>1, LastReplaced
<1>6. r.opStack = opStack /\ r.opPointer = opPointer
  BY <1>3, <1>4 DEF RunType
<1>7. QED
  BY <1>2, <1>5, <1>6 DEF Resumes, registers, Following

\* Exec adds an activation; the others wait in the system calls they were in.
LEMMA ExecEffect ==
  ASSUME Typed, NEW command \in Commands, NEW arg \in Arguments, Exec(command, arg)
  PROVE  /\ Len(runs') = Len(runs) + 1 /\ runs' \in Seq(RunType)
         /\ \A i \in 1 .. Len(runs) : runs'[i] = runs[i]
         /\ Top' = runs'[Len(runs) + 1] /\ Top'.buffer = {}
         /\ Top'.opStack = opStack - 1 /\ Top'.opPointer = 0 /\ Top'.args = opBase - Frame
         /\ ~Top'.trapped /\ Top'.command = command /\ Top'.arg = arg /\ Top'.saved = registers
<1>1. PICK r : r = [opStack |-> opStack - 1, opPointer |-> 0, args |-> opBase - Frame,
                    trapped |-> FALSE, buffer |-> {}, trap |-> 0, command |-> command,
                    arg |-> arg, saved |-> registers]
  OBVIOUS
<1>2. runs' = Append(runs, r)
  BY <1>1 DEF Exec
<1>3. r \in RunType
  BY <1>1, Sizes DEF RunType, Typed, registers
<1>4. /\ runs' \in Seq(RunType) /\ Len(runs') = Len(runs) + 1
      /\ \A i \in 1 .. Len(runs) : runs'[i] = runs[i]
      /\ runs'[Len(runs) + 1] = r
  BY <1>2, <1>3, AppendProperties DEF Typed
<1>5. Top' = r
  BY <1>4 DEF Top
<1>6. QED
  BY <1>1, <1>4, <1>5

\* What Exec pushes, as long as the operands lie above it.
LEMMA ExecMemory ==
  ASSUME Typed, NEW command, NEW arg, Exec(command, arg),
         NEW a \in Addresses, a # opStack - 1
  PROVE  /\ a < opBase - Frame \/ opBase <= a => mem'[a] = mem[a]
         /\ a = opBase - Frame + 1 => mem'[a] = opPointer
         /\ a = opBase - Frame + 2 => mem'[a] = command
         /\ a = opBase - Frame + 3 => mem'[a] = arg
<1>1. PICK b \in Int : b = opBase - Frame
  BY Sizes DEF Typed
<1>2. opBase = b + Frame /\ Frame \in Nat /\ 4 <= Frame /\ a \in Int
  BY <1>1, Sizes DEF Typed, Addresses
<1>3. mem'[a] = IF a \in b .. opBase - 1 THEN FrameOf(command, arg)[a - b] ELSE mem[a]
  BY <1>1 DEF Exec
<1>4. ASSUME NEW i \in 1 .. 3, a = b + i
      PROVE  mem'[a] = FrameOf(command, arg)[i] /\ i \in 0 .. Frame - 1
  <2>1. a \in b .. opBase - 1 /\ a - b = i /\ i \in 0 .. Frame - 1
    BY <1>2, <1>4
  <2>2. QED
    BY <1>3, <2>1
<1>5. a < b \/ opBase <= a => mem'[a] = mem[a]
  BY <1>2, <1>3
<1>6. a = b + 1 => mem'[a] = opPointer
  BY <1>4 DEF FrameOf
<1>7. a = b + 2 => mem'[a] = command
  BY <1>4 DEF FrameOf
<1>8. a = b + 3 => mem'[a] = arg
  BY <1>4 DEF FrameOf
<1>9. QED
  BY <1>1, <1>5, <1>6, <1>7, <1>8

LEMMA ExecInv ==
  ASSUME Inv, CodeKeepsConvention', NEW command \in Commands, NEW arg \in Arguments,
         Exec(command, arg)
  PROVE  Inv'
<1>1. Exec(command, arg)
  OBVIOUS
<1>2. Typed /\ Nested /\ Rooted /\ Clear /\ Suspended /\ \A i \in 1 .. Len(runs) : Placed(runs[i])
  BY DEF Inv
<1>3. Len(runs) \in Nat /\ (runs # <<>> => 1 <= Len(runs)) /\ (runs = <<>> => Len(runs) = 0)
  BY <1>2, TopType, LenProperties, EmptySeq DEF Typed
<1>4. PICK n \in Nat : n = Len(runs)
  BY <1>3
<1>5. PICK b \in Int : b = opBase - Frame
  BY <1>2, Sizes DEF Typed
<1>6. PICK t \in Int : t = opStack - 1
  BY <1>2 DEF Typed
<1>7. /\ Len(runs') = n + 1 /\ runs' \in Seq(RunType)
      /\ \A i \in 1 .. n : runs'[i] = runs[i]
      /\ Top' = runs'[n + 1] /\ Top'.buffer = {}
      /\ Top'.opStack = t /\ Top'.opPointer = 0 /\ Top'.args = b
      /\ ~Top'.trapped /\ Top'.command = command /\ Top'.arg = arg /\ Top'.saved = registers
  BY <1>1, <1>2, <1>4, <1>5, <1>6, ExecEffect
<1>8. runs' # <<>>
  BY <1>4, <1>7, EmptySeq
<1>9. opBase' = b /\ opStack' = t /\ opPointer' = 0
  BY <1>1, <1>5, <1>6 DEF Exec
<1>10. \A i \in 1 .. n : runs[i].args \in Int /\ 0 <= runs[i].args /\ runs[i].args + Frame <= Size
  BY <1>2, <1>4, EachType DEF Placed
\* The new frame lies below the others ...
<1>11. \A i \in 1 .. n : b + Frame <= runs[i].args
  <2>1. SUFFICES ASSUME NEW i \in 1 .. n
                 PROVE  b + Frame <= runs[i].args
    OBVIOUS
  <2>2. runs # <<>> /\ n \in 1 .. n
    BY <1>3, <1>4
  <2>3. Top.trapped /\ Top = runs[n]
    BY <1>1, <1>4, <2>2 DEF Exec, Top
  <2>4. opBase <= runs[n].args
    BY <1>2, <2>2, <2>3 DEF Suspended, Resumes, registers
  <2>5. runs[n].args <= runs[i].args
    <3>1. CASE i = n
      BY <1>10, <2>2, <3>1
    <3>2. CASE i < n
      <4>1. runs[n].args + Frame <= runs[i].args
        BY <1>2, <1>4, <2>2, <3>2 DEF Nested
      <4>2. QED
        BY <1>10, <2>2, <4>1, Sizes
    <3>3. QED
      BY <3>1, <3>2
  <2>6. opBase = b + Frame
    BY <1>2, <1>5, Sizes DEF Typed
  <2>7. QED
    BY <1>10, <2>2, <2>4, <2>5, <2>6, Sizes
\* ... in the memory, and all below the operands.
<1>12. 0 <= b /\ b + Frame <= Size
  <2>1. 0 <= b
    BY <1>7, <1>8, <1>9 DEF CodeKeepsConvention
  <2>2. CASE runs = <<>>
    <3>1. opBase <= Size
      BY <1>2, <2>2, Sizes DEF Rooted
    <3>2. opBase = b + Frame
      BY <1>2, <1>5, Sizes DEF Typed
    <3>3. QED
      BY <2>1, <3>1, <3>2
  <2>3. CASE runs # <<>>
    <3>1. 1 \in 1 .. n
      BY <1>3, <1>4, <2>3
    <3>2. QED
      BY <1>10, <1>11, <2>1, <3>1, Sizes
  <2>4. QED
    BY <2>2, <2>3
<1>13. b + 4 <= t /\ \A i \in 1 .. n : runs[i].args + 4 <= t
  <2>1. LastOperand <= t
    BY <1>7, <1>8 DEF CodeKeepsConvention
  <2>2. opBase = b + Frame
    BY <1>2, <1>5, Sizes DEF Typed
  <2>3. CASE n = 0
    <3>1. opBase = FramesEnd
      BY <1>2, <1>3, <1>4, <2>3 DEF Rooted
    <3>2. QED
      BY <2>1, <2>2, <2>3, <3>1, Sizes
  <2>4. CASE n # 0
    <3>1. 1 \in 1 .. n /\ runs # <<>>
      BY <1>3, <1>4, <2>4, EmptySeq
    <3>2. runs[1].args = FramesEnd - Frame
      BY <1>2, <1>4, <3>1 DEF Rooted, Placed
    <3>3. \A i \in 1 .. n : runs[i].args <= runs[1].args
      BY <1>2, <1>4, <1>10, <3>1, Sizes DEF Nested
    <3>4. QED
      BY <1>10, <1>11, <2>1, <3>1, <3>2, <3>3, Sizes
  <2>5. QED
    BY <2>3, <2>4
<1>14. \A a \in Addresses : a # t =>
         /\ b + Frame <= a => mem'[a] = mem[a]
         /\ a = b + 1 => mem'[a] = opPointer
         /\ a = b + 2 => mem'[a] = command
         /\ a = b + 3 => mem'[a] = arg
  <2>1. opBase = b + Frame
    BY <1>2, <1>5, Sizes DEF Typed
  <2>2. QED
    BY <1>1, <1>2, <1>5, <1>6, <2>1, ExecMemory
<1>15. Typed'
  <2>1. mem' = [a \in Addresses |-> mem'[a]]
    BY <1>1 DEF Exec
  <2>2. QED
    BY <1>7, <1>9, <2>1 DEF Typed
<1>16. ASSUME NEW i \in 1 .. n + 1
       PROVE  Placed(runs[i])'
  <2>1. CASE i = n + 1
    <3>1. b + 1 \in Addresses /\ b + 2 \in Addresses /\ b + 3 \in Addresses
      BY <1>12, Sizes, SizeAssumption DEF Addresses, Size
    <3>2. mem'[b + 1] = opPointer /\ mem'[b + 2] = command /\ mem'[b + 3] = arg
      BY <1>13, <1>14, <3>1
    <3>3. Top'.saved[1] = opBase /\ Top'.saved[3] = opPointer
      BY <1>7 DEF registers
    <3>4. QED
      BY <1>5, <1>7, <1>12, <2>1, <3>2, <3>3 DEF Placed
  <2>2. CASE i \in 1 .. n
    <3>1. PICK r : r = runs[i].args
      OBVIOUS
    <3>2. Placed(runs[i]) /\ r \in Int /\ 0 <= r /\ r + Frame <= Size /\ b + Frame <= r /\ r + 4 <= t
      BY <1>2, <1>4, <1>10, <1>11, <1>13, <2>2, <3>1
    <3>3. \A j \in 1 .. 3 : r + j \in Addresses /\ r + j # t /\ b + Frame <= r + j
      BY <3>2, Sizes, SizeAssumption DEF Addresses, Size
    <3>4. mem'[r + 1] = mem[r + 1] /\ mem'[r + 2] = mem[r + 2] /\ mem'[r + 3] = mem[r + 3]
      BY <1>14, <3>3
    <3>5. runs'[i] = runs[i]
      BY <1>7, <2>2
    <3>6. QED
      BY <3>1, <3>2, <3>4, <3>5 DEF Placed
  <2>3. QED
    BY <2>1, <2>2
<1>17. Nested'
  <2>1. SUFFICES ASSUME NEW i \in 1 .. n + 1, NEW j \in 1 .. n + 1, i < j
                 PROVE  runs'[j].args + Frame <= runs'[i].args
    BY <1>7 DEF Nested
  <2>2. i \in 1 .. n /\ runs'[i].args = runs[i].args
    BY <1>7, <2>1
  <2>3. CASE j = n + 1
    BY <1>7, <1>11, <2>2, <2>3
  <2>4. CASE j \in 1 .. n
    BY <1>2, <1>4, <1>7, <2>1, <2>2, <2>4 DEF Nested
  <2>5. QED
    BY <2>3, <2>4
<1>18. Suspended'
  <2>1. ASSUME NEW i \in 1 .. n
        PROVE  runs'[i].trapped /\ Resumes(runs[i], runs[i + 1].saved)'
    <3>1. runs # <<>> /\ 1 \in 1 .. n
      BY <1>3, <1>4, <2>1
    <3>2. PICK regs : regs = runs'[i + 1].saved
      OBVIOUS
    <3>3. runs[i].trapped /\ Resumes(runs[i], regs)
      <4>1. CASE i = n
        <5>1. Top.trapped /\ Resumes(Top, registers) /\ Top = runs[n]
          BY <1>1, <1>2, <1>4, <3>1 DEF Exec, Suspended, Top
        <5>2. regs = registers
          BY <1>7, <3>2, <4>1
        <5>3. QED
          BY <4>1, <5>1, <5>2
      <4>2. CASE i # n
        <5>1. i \in 1 .. n - 1 /\ i + 1 \in 1 .. n
          BY <4>2
        <5>2. regs = runs[i + 1].saved
          BY <1>7, <3>2, <5>1
        <5>3. QED
          BY <1>2, <1>4, <5>1, <5>2 DEF Suspended
      <4>3. QED
        BY <4>1, <4>2
    <3>4. runs'[i] = runs[i]
      BY <1>7, <3>1
    <3>5. QED
      BY <3>2, <3>3, <3>4 DEF Resumes, LastOperand
  <2>2. Len(runs') - 1 = n
    BY <1>7
  <2>3. QED
    BY <1>7, <2>1, <2>2 DEF Suspended
<1>19. Rooted'
  <2>1. CASE n = 0
    <3>1. runs = <<>> /\ runs'[1].saved[1] = opBase
      BY <1>3, <1>4, <1>7, <2>1 DEF registers
    <3>2. QED
      BY <1>2, <1>8, <3>1 DEF Rooted, FramesEnd
  <2>2. CASE n # 0
    <3>1. runs # <<>> /\ runs'[1] = runs[1]
      BY <1>3, <1>4, <1>7, <2>2
    <3>2. QED
      BY <1>2, <1>8, <3>1 DEF Rooted, FramesEnd
  <2>3. QED
    BY <2>1, <2>2
<1>20. Clear'
  <2>1. SUFFICES ASSUME NEW i \in 1 .. n + 1, NEW j \in 1 .. i
                 PROVE  runs'[i].buffer \cap KeptBy(runs'[j]) = {}
    BY <1>7 DEF Clear, KeptBy
  <2>2. CASE i = n + 1
    BY <1>7, <2>2
  <2>3. CASE i \in 1 .. n
    <3>1. j \in 1 .. n /\ runs'[i] = runs[i] /\ runs'[j] = runs[j]
      BY <1>7, <2>3
    <3>2. runs[i].buffer \cap KeptBy(runs[j]) = {}
      BY <1>2, <1>4, <2>3 DEF Clear
    <3>3. QED
      BY <3>1, <3>2
  <2>4. QED
    BY <2>2, <2>3
<1>21. QED
  BY <1>7, <1>15, <1>16, <1>17, <1>18, <1>19, <1>20 DEF Inv

\* When vmMain has returned, the registers are those with which Exec was called.
LEMMA ExecReturnsRestores ==
  ASSUME Inv, CodeKeepsConvention, ExecReturns
  PROVE  Top \in RunType /\ registers' = Top.saved
<1>1. Typed /\ runs # <<>> /\ Top.opPointer = Null
  BY DEF ExecReturns, Inv
<1>2. ~Top.trapped
  BY <1>1 DEF Inv, Suspended, Resumes
<1>3. opBase = Top.args /\ Top.opStack = Top.saved[2] - 1
  BY <1>1, <1>2 DEF CodeKeepsConvention
<1>4. Len(runs) \in Nat /\ 1 <= Len(runs) /\ Top = runs[Len(runs)] /\ Top \in RunType
  BY <1>1, TopType
<1>5. Placed(Top)
  BY <1>4 DEF Inv
<1>6. Top.saved \in Int \X Int \X Int /\ Top.args \in Int /\ Top.opStack \in Int
  BY <1>4 DEF RunType
<1>7. Top.saved[1] = opBase + Frame /\ Top.saved[2] = Top.opStack + 1
  BY <1>3, <1>5, <1>6, Sizes DEF Placed
<1>8. Top.saved[3] = mem[Top.args + 1]
  BY <1>5 DEF Placed
<1>9. registers' = <<Top.saved[1], Top.saved[2], Top.saved[3]>>
  BY <1>7, <1>8 DEF ExecReturns, registers
<1>10. QED
  BY <1>4, <1>6, <1>9

LEMMA ExecReturnsInv ==
  ASSUME Inv, CodeKeepsConvention, ExecReturns
  PROVE  Inv'
<1>1. /\ Typed /\ Nested /\ Rooted /\ Clear /\ Suspended /\ runs # <<>>
      /\ \A i \in 1 .. Len(runs) : Placed(runs[i])
  BY DEF ExecReturns, Inv
<1>2. Len(runs) \in Nat /\ 1 <= Len(runs) /\ Top = runs[Len(runs)] /\ Top \in RunType
  BY <1>1, TopType
<1>3. PICK n \in Nat : Len(runs) = n + 1
  BY <1>2
<1>4. registers' = Top.saved /\ Top.saved \in Int \X Int \X Int
  BY ExecReturnsRestores DEF RunType
<1>5. /\ runs' \in Seq(RunType) /\ Len(runs') = n
      /\ \A i \in 1 .. n : runs'[i] = runs[i]
  <2>1. \A i \in 1 .. n : runs[i] \in RunType
    BY <1>1, <1>3, EachType
  <2>2. runs' = SubSeq(runs, 1, n)
    BY <1>3 DEF ExecReturns
  <2>3. /\ SubSeq(runs, 1, n) \in Seq(RunType)
        /\ Len(SubSeq(runs, 1, n)) = IF 1 <= n THEN n - 1 + 1 ELSE 0
        /\ \A i \in 1 .. n - 1 + 1 : SubSeq(runs, 1, n)[i] = runs[1 + i - 1]
    BY <2>1, SubSeqProperties
  <2>4. n - 1 + 1 = n /\ \A i \in 1 .. n : 1 + i - 1 = i
    OBVIOUS
  <2>5. (IF 1 <= n THEN n - 1 + 1 ELSE 0) = n
    OBVIOUS
  <2>6. QED
    BY <2>2, <2>3, <2>4, <2>5
<1>6. Typed'
  <2>1. opBase' \in Int /\ opStack' \in Int /\ opPointer' \in Int
    BY <1>4 DEF registers
  <2>2. QED
    BY <1>1, <1>5, <2>1 DEF ExecReturns, Typed
<1>7. \A i \in 1 .. n : Placed(runs[i])'
  BY <1>1, <1>3, <1>5 DEF ExecReturns, Placed
<1>8. Nested'
  BY <1>1, <1>3, <1>5 DEF Nested
<1>9. Suspended'
  <2>1. ASSUME NEW i \in 1 .. n
        PROVE  runs[i].trapped /\ Resumes(runs[i], runs[i + 1].saved)
    BY <1>1, <1>3, <2>1 DEF Suspended
  <2>3. ASSUME NEW i \in 1 .. n - 1
        PROVE  runs'[i].trapped /\ Resumes(runs[i], runs[i + 1].saved)'
    <3>1. i \in 1 .. n /\ i + 1 \in 1 .. n
      OBVIOUS
    <3>2. runs'[i] = runs[i] /\ runs'[i + 1] = runs[i + 1]
      BY <1>5, <3>1
    <3>3. QED
      BY <2>1, <3>1, <3>2 DEF Resumes, LastOperand
  <2>4. ASSUME runs' # <<>>
        PROVE  Resumes(Top, registers)'
    <3>1. n # 0
      BY <1>5, <2>4, EmptySeq
    <3>2. n \in 1 .. n
      BY <3>1
    <3>3. runs'[n] = runs[n] /\ Top' = runs'[n]
      BY <1>5, <3>2 DEF Top
    <3>4. registers' = runs[n + 1].saved
      BY <1>2, <1>3, <1>4
    <3>5. QED
      BY <2>1, <3>2, <3>3, <3>4 DEF Resumes, LastOperand
  <2>5. QED
    BY <1>5, <2>3, <2>4 DEF Suspended
<1>10. Rooted'
  <2>1. CASE n = 0
    <3>1. Top = runs[1] /\ runs' = <<>>
      BY <1>2, <1>3, <1>5, <2>1, EmptySeq
    <3>2. opBase' = Top.saved[1]
      BY <1>4 DEF registers
    <3>3. QED
      BY <1>1, <3>1, <3>2 DEF Rooted, FramesEnd
  <2>2. CASE n # 0
    <3>1. runs'[1] = runs[1] /\ runs' # <<>>
      BY <1>5, <2>2, EmptySeq
    <3>2. QED
      BY <1>1, <3>1 DEF Rooted, FramesEnd
  <2>3. QED
    BY <2>1, <2>2
<1>11. Clear'
  BY <1>1, <1>3, <1>5 DEF Clear, KeptBy
<1>12. QED
  BY <1>5, <1>6, <1>7, <1>8, <1>9, <1>10, <1>11 DEF Inv

-------------------------------------------------------------------------------
(* The whole interpreter.                                                  *)

LEMMA InitInv == Init => Inv
<1> SUFFICES ASSUME Init PROVE Inv
  OBVIOUS
<1>1. runs = <<>> /\ Len(runs) = 0 /\ runs \in Seq(RunType)
  BY EmptySeq DEF Init
<1>2. StackWords \div 2 \in Int
  BY SizeAssumption
<1>3. Typed
  BY <1>1, <1>2, SizeAssumption DEF Init, Typed, Null
<1>4. Rooted
  BY <1>1 DEF Init, Rooted, FramesEnd
<1>5. \A i \in 1 .. Len(runs) : FALSE
  BY <1>1
<1>6. QED
  BY <1>1, <1>3, <1>4, <1>5 DEF Inv, Nested, Clear, Suspended

LEMMA NextInv ==
  ASSUME Inv, CodeKeepsConvention, CodeKeepsConvention', [Next]_vars
  PROVE  Inv'
<1>1. CASE Engine
  BY <1>1, ExecInv, EngineWritesInv DEF Engine
<1>2. CASE ExecReturns
  BY <1>2, ExecReturnsInv
<1>3. CASE Run
  BY <1>3, EnterInv, LeaveInv, CallInv, TrapInv, PushesInv, PopInv, BranchInv, MemoryInv,
     ArithmeticInv DEF Run
<1>4. CASE Answer
  BY <1>4, TrapReturnsInv
<1>5. CASE UNCHANGED vars
  BY <1>5 DEF vars, registers, Inv, Typed, Placed, Nested, Rooted, Clear, KeptBy,
     Suspended, Resumes, Top, FramesEnd, LastOperand
<1>6. QED
  BY <1>1, <1>2, <1>3, <1>4, <1>5 DEF Next

\* A step that ends an activation is the return of its Exec.
LEMMA OnlyReturnsEnd ==
  ASSUME Inv, CodeKeepsConvention, [Next]_vars, Len(runs') < Len(runs)
  PROVE  ExecReturns
<1>1. Typed /\ Len(runs) \in Nat
  BY LenProperties DEF Inv, Typed
<1>2. CASE Engine
  BY <1>1, <1>2, ExecEffect DEF Engine, EngineWrites
<1>3. CASE Run
  <2>1. CASE Trap
    <3>1. runs # <<>>
      BY <2>1 DEF Trap, Running
    <3>2. PICK r : r = [runs[Len(runs)] EXCEPT !.trapped = TRUE, !.buffer = Buffer]
      OBVIOUS
    <3>3. runs' = [runs EXCEPT ![Len(runs)] = r]
      BY <2>1, <3>2 DEF Trap
    <3>4. QED
      BY <1>1, <3>1, <3>3, LastReplaced
  <2>2. CASE \E s \in Int : \E p : Running /\ Locals(s, p)
    <3>1. PICK s \in Int : \E p : Running /\ Locals(s, p)
      BY <2>2
    <3>2. PICK p : Running /\ Locals(s, p)
      BY <3>1
    <3>3. Len(runs') = Len(runs)
      BY <1>1, <3>2, LocalsEffect DEF Running
    <3>4. QED
      BY <1>1, <3>3
  <2>3. ASSUME Running
        PROVE  Top.opStack \in Int
    BY <2>3, Instruction
  <2>4. Trap \/ \E s \in Int : \E p : Running /\ Locals(s, p)
    <3>1. CASE Trap
      BY <3>1
    <3>2. CASE Enter \/ Pop \/ Branch \/ Memory \/ Arithmetic \/ Leave \/ Call
      <4>1. Running
        BY <3>2 DEF Enter, Pop, Branch, Memory, Arithmetic, Leave, Call
      <4>2. Top.opStack \in Int /\ Top.opStack + 1 \in Int /\ Top.opStack + 2 \in Int
        BY <2>3, <4>1
      <4>3. QED
        BY <3>2, <4>1, <4>2 DEF Enter, Pop, Branch, Memory, Arithmetic, Leave, Call
    <3>3. CASE Pushes
      <4>1. Running /\ Locals(Top.opStack - 1, Following)
        BY <3>3 DEF Pushes
      <4>2. Top.opStack - 1 \in Int
        BY <2>3, <4>1
      <4>3. QED
        BY <4>1, <4>2
    <3>4. QED
      BY <1>3, <3>1, <3>2, <3>3 DEF Run
  <2>5. QED
    BY <2>1, <2>2, <2>4
<1>4. CASE Answer
  <2>1. PICK x \in TrapValues : TrapReturns(x)
    BY <1>4 DEF Answer
  <2>2. PICK r : r = [runs[Len(runs)] EXCEPT !.opStack = opStack, !.opPointer = opPointer,
                                             !.trapped = FALSE, !.buffer = {}, !.trap = x]
    OBVIOUS
  <2>3. runs # <<>> /\ runs' = [runs EXCEPT ![Len(runs)] = r]
    BY <2>1, <2>2 DEF TrapReturns
  <2>4. QED
    BY <1>1, <2>3, LastReplaced
<1>5. CASE UNCHANGED vars
  BY <1>1, <1>5 DEF vars
<1>6. QED
  BY <1>2, <1>3, <1>4, <1>5 DEF Next

\* Where the activations are, what they saved and what memory holds of it, for every
\* program that keeps the convention (Exec and the CALL instruction of Run), with
\* what the engine writes in system calls (SysCalls).
THEOREM InterpreterInvariant ==
  Spec /\ []CodeKeepsConvention => []Inv
<1>1. Init => Inv
  BY InitInv
<1>2. Inv /\ CodeKeepsConvention /\ CodeKeepsConvention' /\ [Next]_vars => Inv'
  BY NextInv
<1>3. QED
  BY <1>1, <1>2, PTL DEF Spec

\* The command and the first parameter that the engine passes to vmMain are in its
\* frame until it has returned, at every depth.  The convention keeps the running
\* code off the words of its own Exec only; that neither that code, nor the frames
\* and operands of further Execs (which share the memory), nor the engine's writes
\* in any system call reach the words of the Execs that wait is the theorem.
THEOREM ParametersLast ==
  Spec /\ []CodeKeepsConvention => []ArgumentsKept
<1>1. Inv => ArgumentsKept
  BY DEF Inv, Placed, ArgumentsKept
<1>2. QED
  BY <1>1, InterpreterInvariant, PTL

\* Exec leaves vm_.opBase, vm_.opStack and vm_.opPointer as it found them, at every
\* depth ("restore previous state"), and Run goes on after a system call with the
\* operands it had and behind the call ("restore local registers"), however many
\* Execs there were in the call and whatever the engine wrote in it.
THEOREM ExecRestores ==
  Spec /\ []CodeKeepsConvention => RegistersRestored
<1>1. ASSUME Inv, CodeKeepsConvention, [Next]_vars
      PROVE  [/\ Len(runs') < Len(runs) => registers' = Top.saved
              /\ Answer => /\ runs'[Len(runs)].opStack = Top.opStack
                           /\ runs'[Len(runs)].opPointer = Following]_vars
  BY <1>1, OnlyReturnsEnd, ExecReturnsRestores, AnswerRestores
<1>2. QED
  BY <1>1, InterpreterInvariant, PTL DEF Spec, RegistersRestored
===============================================================================
