--------------------------------- MODULE Q3Vm ---------------------------------
(***************************************************************************)
(* The interpreter of the game's bytecode (Q3Vm.cc): Exec calls vmMain of  *)
(* the game, Run executes it, and a system call of the game may lead back  *)
(* into Exec before it returns.  What has to survive that are the          *)
(* registers vm_.opBase, vm_.opStack and vm_.opPointer, of which Run keeps *)
(* two in C locals, and the frames in the data segment.                    *)
(*                                                                         *)
(* Memory is counted in words of four bytes, code in instructions.  Frames *)
(* and operands lie in the same memory and grow downwards: operands from   *)
(* its end, frames from the middle of the StackWords words behind the data *)
(* segment.  The code has StackWords = 0 (stacksize_), so both start at    *)
(* the same address, and the operands use the last words that Exec pushed. *)
(* The address masks change no address of a program that stays within its  *)
(* segment, and native function pointers and hook_realfunc, which nothing  *)
(* sets, are left out, as are parts of words and floating point.           *)
(*                                                                         *)
(* While the game is in a system call, the engine writes into its memory,  *)
(* where the arguments of the call point to (SysCalls), and may call       *)
(* vmMain, any number of times and in any order with what it writes.       *)
(***************************************************************************)
EXTENDS Integers, Sequences

CONSTANTS
  Code,        \* the instructions, [op, param]; vmMain is the first
  DataWords,   \* dataSegmentLen
  StackWords,  \* stacksize_
  Params,      \* parameters of vmMain after the command (12)
  WordBits,    \* width of a word (32)
  Commands, Arguments, TrapValues, Contents, \* what the engine passes, answers and writes
  Written(_, _), \* what the engine writes in a system call, by its number and arguments
  Shared,      \* what it writes at any time (G_LOCATE_GAME_DATA)
  MaxDepth     \* bound on Execs within one another

Branches == {"EQ", "NE", "LTI", "LEI", "GTI", "GEI", "LTU", "LEU", "GTU", "GEU"}
Divisions == {"DIVI", "DIVU", "MODI", "MODU"}
Shifts == {"LSH", "RSHI", "RSHU"}
Logical == {"BAND", "BOR", "BXOR"}
Binary == Divisions \cup Shifts \cup Logical \cup {"ADD", "SUB", "MULI", "MULU"}
Unary == {"NEGI", "BCOM", "SEX8", "SEX16"}
Ops == {"ENTER", "LEAVE", "CALL", "PUSH", "POP", "CONST", "LOCAL", "JUMP", "LOAD4", "STORE4",
        "ARG", "BLOCK_COPY"} \cup Branches \cup Binary \cup Unary

ASSUME CodeAssumption == Code \in Seq([op : Ops, param : Int])
ASSUME SizeAssumption ==
  /\ DataWords \in Nat /\ StackWords \in Nat /\ Params \in Nat \ {0}
  /\ MaxDepth \in Nat /\ WordBits \in Nat \ {0}
  /\ Shared \subseteq 0 .. DataWords - 1

VARIABLES
  mem,                          \* data segment and stack segment
  opBase, opStack, opPointer,   \* the registers in vm_
  runs,      \* the activations of Exec and Run, outermost first
  returned   \* history: the Exec that returned last

registers == <<opBase, opStack, opPointer>>
vars == <<mem, registers, runs, returned>>

Null == -1        \* opPointer - codeSegment when opPointer is NULL
Frame == Params + 3  \* words that Exec pushes

Addresses == 0 .. DataWords + StackWords - 1
Ends == 0 .. DataWords + StackWords   \* of the frames and of the operands
Word == -(2 ^ (WordBits - 1)) .. 2 ^ (WordBits - 1) - 1
Top == runs[Len(runs)]

\* An activation: Run's locals opStack and opPointer, Exec's args, whether it is
\* in a system call and what the engine may write in it, and what it was called with.
Activation ==
  [opStack : Ends, opPointer : 0 .. Len(Code) \cup {Null}, args : Addresses,
   trapped : BOOLEAN, buffer : SUBSET Addresses, trap : Word, command : Commands,
   arg : Arguments, saved : Ends \X Ends \X Int]

TypeOK ==
  /\ mem \in [Addresses -> Word]
  /\ opBase \in Ends /\ opStack \in Ends
  /\ opPointer \in 0 .. Len(Code) \cup {Null}
  /\ Len(runs) <= MaxDepth /\ \A i \in 1 .. Len(runs) : runs[i] \in Activation

\* The end of Create.
Init ==
  /\ mem = [a \in Addresses |-> 0]
  /\ opPointer = Null
  /\ opStack = DataWords + StackWords
  /\ opBase = DataWords + StackWords \div 2
  /\ runs = <<>>
  /\ returned = [command |-> Null, arg |-> 0, trap |-> 0, value |-> 0]

\* The value of x in a signed word, and of the word x read as unsigned.
Wrap(x) == ((x + 2 ^ (WordBits - 1)) % 2 ^ WordBits) - 2 ^ (WordBits - 1)
Unsigned(x) == x % 2 ^ WordBits

-------------------------------------------------------------------------------
(* Exec.                                                                   *)

\* The frame that Exec pushes; the parameters after the first are marked.
FrameOf_NoPc(command, arg) ==
  [i \in 0 .. Frame - 1 |->
     CASE i = 0 -> 0 [] i = 1 -> 0 [] i = 2 -> command [] i = 3 -> arg [] OTHER -> 99]
FrameOf(command, arg) ==
  [i \in 0 .. Frame - 1 |->
     CASE i = 0 -> 0 [] i = 1 -> opPointer [] i = 2 -> command [] i = 3 -> arg [] OTHER -> 99]

\* The engine calls vmMain: from outside, or from within a system call.
Exec(command, arg) ==
  /\ runs # <<>> => Top.trapped /\ Len(runs) < MaxDepth
  /\ LET frame == opBase - Frame
         top  == opStack - 1
     IN  /\ mem' = [a \in Addresses |->
                      IF a = top THEN Null
                      ELSE IF a \in frame .. opBase - 1 THEN FrameOf(command, arg)[a - frame]
                      ELSE mem[a]]
         /\ opBase' = frame /\ opStack' = top /\ opPointer' = 0
         /\ runs' = Append(runs,
              [opStack |-> top, opPointer |-> 0, args |-> frame, trapped |-> FALSE,
               buffer |-> {}, trap |-> 0, command |-> command, arg |-> arg,
               saved |-> registers])
  /\ UNCHANGED returned

\* Run is over when the outermost function has returned to NULL.
ExecReturns ==
  /\ runs # <<>> /\ Top.opPointer = Null
  /\ opPointer' = mem[Top.args + 1]
  /\ opBase' = opBase + Frame
  /\ opStack' = Top.opStack + 1
  /\ returned' = [command |-> Top.command, arg |-> Top.arg, trap |-> Top.trap,
                  value |-> mem[Top.opStack]]
  /\ runs' = SubSeq(runs, 1, Len(runs) - 1)
  /\ UNCHANGED mem

-------------------------------------------------------------------------------
(* Run: one action per kind of instruction.                                *)

Running == runs # <<>> /\ ~Top.trapped /\ Top.opPointer # Null
Op == Code[Top.opPointer + 1].op
Param == Code[Top.opPointer + 1].param
Following == Top.opPointer + 1
\* The operand at depth i.
Operand(i) == mem[Top.opStack + i]

\* The locals of the running activation.
Locals(stack, pointer) ==
  runs' = [runs EXCEPT ![Len(runs)] = [@ EXCEPT !.opStack = stack, !.opPointer = pointer]]
Store(a, x) == mem' = [mem EXCEPT ![a] = x]

Enter_NoFrame ==
  /\ Running /\ Op = "ENTER"
  /\ Store(opBase + 1, Operand(0)) /\ Locals(Top.opStack + 1, Following)
  /\ UNCHANGED <<registers, returned>>
Enter ==
  /\ Running /\ Op = "ENTER"
  /\ opBase' = opBase - Param
  /\ Store(opBase - Param + 1, Operand(0)) /\ Locals(Top.opStack + 1, Following)
  /\ UNCHANGED <<opStack, opPointer, returned>>

Leave_KeepsFrame ==
  /\ Running /\ Op = "LEAVE"
  /\ Locals(Top.opStack, mem[opBase + 1])
  /\ UNCHANGED <<mem, registers, returned>>
Leave ==
  /\ Running /\ Op = "LEAVE"
  /\ opBase' = opBase + Param
  /\ Locals(Top.opStack, mem[opBase + 1])
  /\ UNCHANGED <<mem, opStack, opPointer, returned>>

\* A function of the program: its address is replaced by the return address.
Call ==
  /\ Running /\ Op = "CALL" /\ Operand(0) >= 0
  /\ Store(Top.opStack, Following) /\ Locals(Top.opStack, Operand(0))
  /\ UNCHANGED <<registers, returned>>

\* A system call: the locals are saved in vm_, and the engine gets its arguments ...
args == [k \in Nat |-> mem[opBase + 2 + k]]
Buffer == Shared \cup Written(Operand(0), args)

Trap ==
  /\ Running /\ Op = "CALL" /\ Operand(0) < 0
  /\ opStack' = Top.opStack /\ opPointer' = Following
  /\ runs' = [runs EXCEPT ![Len(runs)] = [@ EXCEPT !.trapped = TRUE, !.buffer = Buffer]]
  /\ UNCHANGED <<mem, opBase, returned>>

\* ... it writes a word of them, or of what is shared while no game code runs ...
EngineWrites(a, x) ==
  /\ a \in IF runs = <<>> THEN Shared ELSE Top.buffer
  /\ Store(a, x)
  /\ UNCHANGED <<registers, runs, returned>>

\* ... and they are restored from there when it returns x.
TrapReturns_NoResult(x) ==
  /\ runs # <<>> /\ Top.trapped
  /\ runs' = [runs EXCEPT ![Len(runs)] =
                [@ EXCEPT !.opStack = opStack, !.opPointer = opPointer,
                          !.trapped = FALSE, !.buffer = {}, !.trap = x]]
  /\ UNCHANGED <<mem, registers, returned>>
TrapReturns(x) ==
  /\ runs # <<>> /\ Top.trapped
  /\ runs' = [runs EXCEPT ![Len(runs)] =
                [@ EXCEPT !.opStack = opStack, !.opPointer = opPointer,
                          !.trapped = FALSE, !.buffer = {}, !.trap = x]]
  /\ Store(opStack, x)
  /\ UNCHANGED <<registers, returned>>

\* PUSH, CONST and LOCAL.
Pushes ==
  /\ Running /\ Op \in {"PUSH", "CONST", "LOCAL"}
  /\ Store(Top.opStack - 1, CASE Op = "PUSH"  -> 0
                              [] Op = "CONST" -> Param
                              [] Op = "LOCAL" -> Param + opBase)
  /\ Locals(Top.opStack - 1, Following)
  /\ UNCHANGED <<registers, returned>>

Pop_Two ==
  /\ Running /\ Op = "POP"
  /\ Locals(Top.opStack + 2, Following)
  /\ UNCHANGED <<mem, registers, returned>>
Pop ==
  /\ Running /\ Op = "POP"
  /\ Locals(Top.opStack + 1, Following)
  /\ UNCHANGED <<mem, registers, returned>>

Holds(op, x, y) ==
  CASE op = "EQ"  -> x = y [] op = "NE"  -> x # y
    [] op = "LTI" -> x < y [] op = "LEI" -> x <= y
    [] op = "GTI" -> x > y [] op = "GEI" -> x >= y
    [] op = "LTU" -> Unsigned(x) < Unsigned(y) [] op = "LEU" -> Unsigned(x) <= Unsigned(y)
    [] op = "GTU" -> Unsigned(x) > Unsigned(y) [] op = "GEU" -> Unsigned(x) >= Unsigned(y)

Branch ==
  /\ Running
  /\ \/ /\ Op = "JUMP"
        /\ Locals(Top.opStack + 1, Operand(0))
     \/ /\ Op \in Branches
        /\ Locals(Top.opStack + 2,
                  IF Holds(Op, Operand(1), Operand(0)) THEN Param ELSE Following)
  /\ UNCHANGED <<mem, registers, returned>>

\* What a block copy writes: a word at a time, so what it has written already is
\* copied again when the blocks overlap.
Copied(from, to, n) ==
  LET word[i \in 0 .. n - 1] ==
        IF from + i \in to .. to + i - 1 THEN word[from + i - to] ELSE mem[from + i]
  IN  word

Memory ==
  /\ Running
  /\ \/ /\ Op = "LOAD4"
        /\ Store(Top.opStack, mem[Operand(0)]) /\ Locals(Top.opStack, Following)
     \/ /\ Op = "STORE4"
        /\ Store(Operand(1), Operand(0)) /\ Locals(Top.opStack + 2, Following)
     \/ /\ Op = "ARG"
        /\ Store(Param + opBase, Operand(0)) /\ Locals(Top.opStack + 1, Following)
     \/ /\ Op = "BLOCK_COPY" /\ Param > 0
        /\ LET word == Copied(Operand(0), Operand(1), Param)
           IN  mem' = [a \in Addresses |-> IF a - Operand(1) \in 0 .. Param - 1
                                            THEN word[a - Operand(1)] ELSE mem[a]]
        /\ Locals(Top.opStack + 2, Following)
  /\ UNCHANGED <<registers, returned>>

Abs(x) == IF x < 0 THEN -x ELSE x
\* Division of C, towards zero.
Quotient(x, y) == (IF (x < 0) = (y < 0) THEN 1 ELSE -1) * (Abs(x) \div Abs(y))

\* The operations that neither stop the process nor are undefined.
Defined(op, x, y) ==
  /\ op \in Divisions => y # 0
  /\ op \in {"DIVI", "MODI"} => ~(x = -(2 ^ (WordBits - 1)) /\ y = -1)
  /\ op \in Shifts => y \in 0 .. WordBits - 1

\* The logical operations of C on <<operation, x, y>>, from the lowest bit up.
WordLogic[p \in Logical \X Nat \X Nat] ==
  IF p[2] = 0 /\ p[3] = 0 THEN 0
  ELSE LET bits == (p[2] % 2) + (p[3] % 2) IN
       2 * WordLogic[<<p[1], p[2] \div 2, p[3] \div 2>>] +
         (CASE p[1] = "BAND" -> IF bits = 2 THEN 1 ELSE 0
            [] p[1] = "BOR"  -> IF bits = 0 THEN 0 ELSE 1
            [] p[1] = "BXOR" -> bits % 2)

OfTwo(op, x, y) ==
  CASE op = "ADD"  -> x + y            [] op = "SUB"  -> x - y
    [] op \in {"MULI", "MULU"} -> x * y
    [] op = "DIVI" -> Quotient(x, y)   [] op = "MODI" -> x - y * Quotient(x, y)
    [] op = "DIVU" -> Unsigned(x) \div Unsigned(y)
    [] op = "MODU" -> Unsigned(x) % Unsigned(y)
    [] op \in Logical -> WordLogic[<<op, Unsigned(x), Unsigned(y)>>]
    [] op = "LSH"  -> x * 2 ^ y        [] op = "RSHI" -> x \div 2 ^ y
    [] op = "RSHU" -> Unsigned(x) \div 2 ^ y

\* The low bits of x as a signed number, if they have their sign bit set.
Extended(x, bits) == IF x % 2 ^ bits >= 2 ^ (bits - 1) THEN (x % 2 ^ bits) - 2 ^ bits ELSE x

OfOne(op, x) ==
  CASE op = "NEGI" -> -x              [] op = "BCOM"  -> -x - 1
    [] op = "SEX8" -> Extended(x, 8)  [] op = "SEX16" -> Extended(x, 16)

Arithmetic ==
  /\ Running
  /\ \/ /\ Op \in Binary /\ Defined(Op, Operand(1), Operand(0))
        /\ Store(Top.opStack + 1, Wrap(OfTwo(Op, Operand(1), Operand(0))))
        /\ Locals(Top.opStack + 1, Following)
     \/ /\ Op \in Unary
        /\ Store(Top.opStack, Wrap(OfOne(Op, Operand(0)))) /\ Locals(Top.opStack, Following)
  /\ UNCHANGED <<registers, returned>>

Run == Enter \/ Leave \/ Call \/ Trap \/ Pushes \/ Pop \/ Branch \/ Memory \/ Arithmetic

-------------------------------------------------------------------------------
Engine ==
  \/ \E command \in Commands, arg \in Arguments : Exec(command, arg)
  \/ \E a \in Addresses, x \in Contents : EngineWrites(a, x)
Answer == \E x \in TrapValues : TrapReturns(x)

Next == Engine \/ ExecReturns \/ Run \/ Answer

Spec == Init /\ [][Next]_vars

-------------------------------------------------------------------------------
(* Properties.                                                             *)

\* Where the running code may write: below the frame of its Exec, and in it except
\* for what must last.
Own == (0 .. Top.args) \cup (Top.args + 4 .. Top.args + Frame - 1)

\* The last word that operands may take: the first frame of an Exec, which begins
\* where Create has put it, ends with parameters that nobody reads.
LastOperand == DataWords + StackWords \div 2 - Frame + 4

\* What the compiler of the game sees to, about the code that is running and
\* nothing else: frames lie below that of its Exec and have room for a return
\* address, operands stay in their space, stores and what the engine is told to
\* write stay in Own, and vmMain returns with its own frame and one operand, the
\* result.
CodeKeepsConvention ==
  runs # <<>> /\ ~Top.trapped =>
    /\ 0 <= opBase /\ opBase <= Top.args
    /\ LastOperand <= Top.opStack /\ Top.opStack <= Top.saved[2]
    /\ IF Top.opPointer = Null
       THEN opBase = Top.args /\ Top.opStack = Top.saved[2] - 1
       ELSE /\ Top.opPointer \in 0 .. Len(Code) - 1
            /\ Op = "ENTER" => Param >= 2
            /\ Op = "STORE4" => Operand(1) \in Own
            /\ Op = "ARG" => Param + opBase \in Own
            /\ Op = "BLOCK_COPY" => /\ Operand(1) \in Own
                                    /\ Operand(1) .. Operand(1) + Param - 1 \subseteq Own
            /\ Op = "CALL" /\ Operand(0) < 0 => Buffer \subseteq Own

\* Whoever called Exec, the engine or Run in a system call, finds the registers
\* as they were (the comment "restore previous state" in Exec), whatever Execs
\* came in between; and Run goes on behind its system call, with the operands it
\* had (the comment "restore local registers").
RegistersRestored ==
  [][/\ Len(runs') < Len(runs) => registers' = Top.saved
     /\ Answer => /\ runs'[Len(runs)].opStack = Top.opStack
                  /\ runs'[Len(runs)].opPointer = Following]_vars

\* The command and its first parameter stay what the engine passed, until vmMain
\* has returned, although the operands grow into the words of the last ones.
ArgumentsKept ==
  \A i \in 1 .. Len(runs) :
    runs[i].opPointer # Null =>
      mem[runs[i].args + 2] = runs[i].command /\ mem[runs[i].args + 3] = runs[i].arg
===============================================================================
