-------------------------------- MODULE MCQ3Vm --------------------------------
(***************************************************************************)
(* A small game for the interpreter of Q3Vm:                               *)
(*                                                                         *)
(*   int sum(int n)  { return n > 0 ? n + sum(n - 1) : 0; }                *)
(*   int pairs(int n) {                                                    *)
(*     struct { int a, b; } p, q;                                          *)
(*     p.a = n;  p.b = ~n & 7;  q = p;                                     *)
(*     if ((unsigned)(q.a - 1) > q.b)                                      *)
(*       return -(q.b / -2) + (unsigned)-q.b / 0x4000;                     *)
(*     return ((q.b << 2 | q.a) % 8 ^ q.a >> 1) + (char)(q.b + 248);  }    *)
(*   int vmMain(int command, int arg0) {                                   *)
(*     int x, y;                                                           *)
(*     if (command == 0) return sum(arg0) + pairs(arg0);                   *)
(*     x = arg0 * 2;  fill(&y, 1);  return x + trap(arg0);  }              *)
(*                                                                         *)
(* compiled as the compiler of the game does: arguments from word 2 of the *)
(* caller's frame, results on the operand stack.  trap and fill are system *)
(* calls; fill has the engine write as many words as it is told.  Word 0   *)
(* of the data is shared with the engine.                                  *)
(***************************************************************************)
EXTENDS Q3Vm

Asm(op, param) == [op |-> op, param |-> param]

Sum == 40     \* the address of sum
Pairs == 58   \* the address of pairs

Game == <<
  Asm("ENTER", 6),                                                     \*  0 vmMain
  Asm("LOCAL", 8), Asm("LOAD4", 0), Asm("CONST", 0), Asm("NE", 17),    \*  1
  Asm("LOCAL", 9), Asm("LOAD4", 0), Asm("ARG", 2),                     \*  5
  Asm("CONST", Sum), Asm("CALL", 0),                                   \*  8
  Asm("LOCAL", 9), Asm("LOAD4", 0), Asm("ARG", 2),                     \* 10
  Asm("CONST", Pairs), Asm("CALL", 0), Asm("ADD", 0), Asm("LEAVE", 6), \* 13
  Asm("LOCAL", 4), Asm("LOCAL", 9), Asm("LOAD4", 0),                   \* 17
  Asm("CONST", 2), Asm("MULI", 0), Asm("STORE4", 0),                   \* 20
  Asm("LOCAL", 5), Asm("ARG", 2), Asm("CONST", 1), Asm("ARG", 3),      \* 23
  Asm("CONST", -2), Asm("CALL", 0), Asm("POP", 0),                     \* 27
  Asm("LOCAL", 4), Asm("LOAD4", 0),                                    \* 30
  Asm("LOCAL", 9), Asm("LOAD4", 0), Asm("ARG", 2),                     \* 32
  Asm("CONST", -1), Asm("CALL", 0), Asm("ADD", 0),                     \* 35
  Asm("CONST", 16), Asm("JUMP", 0),                                    \* 38
  Asm("ENTER", 4),                                                     \* 40 sum
  Asm("LOCAL", 6), Asm("LOAD4", 0), Asm("CONST", 0), Asm("GTI", 47),   \* 41
  Asm("PUSH", 0), Asm("LEAVE", 4),                                     \* 45
  Asm("LOCAL", 6), Asm("LOAD4", 0),                                    \* 47
  Asm("LOCAL", 6), Asm("LOAD4", 0), Asm("CONST", 1), Asm("SUB", 0),    \* 49
  Asm("ARG", 2), Asm("CONST", Sum), Asm("CALL", 0),                    \* 53
  Asm("ADD", 0), Asm("LEAVE", 4),                                      \* 56
  Asm("ENTER", 7),                                                     \* 58 pairs
  Asm("LOCAL", 3), Asm("LOCAL", 9), Asm("LOAD4", 0), Asm("STORE4", 0), \* 59
  Asm("LOCAL", 4), Asm("LOCAL", 9), Asm("LOAD4", 0), Asm("BCOM", 0),   \* 63
  Asm("CONST", 7), Asm("BAND", 0), Asm("STORE4", 0),                   \* 67
  Asm("LOCAL", 5), Asm("LOCAL", 3), Asm("BLOCK_COPY", 2),              \* 70
  Asm("LOCAL", 5), Asm("LOAD4", 0), Asm("CONST", 1), Asm("SUB", 0),    \* 73
  Asm("LOCAL", 6), Asm("LOAD4", 0), Asm("LEU", 92),                    \* 77
  Asm("LOCAL", 6), Asm("LOAD4", 0), Asm("CONST", -2), Asm("DIVI", 0),  \* 80
  Asm("NEGI", 0),                                                      \* 84
  Asm("LOCAL", 6), Asm("LOAD4", 0), Asm("NEGI", 0),                    \* 85
  Asm("CONST", 16384), Asm("DIVU", 0), Asm("ADD", 0), Asm("LEAVE", 7), \* 88
  Asm("LOCAL", 6), Asm("LOAD4", 0), Asm("CONST", 2), Asm("LSH", 0),    \* 92
  Asm("LOCAL", 5), Asm("LOAD4", 0), Asm("BOR", 0),                     \* 96
  Asm("CONST", 8), Asm("MODI", 0),                                     \* 99
  Asm("LOCAL", 5), Asm("LOAD4", 0), Asm("CONST", 1), Asm("RSHI", 0),   \* 101
  Asm("BXOR", 0),                                                      \* 105
  Asm("LOCAL", 6), Asm("LOAD4", 0), Asm("CONST", 248), Asm("ADD", 0),  \* 106
  Asm("SEX8", 0), Asm("ADD", 0), Asm("LEAVE", 7) >>                    \* 110

\* TLC evaluates Game once, but what stands for Code whenever Code is used.
GameCode == Game

GameWritten(number, argument) ==
  IF number = -2 THEN argument[0] .. argument[0] + argument[1] - 1 ELSE {}

\* What the game returns is what its program computes from its own parameters and
\* from the answer to its own system call, whatever ran within that call.
ResultIsOwn ==
  returned.command # Null =>
    returned.value = IF returned.command = 1 THEN 2 * returned.arg + returned.trap
                     ELSE CASE returned.arg = 0 -> 0 + (3 + 3)
                            [] returned.arg = 2 -> (2 + 1) + (7 - 3)

===============================================================================
