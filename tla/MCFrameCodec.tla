----------------------------- MODULE MCFrameCodec -----------------------------
(***************************************************************************)
(* Frames for FrameCodec: none, one and several bytes, all different from  *)
(* those before and behind them, with and without the bit of a varint that *)
(* says that a digit follows.                                              *)
(***************************************************************************)
EXTENDS FrameCodec

\* Sizes 0, 1, 4 (the first of two digits) and 17 (three digits, the last one full).
SomeFrames ==
  {<<>>, <<1>>, <<7>>, <<1, 7, 0, 5>>, [i \in 1 .. 17 |-> (3 * i) % 8]}
===============================================================================
