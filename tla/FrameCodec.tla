------------------------------ MODULE FrameCodec ------------------------------
(***************************************************************************)
(* Frames on a TCP stream (rpc_conn.cc, rpc_conn_posix.cc): SendFrame      *)
(* writes the size of a frame as a varint, then its bytes; RecvFrame reads *)
(* them back, with recv and send moving as many bytes as they like.  This  *)
(* is what RpcSession takes for granted: whole frames, in order.           *)
(*                                                                         *)
(* A digit of a varint has DigitBits bits (7), a word WordBits (64) and    *)
(* the shift ShiftBits (8).  Scaled down, one bit of the last digit still  *)
(* fits into the word.  Sizes stay below 2^31, where int(size) is size.    *)
(***************************************************************************)
EXTENDS Integers, Sequences, SequencesExt

CONSTANTS
  DigitBits, WordBits, ShiftBits,
  FramesToSend,   \* the sequences of bytes given to SendFrame
  Capacity,    \* bound on the bytes in transit
  MaxFrames    \* bound on the frames sent

Power[n \in Nat] == IF n = 0 THEN 1 ELSE 2 * Power[n - 1]

Radix == Power[DigitBits]
Byte == 0 .. 2 * Radix - 1
Word == 0 .. Power[WordBits] - 1

ASSUME WidthAssumption ==
  /\ {DigitBits, WordBits, ShiftBits, Capacity} \subseteq Nat \ {0} /\ MaxFrames \in Nat
  /\ (WordBits - 1) % DigitBits = 0   \* the check b > 1 is about the last digit
  /\ WordBits <= Power[ShiftBits]     \* a byte counts the bits of a word
  /\ \A frame \in FramesToSend : frame \in Seq(Byte) /\ Len(frame) \in Word

VARIABLES
  sent,      \* history: the frames given to SendFrame
  writing,   \* bytes of the frame that Write has not passed to send
  stream,    \* bytes in transit
  lost,      \* the connection is lost
  reader,    \* RecvFrame: ReadUvarint's x, s and i, then the bytes read of the frame
  received   \* history: the frames that RecvFrame returned

vars == <<sent, writing, stream, lost, reader, received>>

\* RecvFrame begins.
Fresh == [pc |-> "size", x |-> 0, s |-> 0, i |-> 0, left |-> 0, data |-> <<>>]

TypeOK ==
  /\ sent \in Seq(Seq(Byte)) /\ received \in Seq(Seq(Byte))
  /\ writing \in Seq(Byte)
  /\ stream \in Seq(Byte) /\ Len(stream) <= Capacity
  /\ lost \in BOOLEAN
  /\ reader \in [pc : {"size", "data", "failed"}, x : Word, s : 0 .. Power[ShiftBits] - 1,
                 i : Nat, left : Word, data : Seq(Byte)]

Init ==
  /\ sent = <<>> /\ writing = <<>> /\ stream = <<>> /\ lost = FALSE
  /\ reader = Fresh /\ received = <<>>

-------------------------------------------------------------------------------
(* SendFrame.                                                              *)

putUvarint_OffByOne(x) ==
  LET put[y \in Word] ==
        IF y > Radix THEN <<(y % Radix) + Radix>> \o put[y \div Radix] ELSE <<y>>
  IN  put[x]
put[x \in Word] ==
  IF x >= Radix THEN <<(x % Radix) + Radix>> \o put[x \div Radix] ELSE <<x>>
putUvarint(x) == put[x]

SendFrame(frame) ==
  /\ writing = <<>> /\ ~lost /\ Len(sent) < MaxFrames
  /\ sent' = Append(sent, frame)
  /\ writing' = putUvarint(Len(frame)) \o frame
  /\ UNCHANGED <<stream, lost, reader, received>>

\* send takes n bytes, or fails.
Write_Whole ==
  /\ writing # <<>> /\ ~lost /\ Len(stream) + Len(writing) <= Capacity
  /\ stream' = stream \o writing /\ writing' = <<>>
  /\ UNCHANGED <<sent, lost, reader, received>>
Write ==
  /\ writing # <<>> /\ ~lost
  /\ \E n \in 1 .. Len(writing) :
       /\ Len(stream) + n <= Capacity
       /\ stream' = stream \o SubSeq(writing, 1, n)
       /\ writing' = SubSeq(writing, n + 1, Len(writing))
  /\ UNCHANGED <<sent, lost, reader, received>>

\* The connection is lost with some of the bytes in transit.
Lose ==
  /\ ~lost
  /\ lost' = TRUE /\ writing' = <<>>
  /\ \E n \in 0 .. Len(stream) : stream' = SubSeq(stream, 1, n)
  /\ UNCHANGED <<sent, reader, received>>

-------------------------------------------------------------------------------
(* RecvFrame.                                                              *)

\* digit << s in a word; a shift by the width of the word or more is undefined.
Shifted(digit, s) ==
  IF s < WordBits THEN {(digit * Power[s]) % Power[WordBits]} ELSE Word

\* x | y, of the numbers in p, from the lowest bit up.
Or[p \in Nat \X Nat] ==
  IF p[1] = 0 THEN p[2]
  ELSE 2 * Or[<<p[1] \div 2, p[2] \div 2>>] + (IF p[1] % 2 = 0 /\ p[2] % 2 = 0 THEN 0 ELSE 1)

Returns_DataKept(frame) ==
  reader' = [Fresh EXCEPT !.data = frame] /\ received' = Append(received, frame)
Returns(frame) == reader' = Fresh /\ received' = Append(received, frame)

\* One turn of ReadUvarint's loop.
ReadUvarint ==
  /\ reader.pc = "size" /\ stream # <<>>
  /\ stream' = Tail(stream)
  /\ LET b == Head(stream) IN
     IF b < Radix /\ reader.i >= (WordBits - 1) \div DigitBits /\ b > 1
     THEN reader' = [reader EXCEPT !.pc = "failed"] /\ UNCHANGED received
     ELSE \E y \in Shifted(b % Radix, reader.s) :
            LET x == Or[<<reader.x, y>>] IN
            IF b >= Radix
            THEN /\ reader' = [reader EXCEPT !.x = x, !.i = @ + 1,
                                             !.s = (@ + DigitBits) % Power[ShiftBits]]
                 /\ UNCHANGED received
            ELSE IF x = 0 THEN Returns(<<>>)
            ELSE reader' = [reader EXCEPT !.pc = "data", !.left = x] /\ UNCHANGED received
  /\ UNCHANGED <<sent, writing, lost>>

\* recv gives n of the bytes that are left.
Read ==
  /\ reader.pc = "data" /\ stream # <<>>
  /\ \E n \in 1 .. Len(stream) :
       LET data == reader.data \o SubSeq(stream, 1, n) IN
       /\ n <= reader.left
       /\ stream' = SubSeq(stream, n + 1, Len(stream))
       /\ IF n = reader.left THEN Returns(data)
          ELSE /\ reader' = [reader EXCEPT !.data = data, !.left = @ - n]
               /\ UNCHANGED received
  /\ UNCHANGED <<sent, writing, lost>>

\* recv finds the connection closed: a frame that is not complete is not returned.
ReadFails_Partial ==
  /\ reader.pc # "failed" /\ stream = <<>> /\ lost
  /\ reader' = [reader EXCEPT !.pc = "failed"]
  /\ received' = IF reader.pc = "data" THEN Append(received, reader.data) ELSE received
  /\ UNCHANGED <<sent, writing, stream, lost>>
ReadFails ==
  /\ reader.pc # "failed" /\ stream = <<>> /\ lost
  /\ reader' = [reader EXCEPT !.pc = "failed", !.data = <<>>]
  /\ UNCHANGED <<sent, writing, stream, lost, received>>

RecvFrame == ReadUvarint \/ Read \/ ReadFails

-------------------------------------------------------------------------------
Send == \E frame \in FramesToSend : SendFrame(frame)

Next == Send \/ Write \/ Lose \/ RecvFrame

Spec == Init /\ [][Next]_vars

\* A thread in Write and a thread in RecvFrame go on when the socket lets them.
FairSpec == Spec /\ WF_vars(Write) /\ WF_vars(RecvFrame)

-------------------------------------------------------------------------------
(* Properties.                                                             *)

\* What RecvFrame returns is what was given to SendFrame, frame by frame, whatever
\* the sizes, the contents and the portions of the bytes; a frame cut off by the
\* end of the connection is never returned, and no size is taken for an overflow.
FramesWhole == IsPrefix(received, sent) /\ (reader.pc = "failed" => lost)

\* Whatever portions the bytes travel in, the two ends are the abstract channel:
\* each step of RecvFrame returns the next frame, fails because the connection is
\* lost, or is not seen.
Channel == INSTANCE FrameChannel WITH
             Frames <- FramesToSend, connected <- ~lost, receiving <- reader.pc # "failed"
ImplementsFrameChannel == Channel!Spec

\* ReadUvarint never shifts by the width of its word or more, although nothing
\* bounds its shift.  It would, if it ever took the bytes of a frame for a size.
ShiftDefined == reader.pc = "size" => reader.s < WordBits

\* A frame that is sent arrives, however small the portions that send takes.
FrameArrives ==
  \A n \in 1 .. MaxFrames : (Len(sent) >= n) ~> (lost \/ Len(received) >= n)
===============================================================================
