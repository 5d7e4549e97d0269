------------------------------- MODULE VarInt -------------------------------
(***************************************************************************)
(* The integer codec of src/varint.ts.  encode() turns an integer into     *)
(* bytes; a buffer with some or all of these bytes, and with whatever      *)
(* comes next when they are all there, is given to decodeBigInt().  An     *)
(* iteration of a loop is a step.                                          *)
(*                                                                         *)
(* Bytes are numbers; what masks and shifts do to them is written with     *)
(* \div and %.  decode() is decodeBigInt() with its result converted to a  *)
(* Number, which is exact up to 2^53.                                      *)
(***************************************************************************)
EXTENDS Integers, Sequences

CONSTANTS
  Ints,         \* the integers that may be encoded
  Tails         \* what may follow them in a buffer

Byte == 0..255

ASSUME VarIntAssumption == Ints \subseteq Nat /\ Tails \subseteq Seq(Byte)

VARIABLES
  pc,           \* "encode", "encoding" (in the loop), "encoded", "decode",
                \* "decoding" (in the loop), "returned", "thrown"
  int,          \* what is encoded
  left,         \* encode's value as it was after the first byte and after
                \* each iteration
  bytes,        \* encode's result
  buffer,       \* what is decoded
  consumed,     \* the bytes of it that decode has gone through
  val,          \* decode's val
  weight        \* 2 to the power of decode's shift

vars == <<pc, int, left, bytes, buffer, consumed, val, weight>>

Init ==
  /\ pc = "encode"
  /\ int \in Ints
  /\ left = <<>> /\ bytes = <<>> /\ buffer = <<>>
  /\ consumed = 0 /\ val = 0 /\ weight = 16

-----------------------------------------------------------------------------
\* Operators named <definition>_<fault> are faulty variants of a definition:
\* each breaks one property, which shows that the property can fail.

\* The value the loop works on.
value == left[Len(left)]

Continuation_Unmasked(v) == 128 + v

\* (value & 0x7f) | 0x80, and what it leaves to encode.
Continuation(v) == 128 + (v % 128)

Rest_NotReduced(v) == v \div 128

Rest(v) == (v - 128) \div 128

EncodeShort ==
  /\ pc = "encode" /\ int < 240
  /\ bytes' = <<int>>
  /\ pc' = "encoded"
  /\ UNCHANGED <<int, left, buffer, consumed, val, weight>>

EncodeFirst ==
  /\ pc = "encode" /\ int >= 240
  /\ bytes' = <<240 + (int % 16)>>
  /\ left' = <<(int - 240) \div 16>>
  /\ pc' = "encoding"
  /\ UNCHANGED <<int, buffer, consumed, val, weight>>

EncodeContinue ==
  /\ pc = "encoding" /\ value >= 128
  /\ bytes' = Append(bytes, Continuation(value))
  /\ left' = Append(left, Rest(value))
  /\ UNCHANGED <<pc, int, buffer, consumed, val, weight>>

EncodeLast ==
  /\ pc = "encoding" /\ value < 128
  /\ bytes' = Append(bytes, value)
  /\ pc' = "encoded"
  /\ UNCHANGED <<int, left, buffer, consumed, val, weight>>

\* A chunk ends among the bytes, or behind them and what follows them.
Deliver ==
  /\ pc = "encoded"
  /\ \/ \E n \in 0..(Len(bytes) - 1) : buffer' = SubSeq(bytes, 1, n)
     \/ \E tail \in Tails : buffer' = bytes \o tail
  /\ pc' = "decode"
  /\ UNCHANGED <<int, left, bytes, consumed, val, weight>>

-----------------------------------------------------------------------------
DecodeShort ==
  /\ pc = "decode" /\ Len(buffer) >= 1
  /\ buffer[1] < 240
  /\ val' = buffer[1] /\ consumed' = 1
  /\ pc' = "returned"
  /\ UNCHANGED <<int, left, bytes, buffer, weight>>

DecodeFirst ==
  /\ pc = "decode" /\ Len(buffer) >= 1
  /\ buffer[1] >= 240
  /\ val' = buffer[1] /\ consumed' = 1
  /\ pc' = "decoding"
  /\ UNCHANGED <<int, left, bytes, buffer, weight>>

More_OffByOne == consumed + 1 < Len(buffer)

\* The condition of the loop.
More == consumed < Len(buffer)

DecodeContinue ==
  /\ pc = "decoding" /\ More
  /\ LET byte == buffer[consumed + 1] IN
       /\ val' = val + byte * weight
       /\ consumed' = consumed + 1
       /\ IF byte < 128 THEN pc' = "returned" /\ UNCHANGED weight
                        ELSE weight' = 128 * weight /\ UNCHANGED pc
  /\ UNCHANGED <<int, left, bytes, buffer>>

\* 'insufficient data'
DecodeThrows ==
  /\ \/ pc = "decode" /\ Len(buffer) < 1
     \/ pc = "decoding" /\ ~More
  /\ pc' = "thrown"
  /\ UNCHANGED <<int, left, bytes, buffer, consumed, val, weight>>

Done == pc \in {"returned", "thrown"} /\ UNCHANGED vars

Next ==
  \/ EncodeShort \/ EncodeFirst \/ EncodeContinue \/ EncodeLast
  \/ Deliver
  \/ DecodeShort \/ DecodeFirst \/ DecodeContinue \/ DecodeThrows
  \/ Done

Spec == Init /\ [][Next]_vars

-----------------------------------------------------------------------------
\* Type invariant: what is pushed to the result fits a byte.
TypeOK ==
  /\ pc \in {"encode", "encoding", "encoded", "decode", "decoding", "returned",
             "thrown"}
  /\ int \in Ints
  /\ left \in Seq(Nat)
  /\ bytes \in Seq(Byte) /\ buffer \in Seq(Byte)
  /\ consumed \in 0..Len(buffer)
  /\ val \in Int /\ weight \in Int

\* What is decoded is what was encoded, at every boundary of its length, and
\* decoding takes its bytes and none of those that follow: fields stand behind
\* each other in a frame and only this says where the next one begins.
RoundTrip == pc = "returned" => val = int /\ consumed = Len(bytes)

\* Decoding fails only for want of bytes: a buffer that holds the whole
\* integer is never refused.
OnlyCutsThrow == pc = "thrown" => Len(buffer) < Len(bytes)
=============================================================================
