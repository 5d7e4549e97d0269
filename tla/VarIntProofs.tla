---------------------------- MODULE VarIntProofs ----------------------------
(***************************************************************************)
(* VarInt's invariants, proved for every integer and every tail.           *)
(*                                                                         *)
(* The induction over the two loops needs what the bytes written so far    *)
(* say about the integer (Encoding) and what the bytes read so far say     *)
(* about it (Decoding): with the first i bytes read, the value decoded and *)
(* the value that was left to encode after them make up the integer.       *)
(***************************************************************************)
EXTENDS VarInt, TLAPS

\* The bytes with what was left after each of them: the first byte carries
\* the low four bits, each further one seven.
FirstByte ==
  /\ Len(left) >= 1
  /\ bytes[1] \in Int /\ bytes[1] >= 240
  /\ int = bytes[1] + 16 * left[1]

Chain ==
  \A k \in 1..(Len(left) - 1) :
    /\ bytes[k + 1] \in Int /\ bytes[k + 1] >= 128
    /\ left[k] = bytes[k + 1] + 128 * left[k + 1]

\* Encoding has come to an end.
Whole ==
  \/ /\ Len(bytes) = 1 /\ left = <<>>
     /\ int = bytes[1] /\ bytes[1] < 240
  \/ /\ FirstByte /\ Chain
     /\ Len(bytes) = Len(left) + 1
     /\ bytes[Len(bytes)] = left[Len(left)]
     /\ left[Len(left)] < 128

Encoding ==
  /\ pc = "encode" => left = <<>> /\ bytes = <<>>
  /\ pc = "encoding" => FirstByte /\ Chain /\ Len(bytes) = Len(left)
  /\ pc \notin {"encode", "encoding"} => Whole

\* The buffer begins with the bytes, or is where they are cut.
Delivered ==
  /\ pc \in {"encode", "encoding", "encoded"} => consumed = 0
  /\ pc \in {"decode", "decoding", "returned", "thrown"} =>
       \A k \in 1..Len(buffer) : k <= Len(bytes) => buffer[k] = bytes[k]
  /\ pc \in {"encode", "encoding", "encoded", "decode"} => weight = 16

Decoding ==
  pc = "decoding" =>
    /\ consumed \in 1..Len(left)
    /\ val + weight * left[consumed] = int

IInv == TypeOK /\ Encoding /\ Delivered /\ Decoding /\ RoundTrip /\ OnlyCutsThrow

-----------------------------------------------------------------------------
\* How an integer of two bytes or more splits into its first byte and the
\* rest, and what the loop works on into a byte and the rest.
LEMMA FirstSplit ==
  ASSUME NEW n \in Nat, n >= 240
  PROVE  /\ 240 + (n % 16) \in Int /\ 240 + (n % 16) >= 240 /\ 240 + (n % 16) <= 255
         /\ (n - 240) \div 16 \in Nat
         /\ n = 240 + (n % 16) + 16 * ((n - 240) \div 16)
OBVIOUS

LEMMA LoopSplit ==
  ASSUME NEW v \in Nat, v >= 128
  PROVE  /\ Continuation(v) \in Int /\ Continuation(v) >= 128 /\ Continuation(v) <= 255
         /\ Rest(v) \in Nat
         /\ v = Continuation(v) + 128 * Rest(v)
BY DEF Continuation, Rest

\* A byte read moves its share of the integer from what is left to the value.
LEMMA ShareMoves ==
  ASSUME NEW v \in Int, NEW w \in Int, NEW b \in Int, NEW r \in Int
  PROVE  v + w * (b + 128 * r) = (v + b * w) + (128 * w) * r
OBVIOUS

\* What the provers need to be told of bytes.
LEMMA ByteRange == \A b : b \in Byte <=> b \in Int /\ 0 <= b /\ b <= 255
BY DEF Byte

LEMMA ByteAt ==
  ASSUME NEW s \in Seq(Byte), NEW k \in 1..Len(s)
  PROVE  s[k] \in Int /\ 0 <= s[k] /\ s[k] <= 255
BY ByteRange

LEMMA ByteAppended ==
  ASSUME NEW s \in Seq(Byte), NEW b \in Int, 0 <= b, b <= 255
  PROVE  Append(s, b) \in Seq(Byte)
BY ByteRange

\* The bytes of a sequence stay in place when others follow.
LEMMA Followed ==
  ASSUME NEW S, NEW s \in Seq(S), NEW t \in Seq(S)
  PROVE  /\ s \o t \in Seq(S)
         /\ \A k \in 1..Len(s \o t) : k <= Len(s) => (s \o t)[k] = s[k]
OBVIOUS

-----------------------------------------------------------------------------
LEMMA InitHolds == Init => IInv
BY VarIntAssumption DEF Init, IInv, TypeOK, Encoding, Delivered, Decoding,
  RoundTrip, OnlyCutsThrow

\* The steps of encode.
LEMMA EncodeStep ==
  IInv /\ (EncodeShort \/ EncodeFirst \/ EncodeContinue \/ EncodeLast) => IInv'
<1> SUFFICES ASSUME IInv, EncodeShort \/ EncodeFirst \/ EncodeContinue \/ EncodeLast
             PROVE  IInv'
  OBVIOUS
<1> DEFINE Pushed == bytes' \in Seq(Byte) /\ left' \in Seq(Nat) /\ Encoding'
<1>i. int \in Nat
  BY VarIntAssumption DEF IInv, TypeOK
<1>u. /\ pc \in {"encode", "encoding"} /\ pc' \in {"encoding", "encoded"}
      /\ UNCHANGED <<int, buffer, consumed, val, weight>>
  BY DEF EncodeShort, EncodeFirst, EncodeContinue, EncodeLast
<1>p. Pushed => IInv'
  <2> SUFFICES ASSUME Pushed
               PROVE  IInv'
    OBVIOUS
  <2>1. TypeOK'
    BY <1>u DEF IInv, TypeOK
  <2>2. Delivered'
    BY <1>u DEF IInv, Delivered
  <2>3. Decoding' /\ RoundTrip' /\ OnlyCutsThrow'
    BY <1>u DEF Decoding, RoundTrip, OnlyCutsThrow
  <2> QED
    BY <2>1, <2>2, <2>3 DEF IInv
<1>1. CASE EncodeShort
  <2>1. int \in Byte
    BY <1>1, <1>i, ByteRange DEF EncodeShort
  <2> QED
    BY <1>1, <1>i, <1>p, <2>1 DEF EncodeShort, Encoding, Whole, IInv, TypeOK
<1>2. CASE EncodeFirst
  <2> DEFINE first == 240 + (int % 16)
             rest == (int - 240) \div 16
  <2>1. first \in Int /\ first >= 240 /\ first <= 255 /\ rest \in Nat /\ int = first + 16 * rest
    BY <1>2, <1>i, FirstSplit DEF EncodeFirst
  <2>2. bytes' = <<first>> /\ left' = <<rest>> /\ pc' = "encoding" /\ int' = int
    BY <1>2 DEF EncodeFirst
  <2> HIDE DEF first, rest
  <2>3. first \in Byte
    BY <2>1, ByteRange
  <2> QED
    BY <1>p, <2>1, <2>2, <2>3 DEF Encoding, FirstByte, Chain
<1>3. CASE EncodeContinue
  <2>1. /\ left \in Seq(Nat) /\ bytes \in Seq(Byte)
        /\ FirstByte /\ Chain /\ Len(bytes) = Len(left)
    BY <1>3 DEF EncodeContinue, IInv, TypeOK, Encoding
  <2>2. value \in Nat /\ value >= 128 /\ value = left[Len(left)]
    BY <1>3, <2>1 DEF EncodeContinue, value, FirstByte
  <2>3. /\ Continuation(value) \in Int /\ Continuation(value) >= 128
        /\ Continuation(value) <= 255 /\ Rest(value) \in Nat
        /\ value = Continuation(value) + 128 * Rest(value)
    BY <2>2, LoopSplit
  <2>4. /\ bytes' = Append(bytes, Continuation(value))
        /\ left' = Append(left, Rest(value))
        /\ pc' = "encoding" /\ int' = int
    BY <1>3 DEF EncodeContinue
  <2>5. bytes' \in Seq(Byte) /\ left' \in Seq(Nat)
    BY <2>1, <2>3, <2>4, ByteAppended
  <2>6. (FirstByte /\ Chain /\ Len(bytes) = Len(left))'
    BY <2>1, <2>2, <2>3, <2>4 DEF FirstByte, Chain
  <2> QED
    BY <1>p, <2>4, <2>5, <2>6 DEF Encoding
<1>4. CASE EncodeLast
  <2>1. /\ left \in Seq(Nat) /\ bytes \in Seq(Byte)
        /\ FirstByte /\ Chain /\ Len(bytes) = Len(left)
    BY <1>4 DEF EncodeLast, IInv, TypeOK, Encoding
  <2>2. value \in Nat /\ value < 128 /\ value = left[Len(left)]
    BY <1>4, <2>1 DEF EncodeLast, value, FirstByte
  <2>3. /\ bytes' = Append(bytes, value)
        /\ left' = left /\ pc' = "encoded" /\ int' = int
    BY <1>4 DEF EncodeLast
  <2>4. bytes' \in Seq(Byte)
    BY <2>1, <2>2, <2>3, ByteAppended
  <2>5. (FirstByte /\ Chain)'
    BY <2>1, <2>3 DEF FirstByte, Chain
  <2>6. /\ Len(bytes') = Len(left) + 1
        /\ bytes'[Len(bytes')] = left[Len(left)] /\ left[Len(left)] < 128
    BY <2>1, <2>2, <2>3
  <2> QED
    BY <1>p, <2>1, <2>3, <2>4, <2>5, <2>6 DEF Encoding, Whole
<1> QED
  BY <1>1, <1>2, <1>3, <1>4

\* Delivery keeps the bytes in place, whatever follows them.
LEMMA DeliverStep == IInv /\ Deliver => IInv'
<1> SUFFICES ASSUME IInv, Deliver
             PROVE  IInv'
  OBVIOUS
<1> USE DEF IInv, TypeOK, Delivered, Decoding, RoundTrip, OnlyCutsThrow, Deliver
<1>1. /\ buffer' \in Seq(Byte)
      /\ \A k \in 1..Len(buffer') : k <= Len(bytes) => buffer'[k] = bytes[k]
  <2>1. CASE \E n \in 0..(Len(bytes) - 1) : buffer' = SubSeq(bytes, 1, n)
    BY <2>1
  <2>2. CASE \E tail \in Tails : buffer' = bytes \o tail
    <3>1. PICK tail \in Seq(Byte) : buffer' = bytes \o tail
      BY <2>2, VarIntAssumption
    <3> QED
      BY <3>1, Followed
  <2> QED
    BY <2>1, <2>2
<1> QED
  BY <1>1 DEF Encoding, Whole, FirstByte, Chain

\* The steps of decode.
LEMMA DecodeStep ==
  IInv /\ (DecodeShort \/ DecodeFirst \/ DecodeContinue \/ DecodeThrows) => IInv'
<1> SUFFICES ASSUME IInv, DecodeShort \/ DecodeFirst \/ DecodeContinue \/ DecodeThrows
             PROVE  IInv'
  OBVIOUS
<1>1. /\ pc \in {"decode", "decoding"}
      /\ pc' \in {"decoding", "returned", "thrown"}
      /\ UNCHANGED <<int, left, bytes, buffer>>
  BY DEF DecodeShort, DecodeFirst, DecodeContinue, DecodeThrows
<1>2. /\ int \in Ints /\ int \in Nat
      /\ left \in Seq(Nat) /\ bytes \in Seq(Byte) /\ buffer \in Seq(Byte)
      /\ consumed \in 0..Len(buffer) /\ val \in Int /\ weight \in Int
  BY VarIntAssumption DEF IInv, TypeOK
<1>3. Whole /\ \A k \in 1..Len(buffer) : k <= Len(bytes) => buffer[k] = bytes[k]
  BY <1>1 DEF IInv, Encoding, Delivered
<1>4. Len(bytes) >= 1
  BY <1>2, <1>3 DEF Whole, FirstByte
<1>5. Encoding' /\ Delivered'
  BY <1>1, <1>3 DEF Encoding, Delivered, Whole, FirstByte, Chain
<1> DEFINE Fields == /\ consumed' \in 0..Len(buffer)
                     /\ val' \in Int /\ weight' \in Int
<1>6. Fields => TypeOK'
  BY <1>1, <1>2 DEF TypeOK
<1> HIDE DEF Fields
<1>d. CASE DecodeShort
  <2>1. buffer[1] = bytes[1] /\ buffer[1] \in Int /\ buffer[1] < 240
    BY <1>d, <1>2, <1>3, <1>4, ByteAt DEF DecodeShort
  <2>2. ~FirstByte
    BY <2>1 DEF FirstByte
  <2>3. Len(bytes) = 1 /\ int = bytes[1]
    BY <1>3, <2>2 DEF Whole
  <2>4. Fields /\ pc' = "returned" /\ val' = int /\ consumed' = Len(bytes)
    BY <1>d, <1>2, <2>1, <2>3 DEF DecodeShort, Fields
  <2> QED
    BY <1>1, <1>5, <1>6, <2>4 DEF IInv, Decoding, RoundTrip, OnlyCutsThrow
<1>f. CASE DecodeFirst
  <2>1. buffer[1] = bytes[1] /\ buffer[1] \in Int /\ buffer[1] >= 240
    BY <1>f, <1>2, <1>3, <1>4, ByteAt DEF DecodeFirst
  <2>2. FirstByte
    BY <1>3, <2>1 DEF Whole
  <2>3. 1 \in 1..Len(left) /\ left[1] \in Nat /\ bytes[1] + 16 * left[1] = int
    BY <1>2, <2>2 DEF FirstByte
  <2>4. /\ Fields /\ pc' = "decoding" /\ consumed' = 1
        /\ val' = bytes[1] /\ weight' = 16
    BY <1>f, <1>2, <2>1 DEF DecodeFirst, Fields, IInv, Delivered
  <2> QED
    BY <1>1, <1>5, <1>6, <2>3, <2>4 DEF IInv, Decoding, RoundTrip, OnlyCutsThrow
<1>c. CASE DecodeContinue
  <2> DEFINE byte == buffer[consumed + 1]
  <2>1. /\ consumed \in 1..Len(left) /\ consumed + 1 \in 1..Len(buffer)
        /\ val + weight * left[consumed] = int
    BY <1>c, <1>2 DEF DecodeContinue, More, IInv, Decoding
  <2>2. /\ Chain /\ Len(bytes) = Len(left) + 1
        /\ bytes[Len(bytes)] = left[Len(left)] /\ left[Len(left)] < 128
    BY <1>2, <1>3, <2>1 DEF Whole
  <2>3. byte = bytes[consumed + 1] /\ byte \in Int
    BY <1>2, <1>3, <2>1, <2>2, ByteAt
  <2>4. /\ val' = val + byte * weight /\ consumed' = consumed + 1
        /\ byte < 128 => pc' = "returned" /\ weight' = weight
        /\ ~(byte < 128) => pc' = "decoding" /\ weight' = 128 * weight
    BY <1>c DEF DecodeContinue
  <2> HIDE DEF byte
  <2>5. Fields
    <3>1. consumed' \in 0..Len(buffer)
      BY <2>1, <2>4
    <3>2. byte * weight \in Int /\ val + byte * weight \in Int
      BY <1>2, <2>3
    <3>3. 128 * weight \in Int
      BY <1>2
    <3>4. weight' = weight \/ weight' = 128 * weight
      BY <2>4
    <3>5. weight' \in Int
      BY <1>2, <3>3, <3>4, Zenon
    <3>6. val' \in Int
      BY <2>4, <3>2, Zenon
    <3> QED
      BY <3>1, <3>5, <3>6, Zenon DEF Fields
  <2>6. CASE consumed = Len(left)
    <3>1. byte < 128 /\ left[consumed] = byte
      BY <2>2, <2>3, <2>6
    <3>2. byte * weight = weight * byte
      BY <1>2, <2>3
    <3>3. pc' = "returned" /\ val' = int /\ consumed' = Len(bytes)
      BY <2>1, <2>2, <2>4, <2>6, <3>1, <3>2
    <3> QED
      BY <1>1, <1>5, <1>6, <2>5, <3>3 DEF IInv, Decoding, RoundTrip, OnlyCutsThrow
  <2>7. CASE consumed < Len(left)
    <3>1. consumed \in 1..(Len(left) - 1) /\ consumed + 1 \in 1..Len(left)
      BY <1>2, <2>1, <2>7
    <3>2. /\ byte >= 128 /\ left[consumed] = byte + 128 * left[consumed + 1]
          /\ left[consumed + 1] \in Int
      BY <1>2, <2>2, <2>3, <3>1 DEF Chain
    <3>3. pc' = "decoding" /\ weight' = 128 * weight
      BY <2>3, <2>4, <3>2
    <3>4. val' + weight' * left[consumed + 1] = int
      <4>1. val + weight * (byte + 128 * left[consumed + 1])
              = (val + byte * weight) + (128 * weight) * left[consumed + 1]
        <5>1. \A r \in Int : val + weight * (byte + 128 * r)
                              = (val + byte * weight) + (128 * weight) * r
          BY <1>2, <2>3, ShareMoves
        <5> QED
          BY <3>2, <5>1
      <4> QED
        BY <2>1, <2>4, <3>2, <3>3, <4>1, Zenon
    <3> QED
      BY <1>1, <1>5, <1>6, <2>4, <2>5, <3>1, <3>3, <3>4
      DEF IInv, Decoding, RoundTrip, OnlyCutsThrow
  <2> QED
    BY <1>2, <2>1, <2>6, <2>7
<1>t. CASE DecodeThrows
  <2>1. Fields /\ pc' = "thrown" /\ Len(buffer) < Len(bytes)
    <3>1. CASE pc = "decode"
      BY <1>t, <1>2, <1>4, <3>1 DEF DecodeThrows, Fields
    <3>2. CASE pc = "decoding"
      <4>1. consumed = Len(buffer) /\ consumed \in 1..Len(left)
        BY <1>t, <1>2, <3>2 DEF DecodeThrows, More, IInv, Decoding
      <4>2. Len(bytes) = Len(left) + 1
        BY <1>2, <1>3, <4>1 DEF Whole
      <4> QED
        BY <1>t, <1>2, <3>2, <4>1, <4>2 DEF DecodeThrows, Fields
    <3> QED
      BY <1>1, <3>1, <3>2
  <2> QED
    BY <1>1, <1>5, <1>6, <2>1 DEF IInv, Decoding, RoundTrip, OnlyCutsThrow
<1> QED
  BY <1>d, <1>f, <1>c, <1>t

LEMMA StepHolds == IInv /\ [Next]_vars => IInv'
<1> SUFFICES ASSUME IInv, [Next]_vars
             PROVE  IInv'
  OBVIOUS
<1>1. CASE UNCHANGED vars
  BY <1>1 DEF vars, IInv, TypeOK, Encoding, Whole, FirstByte, Chain, Delivered,
    Decoding, RoundTrip, OnlyCutsThrow
<1> QED
  BY <1>1, EncodeStep, DeliverStep, DecodeStep DEF Next, Done

THEOREM Inductive == Spec => []IInv
BY InitHolds, StepHolds, PTL DEF Spec

\* What encode pushes fits a byte, and the other fields keep their types.
THEOREM CodecTypes == Spec => []TypeOK
<1>1. IInv => TypeOK
  BY DEF IInv
<1> QED
  BY <1>1, Inductive, PTL

\* Every natural number survives the round trip, and decoding takes exactly
\* its bytes.
THEOREM RoundTripExact == Spec => []RoundTrip
<1>1. IInv => RoundTrip
  BY DEF IInv
<1> QED
  BY <1>1, Inductive, PTL

\* A buffer with all the bytes of an integer is never refused.
THEOREM WholeIsDecoded == Spec => []OnlyCutsThrow
<1>1. IInv => OnlyCutsThrow
  BY DEF IInv
<1> QED
  BY <1>1, Inductive, PTL
=============================================================================
