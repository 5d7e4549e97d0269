-------------------------- MODULE PeerParserProofs --------------------------
(***************************************************************************)
(* The parser's messages are what the stream means, for every set of       *)
(* frames, tables, keys and words, and every way of cutting the stream.    *)
(*                                                                         *)
(* The first lemmas are about streams: what a longer stream says of its    *)
(* first i frames is what they say alone, and what one more frame changes. *)
(* The invariant then says that the three fields carried from frame to     *)
(* frame hold what the parsed prefix means, and that the buffer begins     *)
(* where the last parsed frame ends.                                       *)
(***************************************************************************)
EXTENDS PeerParser, FiniteSetTheorems, TLAPS

\* What is known of a prefix does not change when the stream grows.
LEMMA PrefixSame ==
  ASSUME NEW s \in Seq(Frames), NEW f \in Frames, NEW i \in 0..Len(s)
  PROVE  /\ \A j \in 1..i : Append(s, f)[j] = s[j]
         /\ Definitions(Append(s, f), i) = Definitions(s, i)
         /\ Explicits(Append(s, f), i) = Explicits(s, i)
         /\ \A key : Lines(Append(s, f), i, key) = Lines(s, i, key)
         /\ \A j \in 0..i : CountedSince(Append(s, f), j, i) = CountedSince(s, j, i)
<1>1. \A j \in 1..i : Append(s, f)[j] = s[j]
  OBVIOUS
<1>2. \A j \in 0..i : \A k \in (j + 1)..i : k \in 1..i
  OBVIOUS
<1> QED
  BY <1>1, <1>2 DEF Definitions, Explicits, Lines, CountedSince, IsUpdate

\* So the table, id and word in force after a prefix stay the same, too.
LEMMA PrefixStateSame ==
  ASSUME NEW s \in Seq(Frames), NEW f \in Frames, NEW i \in 0..Len(s)
  PROVE  /\ \A t : TableIs(s, i, t) => TableIs(Append(s, f), i, t)
         /\ \A n : IdIs(s, i, n) => IdIs(Append(s, f), i, n)
         /\ \A key, w : WordIs(s, i, key, w) => WordIs(Append(s, f), i, key, w)
<1> DEFINE a == Append(s, f)
<1>0. \A j \in 0..i : j # 0 => a[j] = s[j]
  BY PrefixSame
<1> HIDE DEF a
<1>1. /\ Definitions(a, i) = Definitions(s, i)
      /\ Explicits(a, i) = Explicits(s, i)
      /\ \A key : Lines(a, i, key) = Lines(s, i, key)
      /\ \A j \in 0..i : CountedSince(a, j, i) = CountedSince(s, j, i)
  BY PrefixSame DEF a
<1>2. \A t : TableIs(s, i, t) => TableIs(a, i, t)
  BY <1>0, <1>1 DEF TableIs
<1>3. \A n : IdIs(s, i, n) => IdIs(a, i, n)
  BY <1>0, <1>1 DEF IdIs
<1>4. \A key, w : WordIs(s, i, key, w) => WordIs(a, i, key, w)
  BY <1>0, <1>1 DEF WordIs
<1> QED BY <1>2, <1>3, <1>4 DEF a

\* Nor does the meaning of a frame, or that it can be understood.
LEMMA MeaningSame ==
  ASSUME NEW s \in Seq(Frames), NEW f \in Frames, NEW i \in 1..Len(s)
  PROVE  /\ \A m : Means(s, m, i) => Means(Append(s, f), m, i)
         /\ Understandable(Append(s, f), i) <=> Understandable(s, i)
<1>1. Append(s, f)[i] = s[i]
  OBVIOUS
<1>2. i \in 0..Len(s)
  OBVIOUS
<1>3. \A m : Means(s, m, i) => Means(Append(s, f), m, i)
  BY <1>1, <1>2, PrefixStateSame DEF Means
<1>4. Understandable(Append(s, f), i) <=> Understandable(s, i)
  BY <1>1, <1>2, PrefixSame DEF Understandable
<1> QED BY <1>3, <1>4

-----------------------------------------------------------------------------
\* What one more frame changes.

\* A new position is the last one of the set it joins.
LEMMA LastAdded ==
  ASSUME NEW i \in Nat, NEW S \in SUBSET (1..i)
  PROVE  IsLast(i + 1, S \cup {i + 1})
BY DEF IsLast

\* A definition takes over; any other frame leaves the table in force.
LEMMA TableStep ==
  ASSUME NEW s \in Seq(Frames), NEW i \in Nat, i < Len(s), NEW t,
         TableIs(s, i, t)
  PROVE  TableIs(s, i + 1,
                 IF s[i + 1].class = "definition" THEN s[i + 1].table ELSE t)
<1>1. CASE s[i + 1].class = "definition"
  <2>1. Definitions(s, i + 1) = Definitions(s, i) \cup {i + 1}
    BY <1>1 DEF Definitions
  <2>2. Definitions(s, i) \in SUBSET (1..i)
    BY DEF Definitions
  <2>3. IsLast(i + 1, Definitions(s, i + 1))
    BY <2>1, <2>2, LastAdded
  <2> QED BY <1>1, <2>3 DEF TableIs
<1>2. CASE s[i + 1].class # "definition"
  <2>1. Definitions(s, i + 1) = Definitions(s, i)
    BY <1>2 DEF Definitions
  <2> QED BY <1>2, <2>1 DEF TableIs
<1> QED BY <1>1, <1>2

\* An explicit id takes over, an incremental update adds one.
LEMMA IdStep ==
  ASSUME NEW s \in Seq(Frames), NEW i \in Nat, i < Len(s), NEW n \in Nat,
         IdIs(s, i, n)
  PROVE  IdIs(s, i + 1, IF s[i + 1].class # "update" THEN n
                        ELSE IF s[i + 1].incremental THEN n + 1
                        ELSE s[i + 1].id)
<1>0. s[i + 1] \in Frame
  BY FramesAssumption
<1>1. CASE IsUpdate(s, i + 1) /\ ~s[i + 1].incremental
  <2>1. Explicits(s, i + 1) = Explicits(s, i) \cup {i + 1}
    BY <1>1 DEF Explicits
  <2>2. Explicits(s, i) \in SUBSET (1..i)
    BY DEF Explicits
  <2>3. IsLast(i + 1, Explicits(s, i + 1))
    BY <2>1, <2>2, LastAdded
  <2>4. CountedSince(s, i + 1, i + 1) = {}
    BY DEF CountedSince
  <2>5. s[i + 1].id = s[i + 1].id + Cardinality(CountedSince(s, i + 1, i + 1))
    <3>1. s[i + 1].id \in Nat
      BY <1>0 DEF Frame
    <3>2. Cardinality(CountedSince(s, i + 1, i + 1)) = 0
      BY <2>4, FS_EmptySet
    <3> QED BY <3>1, <3>2
  <2>6. IdIs(s, i + 1, s[i + 1].id)
    BY <2>3, <2>5 DEF IdIs
  <2> QED BY <1>1, <2>6 DEF IsUpdate
<1>2. CASE ~(IsUpdate(s, i + 1) /\ ~s[i + 1].incremental)
  <2> DEFINE base(j) == IF j = 0 THEN 0 ELSE s[j].id
             added == IF IsUpdate(s, i + 1) THEN 1 ELSE 0
  <2>1. Explicits(s, i + 1) = Explicits(s, i)
    BY <1>2 DEF Explicits
  <2>2. PICK j \in 0..i : /\ IsLast(j, Explicits(s, i))
                          /\ n = base(j) + Cardinality(CountedSince(s, j, i))
    BY DEF IdIs
  <2>3. base(j) \in Nat
    <3>1. j # 0 => s[j] \in Frame
      BY FramesAssumption
    <3> QED BY <3>1 DEF Frame
  <2>4. /\ IsFiniteSet(CountedSince(s, j, i))
        /\ Cardinality(CountedSince(s, j, i)) \in Nat
    <3>1. CountedSince(s, j, i) \in SUBSET ((j + 1)..i)
      BY DEF CountedSince
    <3>2. IsFiniteSet((j + 1)..i)
      BY FS_Interval
    <3> QED BY <3>1, <3>2, FS_Subset, FS_CardinalityType
  <2>5. Cardinality(CountedSince(s, j, i + 1))
          = Cardinality(CountedSince(s, j, i)) + added
    <3>1. CASE IsUpdate(s, i + 1)
      <4>1. /\ CountedSince(s, j, i + 1) = CountedSince(s, j, i) \cup {i + 1}
            /\ i + 1 \notin CountedSince(s, j, i)
        BY <1>2, <3>1 DEF CountedSince
      <4> QED BY <2>4, <3>1, <4>1, FS_AddElement
    <3>2. CASE ~IsUpdate(s, i + 1)
      <4>1. CountedSince(s, j, i + 1) = CountedSince(s, j, i)
        BY <3>2 DEF CountedSince
      <4> QED BY <2>4, <3>2, <4>1
    <3> QED BY <3>1, <3>2
  <2>6. n + added = base(j) + Cardinality(CountedSince(s, j, i + 1))
    <3>1. added \in Nat
      OBVIOUS
    <3> DEFINE b == base(j)
               c == Cardinality(CountedSince(s, j, i))
    <3>2. b \in Nat /\ c \in Nat /\ n = b + c
      BY <2>2, <2>3, <2>4
    <3>3. Cardinality(CountedSince(s, j, i + 1)) = c + added
      BY <2>5
    <3> HIDE DEF added, b, c
    <3>4. n + added = b + (c + added)
      BY <3>1, <3>2
    <3> QED BY <3>3, <3>4 DEF b
  <2>7. IdIs(s, i + 1, n + added)
    BY <2>1, <2>2, <2>6 DEF IdIs
  <2> QED BY <1>2, <2>7 DEF IsUpdate
<1> QED BY <1>1, <1>2

\* A new line takes over its key.
LEMMA WordStep ==
  ASSUME NEW s \in Seq(Frames), NEW i \in Nat, i < Len(s), NEW key, NEW w,
         WordIs(s, i, key, w)
  PROVE  WordIs(s, i + 1, key,
                IF /\ s[i + 1].class = "update" /\ s[i + 1].dict = "line"
                   /\ s[i + 1].key = key
                THEN s[i + 1].word ELSE w)
<1> DEFINE IsLine == /\ s[i + 1].class = "update" /\ s[i + 1].dict = "line"
                     /\ s[i + 1].key = key
<1>1. CASE IsLine
  <2>1. Lines(s, i + 1, key) = Lines(s, i, key) \cup {i + 1}
    BY <1>1 DEF Lines, IsUpdate
  <2>2. Lines(s, i, key) \in SUBSET (1..i)
    BY DEF Lines
  <2>3. IsLast(i + 1, Lines(s, i + 1, key))
    BY <2>1, <2>2, LastAdded
  <2> QED BY <1>1, <2>3 DEF WordIs
<1>2. CASE ~IsLine
  <2>1. Lines(s, i + 1, key) = Lines(s, i, key)
    BY <1>2 DEF Lines, IsUpdate
  <2> QED BY <1>2, <2>1 DEF WordIs
<1> QED BY <1>1, <1>2

\* No table and no word is in force exactly when none was given.
LEMMA NoneMeansNever ==
  ASSUME NEW s \in Seq(Frames), NEW i \in 0..Len(s)
  PROVE  /\ \A t : TableIs(s, i, t) => (t = None <=> Definitions(s, i) = {})
         /\ \A key, w : WordIs(s, i, key, w) => (w = None <=> Lines(s, i, key) = {})
<1>1. \A j \in 1..i : s[j].table # None /\ s[j].word # None
  <2> TAKE j \in 1..i
  <2>1. s[j] \in Frame
    BY FramesAssumption
  <2> QED BY <2>1, NoneAssumption DEF Frame
<1>2. \A t : TableIs(s, i, t) => (t = None <=> Definitions(s, i) = {})
  BY <1>1 DEF TableIs, IsLast, Definitions
<1>3. \A key, w : WordIs(s, i, key, w) => (w = None <=> Lines(s, i, key) = {})
  BY <1>1 DEF WordIs, IsLast, Lines
<1> QED BY <1>2, <1>3

-----------------------------------------------------------------------------
\* The buffer begins where the last parsed frame ends.
Boundaries ==
  /\ consumed = EndOf(parsed)
  /\ \A i \in 1..Len(sent) : ends[i] = EndOf(i - 1) + Size(sent[i])

\* The fields carried from frame to frame hold what the prefix means.
FieldsReflectStream ==
  failed # "listener" =>
    /\ TableIs(sent, parsed, lastTableDefinition)
    /\ IdIs(sent, parsed, lastUpdateId)
    /\ \A key \in Keys : WordIs(sent, parsed, key, dictionaryCache[key])

\* A failed stream stopped in front of a frame.
StopsAtFrame == failed # "no" => parsed < Len(sent) /\ ~inTransform

IInv == /\ TypeOK
        /\ Boundaries
        /\ FieldsReflectStream
        /\ StopsAtFrame
        /\ PushedAsSent
        /\ FailureExplained

\* A frame the peer may send has a size.
LEMMA SizeType == \A f \in Frames : Size(f) \in Nat /\ f \in Frame
BY FramesAssumption DEF Frame, Size, HeaderSize

\* It has at least the byte of its class.
LEMMA SizePositive == \A f \in Frames : Size(f) \in Nat /\ Size(f) > 0
BY FramesAssumption DEF Frame, Size, HeaderSize

\* A byte in the buffer belongs to a frame that was sent.
LEMMA BufferedFrame ==
  ASSUME TypeOK, Boundaries, buffered > 0
  PROVE  /\ parsed < Len(sent)
         /\ NextFrame \in Frames
         /\ EndOf(parsed + 1) = consumed + Size(NextFrame)
<1>1. parsed < Len(sent)
  BY DEF TypeOK, Boundaries, buffered
<1>2. parsed + 1 \in 1..Len(sent)
  BY <1>1 DEF TypeOK
<1> QED BY <1>1, <1>2 DEF TypeOK, Boundaries, NextFrame, EndOf

\* The empty stream satisfies the inductive invariant.
LEMMA InitIInv == Init => IInv
<1> SUFFICES ASSUME Init PROVE IInv
  OBVIOUS
<1> USE DEF Init
<1>1. Len(sent) = 0 /\ parsed = 0 /\ EndOf(0) = 0
  BY DEF EndOf
<1>2. TypeOK
  <2>1. sent \in Seq(Frames) /\ ends \in Seq(Nat) /\ pushed \in Seq(Messages)
    OBVIOUS
  <2>2. dictionaryCache \in [Keys -> Words \cup {None}]
    OBVIOUS
  <2>3. Len(ends) = Len(sent) /\ received \in consumed..EndOf(Len(sent))
    BY <1>1
  <2>4. parsed \in 0..Len(sent)
    BY <1>1
  <2> QED BY <2>1, <2>2, <2>3, <2>4 DEF TypeOK
<1>3. Boundaries
  BY <1>1 DEF Boundaries
<1>4. FieldsReflectStream
  <2>1. /\ Definitions(sent, 0) = {} /\ Explicits(sent, 0) = {}
        /\ \A key : Lines(sent, 0, key) = {}
        /\ CountedSince(sent, 0, 0) = {}
    BY DEF Definitions, Explicits, Lines, CountedSince
  <2>2. TableIs(sent, 0, None) /\ \A key : WordIs(sent, 0, key, None)
    BY <2>1 DEF TableIs, WordIs, IsLast
  <2>3. IdIs(sent, 0, 0)
    BY <2>1, FS_EmptySet DEF IdIs, IsLast
  <2> QED BY <2>2, <2>3 DEF FieldsReflectStream
<1>5. StopsAtFrame /\ PushedAsSent /\ FailureExplained
  BY DEF StopsAtFrame, PushedAsSent, FailureExplained
<1> QED BY <1>2, <1>3, <1>4, <1>5 DEF IInv

\* Sending more leaves the parser and what it parsed as they were.
LEMMA SendStep ==
  ASSUME IInv, NEW f \in Frames, PeerSend(f)
  PROVE  IInv'
<1> USE DEF IInv
<1>1. /\ sent' = Append(sent, f) /\ Len(sent') = Len(sent) + 1
      /\ ends' = Append(ends, EndOf(Len(sent)) + Size(f))
      /\ UNCHANGED <<received, consumed, inTransform, parsed,
                     lastTableDefinition, lastUpdateId, dictionaryCache,
                     pushed, failed>>
  BY DEF PeerSend, state, TypeOK
<1>2. EndOf(Len(sent)) \in Nat /\ Size(f) \in Nat
  BY SizeType DEF TypeOK, EndOf
<1>3. /\ ends' \in Seq(Nat) /\ Len(ends') = Len(sent')
      /\ \A i \in 1..Len(sent) : ends'[i] = ends[i] /\ sent'[i] = sent[i]
      /\ ends'[Len(sent')] = EndOf(Len(sent)) + Size(f)
      /\ sent'[Len(sent')] = f
  BY <1>1, <1>2 DEF TypeOK
<1>4. \A i \in 0..Len(sent) : EndOf(i)' = EndOf(i)
  BY <1>3 DEF EndOf
<1>5. TypeOK'
  <2>1. EndOf(Len(sent))' = EndOf(Len(sent)) + Size(f)
    BY <1>1, <1>3 DEF EndOf, TypeOK
  <2>2. received' \in consumed'..EndOf(Len(sent))'
    BY <1>1, <1>2, <2>1 DEF TypeOK
  <2>3. sent' \in Seq(Frames) /\ parsed' \in 0..Len(sent')
    BY <1>1 DEF TypeOK
  <2> QED BY <1>1, <1>3, <2>2, <2>3 DEF TypeOK
<1>6. Boundaries'
  <2>1. consumed' = EndOf(parsed)'
    BY <1>1, <1>4 DEF Boundaries, TypeOK, EndOf
  <2>2. ASSUME NEW i \in 1..Len(sent')
        PROVE  ends'[i] = EndOf(i - 1)' + Size(sent'[i])
    <3>1. CASE i \in 1..Len(sent)
      <4>1. EndOf(i - 1)' = EndOf(i - 1)
        BY <1>4, <3>1
      <4>2. ends[i] = EndOf(i - 1) + Size(sent[i])
        BY <3>1 DEF Boundaries
      <4> QED BY <1>3, <3>1, <4>1, <4>2
    <3>2. CASE i = Len(sent) + 1
      <4>1. i - 1 = Len(sent) /\ i - 1 \in 0..Len(sent)
        BY <3>2 DEF TypeOK
      <4>2. EndOf(i - 1)' = EndOf(i - 1) /\ EndOf(i - 1) = EndOf(Len(sent))
        BY <1>4, <4>1
      <4>3. i = Len(sent')
        BY <1>1, <3>2
      <4> QED BY <1>3, <4>2, <4>3
    <3> QED BY <1>1, <3>1, <3>2 DEF TypeOK
  <2> QED BY <2>1, <2>2 DEF Boundaries
<1>7. FieldsReflectStream'
  <2> SUFFICES ASSUME failed' # "listener"
               PROVE  /\ TableIs(sent', parsed', lastTableDefinition')
                      /\ IdIs(sent', parsed', lastUpdateId')
                      /\ \A key \in Keys :
                           WordIs(sent', parsed', key, dictionaryCache'[key])
    BY DEF FieldsReflectStream
  <2>1. parsed \in 0..Len(sent) /\ sent \in Seq(Frames)
    BY DEF TypeOK
  <2> QED BY <1>1, <2>1, PrefixStateSame DEF FieldsReflectStream
<1>8. StopsAtFrame'
  BY <1>1 DEF StopsAtFrame, TypeOK
<1>9. PushedAsSent'
  <2>1. Len(pushed) <= Len(sent)
    BY DEF PushedAsSent, StopsAtFrame, TypeOK
  <2>2. \A i \in 1..Len(pushed) : Means(sent', pushed[i], i)
    <3> TAKE i \in 1..Len(pushed)
    <3>1. i \in 1..Len(sent)
      BY <2>1 DEF TypeOK
    <3>2. sent \in Seq(Frames) /\ Means(sent, pushed[i], i)
      BY DEF PushedAsSent, TypeOK
    <3> QED BY <1>1, <3>1, <3>2, MeaningSame
  <2> QED BY <1>1, <2>2 DEF PushedAsSent
<1>10. FailureExplained'
  <2> SUFFICES ASSUME failed' = "parse"
               PROVE  ~Understandable(sent', parsed' + 1) \/ LengthCut'
    BY DEF FailureExplained
  <2>1. parsed + 1 \in 1..Len(sent)
    BY <1>1 DEF StopsAtFrame, TypeOK
  <2>2. CASE ~Understandable(sent, parsed + 1)
    BY <1>1, <2>1, <2>2, MeaningSame DEF TypeOK
  <2>3. CASE LengthCut
    <3>1. NextFrame' = NextFrame
      BY <1>1, <1>3, <2>1 DEF NextFrame
    <3> QED BY <1>1, <2>3, <3>1 DEF LengthCut, LengthCutShort, buffered
  <2> QED BY <1>1, <2>2, <2>3 DEF FailureExplained
<1> QED BY <1>5, <1>6, <1>7, <1>8, <1>9, <1>10

\* Parsing a frame that is complete and not rejected: what it pushes is what
\* the frame means, and the fields are those of the longer prefix.
LEMMA AcceptStep ==
  ASSUME IInv, inTransform, Completes, Accept(NextFrame), sent' = sent
  PROVE  /\ parsed < Len(sent) /\ NextFrame \in Frames
         /\ lastTableDefinition' \in Tables \cup {None}
         /\ lastUpdateId' \in Nat
         /\ dictionaryCache' \in [Keys -> Words \cup {None}]
         /\ Message(NextFrame) \in Messages
         /\ Means(sent, Message(NextFrame), parsed + 1)
         /\ TableIs(sent, parsed + 1, lastTableDefinition')
         /\ IdIs(sent, parsed + 1, lastUpdateId')
         /\ \A key \in Keys :
              WordIs(sent, parsed + 1, key, dictionaryCache'[key])
<1> DEFINE f == NextFrame
           i == parsed + 1
<1> USE DEF IInv
<1>1. /\ parsed < Len(sent) /\ f \in Frames /\ f \in Frame
      /\ sent \in Seq(Frames) /\ parsed \in Nat /\ sent[i] = f
  BY BufferedFrame, SizeType DEF Completes, TypeOK, NextFrame
<1>2. /\ f.class \in {"control", "definition", "update"}
      /\ f.class = "update" => lastTableDefinition # None
      /\ f.class = "update" /\ f.dict = "reference"
           => dictionaryCache[f.key] # None
  <2>1. /\ f \in Frame /\ buffered >= Size(f) /\ buffered \in Int
        /\ f.class # "unknown" => Size(f) > 1
    BY <1>1 DEF Completes, Complete, Frame, Size, HeaderSize, TypeOK, buffered
  <2>2. f.class # "unknown"
    BY DEF Completes, Rejected
  <2>3. buffered > 1
    BY <2>1, <2>2, SizeType, <1>1
  <2>4. Complete(f)
    BY DEF Completes
  <2> QED
    BY <2>1, <2>2, <2>3, <2>4 
       DEF Completes, Rejected, DefinitionParses, UpdateParses, Resolvable, Frame
<1>3. /\ TableIs(sent, parsed, lastTableDefinition)
      /\ IdIs(sent, parsed, lastUpdateId)
      /\ \A key \in Keys : WordIs(sent, parsed, key, dictionaryCache[key])
  BY DEF FieldsReflectStream, StopsAtFrame
<1>4. /\ lastTableDefinition' = IF f.class = "definition" THEN f.table
                                ELSE lastTableDefinition
      /\ lastUpdateId' = IF f.class # "update" THEN lastUpdateId
                         ELSE IF f.incremental THEN lastUpdateId + 1
                         ELSE f.id
      /\ dictionaryCache' = IF f.class = "update" /\ f.dict = "line"
                            THEN [dictionaryCache EXCEPT ![f.key] = f.word]
                            ELSE dictionaryCache
  BY DEF Accept, NextUpdateId, UpdateId, CacheAfter
<1> HIDE DEF f, i
<1>5. /\ lastTableDefinition' \in Tables \cup {None}
      /\ lastUpdateId' \in Nat
      /\ dictionaryCache' \in [Keys -> Words \cup {None}]
  BY <1>1, <1>4 DEF TypeOK, Frame
<1>6. TableIs(sent, i, lastTableDefinition')
  BY <1>1, <1>3, <1>4, TableStep DEF i
<1>7. IdIs(sent, i, lastUpdateId')
  BY <1>1, <1>3, <1>4, IdStep DEF i, TypeOK
<1>8. ASSUME NEW key \in Keys
      PROVE  WordIs(sent, i, key, dictionaryCache'[key])
  <2>1. dictionaryCache'[key] = IF /\ f.class = "update" /\ f.dict = "line"
                                   /\ f.key = key
                                THEN f.word ELSE dictionaryCache[key]
    BY <1>4 DEF TypeOK
  <2> QED BY <1>1, <1>3, <2>1, WordStep DEF i
<1>9. Message(f) \in Messages /\ Means(sent, Message(f), i)
  <2>1. CASE f.class = "control"
    BY <1>1, <2>1 DEF Message, Messages, Means
  <2>2. CASE f.class = "definition"
    BY <1>1, <2>2 DEF Message, Messages, Means, Frame
  <2>3. CASE f.class = "update"
    <3>1. Message(f) = [class |-> "update", table |-> lastTableDefinition,
                        id |-> UpdateId(f), dict |-> DictValue(f)]
      BY <2>3 DEF Message
    <3>2. /\ lastTableDefinition \in Tables
          /\ lastTableDefinition' = lastTableDefinition
      BY <1>2, <1>4, <2>3 DEF TypeOK
    <3>3. UpdateId(f) \in Nat /\ UpdateId(f) = lastUpdateId'
      BY <1>4, <1>5, <2>3 DEF UpdateId
    <3>4. /\ DictValue(f) \in Words \cup {None}
          /\ IF f.dict = "none" THEN DictValue(f) = None
             ELSE DictValue(f) = dictionaryCache'[f.key]
      BY <1>1, <1>4, <2>3 DEF DictValue, TypeOK, Frame
    <3>5. IF f.dict = "none" THEN DictValue(f) = None
          ELSE WordIs(sent, i, f.key, DictValue(f))
      BY <1>1, <1>8, <3>4 DEF Frame
    <3>6. Message(f) \in Messages
      BY <3>1, <3>2, <3>3, <3>4 DEF Messages
    <3>7. Means(sent, Message(f), i)
      BY <1>1, <1>6, <1>7, <2>3, <3>1, <3>2, <3>3, <3>5 DEF Means
    <3> QED BY <3>6, <3>7
  <2> QED BY <1>2, <2>1, <2>2, <2>3
<1> QED BY <1>1, <1>5, <1>6, <1>7, <1>8, <1>9 DEF f, i

\* What makes the parser throw is in the stream, or in where the chunk ends.
LEMMA ThrowExplained ==
  ASSUME IInv, inTransform, Throws
  PROVE  parsed < Len(sent) /\ (~Understandable(sent, parsed + 1) \/ LengthCut)
<1> DEFINE f == NextFrame
           i == parsed + 1
<1> USE DEF IInv
<1>1. /\ parsed < Len(sent) /\ f \in Frames /\ f \in Frame
      /\ sent \in Seq(Frames) /\ parsed \in 0..Len(sent) /\ sent[i] = f
      /\ f.head = 0 => f.valid
      /\ f.head > 0 <=> f.class \in {"definition", "update"}
  BY BufferedFrame, SizeType, FramesAssumption DEF Throws, TypeOK, NextFrame
<1>2. /\ TableIs(sent, parsed, lastTableDefinition)
      /\ \A key \in Keys : WordIs(sent, parsed, key, dictionaryCache[key])
  BY DEF FieldsReflectStream, StopsAtFrame
<1>3. Rejected(f)
  BY DEF Throws
<1> HIDE DEF f
<1>4. CASE f.class \in {"unknown", "unhandled"}
  BY <1>1, <1>4 DEF Understandable
<1>5. CASE buffered > 1 /\ f.class = "update" /\ lastTableDefinition = None
  <2>1. Definitions(sent, parsed) = {}
    BY <1>1, <1>2, <1>5, NoneMeansNever
  <2>2. Definitions(sent, i) = {}
    BY <1>1, <1>5, <2>1 DEF Definitions
  <2> QED BY <1>1, <1>5, <2>2 DEF Understandable
<1>6. CASE buffered > 1 /\ LengthCutShort(f)
  BY <1>1, <1>6 DEF LengthCut, f
<1>7. CASE ~f.valid
  <2>1. f.class \in {"definition", "update"}
    BY <1>1, <1>7 DEF Frame
  <2> QED BY <1>1, <1>7, <2>1 DEF Understandable
<1>8. CASE ~Resolvable(f)
  <2>1. /\ f.class = "update" /\ f.dict = "reference"
        /\ dictionaryCache[f.key] = None /\ f.key \in Keys
    BY <1>1, <1>8 DEF Resolvable, Frame
  <2>2. Lines(sent, parsed, f.key) = {}
    BY <1>1, <1>2, <2>1, NoneMeansNever
  <2>3. Lines(sent, i, f.key) = {}
    BY <1>1, <2>1, <2>2 DEF Lines
  <2> QED BY <1>1, <2>1, <2>3 DEF Understandable
<1> QED BY <1>1, <1>3, <1>4, <1>5, <1>6, <1>7, <1>8
        DEF Rejected, DefinitionParses, UpdateParses

\* Every step of the parser, the peer and the network preserves it.
LEMMA StepIInv == IInv /\ [Next]_vars => IInv'
<1> SUFFICES ASSUME IInv, [Next]_vars PROVE IInv'
  OBVIOUS
<1>1. ASSUME NEW f \in Frames, PeerSend(f) PROVE IInv'
  BY <1>1, SendStep
<1>2. ASSUME NEW bytes \in 1..inFlight, Transform(bytes) PROVE IInv'
  <2>1. /\ failed = "no" /\ received' = received + bytes /\ inTransform' = TRUE
        /\ UNCHANGED <<sent, ends, consumed, parsed, lastTableDefinition,
                       lastUpdateId, dictionaryCache, pushed, failed>>
    BY <1>2 DEF Transform, state
  <2>2. received' \in consumed'..EndOf(Len(sent))'
    <3>1. EndOf(Len(sent))' = EndOf(Len(sent)) /\ EndOf(Len(sent)) \in Nat
      BY <2>1 DEF EndOf, IInv, TypeOK
    <3> QED BY <1>2, <2>1, <3>1 DEF inFlight, IInv, TypeOK
  <2>3. TypeOK'
    BY <2>1, <2>2 DEF IInv, TypeOK
  <2>4. Boundaries'
    BY <2>1 DEF IInv, Boundaries, EndOf
  <2>5. FieldsReflectStream' /\ StopsAtFrame' /\ PushedAsSent'
    BY <2>1 DEF IInv, FieldsReflectStream, StopsAtFrame, PushedAsSent
  <2>6. FailureExplained'
    BY <2>1 DEF FailureExplained
  <2> QED BY <2>3, <2>4, <2>5, <2>6 DEF IInv
<1>3. CASE ParseMessage
  <2>1. /\ inTransform /\ Completes /\ Accept(NextFrame)
        /\ parsed' = parsed + 1 /\ consumed' = consumed + Size(NextFrame)
        /\ UNCHANGED <<sent, ends, received, inTransform, failed>>
        /\ pushed' = Append(pushed, Message(NextFrame))
    BY <1>3 DEF ParseMessage, Accept
  <2>2. failed = "no" /\ Len(pushed) = parsed
    BY <2>1 DEF IInv, StopsAtFrame, PushedAsSent, TypeOK
  <2>3. /\ consumed' = EndOf(parsed + 1) /\ consumed' \in Nat
        /\ received >= consumed'
    <3>1. TypeOK /\ Boundaries
      BY DEF IInv
    <3>2. buffered > 0 /\ buffered >= Size(NextFrame)
      BY <2>1 DEF Completes, Complete
    <3>3. NextFrame \in Frames /\ EndOf(parsed + 1) = consumed + Size(NextFrame)
      BY <3>1, <3>2, BufferedFrame
    <3>4. consumed \in Nat /\ received \in Nat /\ Size(NextFrame) \in Nat
      <4>1. EndOf(Len(sent)) \in Nat
        BY <3>1 DEF TypeOK, EndOf
      <4> QED BY <3>1, <3>3, <4>1, SizeType DEF TypeOK
    <3> QED BY <2>1, <3>2, <3>3, <3>4 DEF buffered
  <2>4. TypeOK'
    BY <2>1, <2>3, AcceptStep DEF IInv, TypeOK, EndOf
  <2>5. Boundaries'
    BY <2>1, <2>3 DEF IInv, Boundaries, EndOf
  <2>6. FieldsReflectStream' /\ StopsAtFrame'
    BY <2>1, <2>2, AcceptStep DEF FieldsReflectStream, StopsAtFrame
  <2>7. PushedAsSent'
    <3>1. /\ Len(pushed') = parsed + 1
          /\ \A j \in 1..parsed : pushed'[j] = pushed[j]
          /\ pushed'[parsed + 1] = Message(NextFrame)
      <4>1. pushed \in Seq(Messages) /\ Message(NextFrame) \in Messages
        BY <2>1, AcceptStep DEF IInv, TypeOK
      <4> QED BY <2>1, <2>2, <4>1
    <3>2. \A j \in 1..Len(pushed') : Means(sent, pushed'[j], j)
      BY <2>1, <2>2, <3>1, AcceptStep DEF IInv, PushedAsSent, TypeOK
    <3> QED BY <2>1, <2>2, <3>1, <3>2 DEF PushedAsSent
  <2>8. FailureExplained'
    BY <2>1, <2>2 DEF FailureExplained
  <2> QED BY <2>4, <2>5, <2>6, <2>7, <2>8 DEF IInv
<1>4. CASE ListenerThrows
  <2>1. /\ inTransform /\ Completes /\ Accept(NextFrame)
        /\ failed' = "listener" /\ inTransform' = FALSE
        /\ UNCHANGED <<sent, ends, received, consumed, parsed>>
        /\ pushed' = Append(pushed, Message(NextFrame))
    BY <1>4 DEF ListenerThrows, Accept
  <2>2. failed = "no" /\ Len(pushed) = parsed
    BY <2>1 DEF IInv, StopsAtFrame, PushedAsSent, TypeOK
  <2>3. TypeOK'
    <3>1. pushed' \in Seq(Messages)
      BY <2>1, AcceptStep DEF IInv, TypeOK
    <3>2. /\ lastTableDefinition' \in Tables \cup {None}
          /\ lastUpdateId' \in Nat
          /\ dictionaryCache' \in [Keys -> Words \cup {None}]
      BY <2>1, AcceptStep
    <3>3. EndOf(Len(sent))' = EndOf(Len(sent))
      BY <2>1 DEF EndOf
    <3> QED BY <2>1, <3>1, <3>2, <3>3 DEF IInv, TypeOK
  <2>4. Boundaries'
    BY <2>1 DEF IInv, Boundaries, EndOf
  <2>5. FieldsReflectStream' /\ StopsAtFrame' /\ FailureExplained'
    BY <2>1, AcceptStep
    DEF FieldsReflectStream, StopsAtFrame, FailureExplained
  <2>6. PushedAsSent'
    <3>1. /\ Len(pushed') = parsed + 1
          /\ \A j \in 1..parsed : pushed'[j] = pushed[j]
          /\ pushed'[parsed + 1] = Message(NextFrame)
      <4>1. pushed \in Seq(Messages) /\ Message(NextFrame) \in Messages
        BY <2>1, AcceptStep DEF IInv, TypeOK
      <4> QED BY <2>1, <2>2, <4>1
    <3>2. \A j \in 1..Len(pushed') : Means(sent, pushed'[j], j)
      BY <2>1, <2>2, <3>1, AcceptStep DEF IInv, PushedAsSent, TypeOK
    <3> QED BY <2>1, <2>2, <3>1, <3>2 DEF PushedAsSent
  <2> QED BY <2>3, <2>4, <2>5, <2>6 DEF IInv
<1>5. CASE Exhausted
  <2>1. /\ inTransform' = FALSE
        /\ UNCHANGED <<sent, ends, received, consumed, parsed,
                       lastTableDefinition, lastUpdateId, dictionaryCache,
                       pushed, failed>>
    BY <1>5 DEF Exhausted, state
  <2> QED
    BY <2>1 DEF IInv, TypeOK, EndOf, Boundaries, FieldsReflectStream,
                StopsAtFrame, PushedAsSent, FailureExplained, LengthCut,
                LengthCutShort, buffered, NextFrame
<1>6. CASE ParseError
  <2>1. /\ inTransform /\ Throws /\ failed' = "parse" /\ inTransform' = FALSE
        /\ UNCHANGED <<sent, ends, received, consumed, parsed,
                       lastTableDefinition, lastUpdateId, dictionaryCache,
                       pushed>>
    BY <1>6 DEF ParseError, state
  <2>2. failed = "no"
    BY <2>1 DEF IInv, StopsAtFrame, TypeOK
  <2>3. TypeOK' /\ Boundaries'
    BY <2>1 DEF IInv, TypeOK, Boundaries, EndOf
  <2>4. FieldsReflectStream' /\ StopsAtFrame' /\ PushedAsSent'
    BY <2>1, <2>2, ThrowExplained
    DEF IInv, FieldsReflectStream, StopsAtFrame, PushedAsSent
  <2>5. FailureExplained'
    <3>1. LengthCut' <=> LengthCut
      BY <2>1 DEF LengthCut, LengthCutShort, buffered, NextFrame
    <3> QED BY <2>1, <3>1, ThrowExplained DEF FailureExplained
  <2> QED BY <2>3, <2>4, <2>5 DEF IInv
<1>7. CASE UNCHANGED vars
  <2>1. UNCHANGED <<sent, ends, received, consumed, inTransform, parsed,
                    lastTableDefinition, lastUpdateId, dictionaryCache,
                    pushed, failed>>
    BY <1>7 DEF vars, state
  <2> QED
    BY <2>1 DEF IInv, TypeOK, EndOf, Boundaries, FieldsReflectStream,
                StopsAtFrame, PushedAsSent, FailureExplained, LengthCut,
                LengthCutShort, buffered, NextFrame
<1> QED BY <1>1, <1>2, <1>3, <1>4, <1>5, <1>6, <1>7 DEF Next

-----------------------------------------------------------------------------
\* _transform leaves its loop only when less than a frame is buffered.
LEMMA ExhaustedHoldsNothing ==
  ASSUME IInv, Exhausted, parsed < Len(sent)
  PROVE  received < ends[parsed + 1]
<1>1. TypeOK /\ Boundaries
  BY DEF IInv
<1>2. consumed \in Nat /\ received \in Nat /\ received >= consumed
  <2>1. EndOf(Len(sent)) \in Nat
    BY <1>1 DEF TypeOK, EndOf
  <2> QED BY <1>1, <2>1 DEF TypeOK
<1>3. /\ parsed + 1 \in 1..Len(sent)
      /\ NextFrame \in Frames
      /\ ends[parsed + 1] = consumed + Size(NextFrame)
  <2>1. parsed + 1 \in 1..Len(sent) /\ (parsed + 1) - 1 = parsed
    BY <1>1 DEF TypeOK
  <2> QED BY <1>1, <2>1 DEF TypeOK, Boundaries, NextFrame
<1>4. Size(NextFrame) \in Nat /\ Size(NextFrame) > 0
  BY <1>3, SizePositive
<1>5. ~(buffered > 0) \/ ~Complete(NextFrame)
  BY DEF Exhausted, Throws, Completes
<1> QED BY <1>2, <1>3, <1>4, <1>5 DEF Complete, buffered

\* No whole frame waits: preserved by every step.
LEMMA HeldBackStep == IInv /\ NothingHeldBack /\ [Next]_vars => NothingHeldBack'
<1> SUFFICES ASSUME IInv, NothingHeldBack, [Next]_vars PROVE NothingHeldBack'
  OBVIOUS
<1>1. ASSUME NEW f \in Frames, PeerSend(f) PROVE NothingHeldBack'
  <2> SUFFICES ASSUME failed' = "no", ~inTransform', parsed' < Len(sent')
               PROVE  received' < ends'[parsed' + 1]
    BY DEF NothingHeldBack
  <2>1. /\ TypeOK
        /\ ends' = Append(ends, EndOf(Len(sent)) + Size(f))
        /\ UNCHANGED <<received, parsed, inTransform, failed>>
    BY <1>1 DEF PeerSend, IInv
  <2>2. /\ EndOf(Len(sent)) \in Nat /\ received \in Nat
        /\ received <= EndOf(Len(sent))
        /\ Size(f) \in Nat /\ Size(f) > 0
    <3>1. EndOf(Len(sent)) \in Nat
      BY <2>1 DEF TypeOK, EndOf
    <3> QED BY <2>1, <3>1, SizePositive DEF TypeOK
  <2>3. CASE parsed < Len(sent)
    <3>1. received < ends[parsed + 1]
      BY <2>1, <2>3 DEF NothingHeldBack
    <3>2. ends'[parsed + 1] = ends[parsed + 1]
      BY <2>1, <2>2, <2>3 DEF TypeOK
    <3> QED BY <2>1, <3>1, <3>2
  <2>4. CASE parsed = Len(sent)
    <3>1. ends'[parsed + 1] = EndOf(Len(sent)) + Size(f)
      BY <2>1, <2>2, <2>4 DEF TypeOK
    <3>2. received < EndOf(Len(sent)) + Size(f)
      BY <2>2
    <3> QED BY <2>1, <3>1, <3>2
  <2> QED BY <2>1, <2>3, <2>4 DEF TypeOK
<1>2. ASSUME NEW bytes \in 1..inFlight, Transform(bytes) PROVE NothingHeldBack'
  BY <1>2 DEF Transform, NothingHeldBack
<1>3. CASE ParseMessage
  BY <1>3 DEF ParseMessage, NothingHeldBack
<1>4. CASE ListenerThrows
  BY <1>4 DEF ListenerThrows, NothingHeldBack
<1>5. CASE Exhausted
  <2>1. UNCHANGED <<sent, ends, received, parsed>>
    BY <1>5 DEF Exhausted
  <2> QED BY <1>5, <2>1, ExhaustedHoldsNothing DEF NothingHeldBack
<1>6. CASE ParseError
  BY <1>6 DEF ParseError, NothingHeldBack
<1>7. CASE UNCHANGED vars
  BY <1>7 DEF vars, NothingHeldBack
<1> QED BY <1>1, <1>2, <1>3, <1>4, <1>5, <1>6, <1>7 DEF Next

\* The parser's fields are those of the prefix it has parsed, always.
THEOREM Invariance == Spec => []IInv
BY InitIInv, StepIInv, PTL DEF Spec

\* The parser's fields and the offsets keep their types: it never takes more
\* bytes than it was given.
THEOREM ParserTypes == Spec => []TypeOK
<1>1. IInv => TypeOK
  BY DEF IInv
<1> QED BY <1>1, Invariance, PTL

\* Whatever is sent and however it is cut, the messages pushed are what the
\* stream means.
THEOREM MessagesAreTheStream == Spec => []PushedAsSent
<1>1. IInv => PushedAsSent
  BY DEF IInv
<1> QED BY <1>1, Invariance, PTL

\* The parser gives up only for a frame that cannot be understood or a chunk
\* that ends inside a length.
THEOREM FailuresAreExplained == Spec => []FailureExplained
<1>1. IInv => FailureExplained
  BY DEF IInv
<1> QED BY <1>1, Invariance, PTL

\* However the stream is cut, its end drops less than a frame.
THEOREM OnlyFragmentsWait == Spec => []NothingHeldBack
<1>1. Init => NothingHeldBack
  BY DEF Init, NothingHeldBack
<1> QED BY <1>1, HeldBackStep, Invariance, PTL DEF Spec
=============================================================================
