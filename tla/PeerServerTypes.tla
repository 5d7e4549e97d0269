--------------------------- MODULE PeerServerTypes ---------------------------
(***************************************************************************)
(* Steps and types of PeerServer, for whatever connections, tables and data. *)
(*                                                                         *)
(* The steps are told apart by what they write, teach and apply, once, so  *)
(* that the proofs about lessons (PeerServerLessons) and about the rest    *)
(* (PeerServerProofs) need not look into each action again.  What          *)
(* StickTableStoreProofs proves of the store is carried over to the store  *)
(* that the server has.                                                    *)
(***************************************************************************)
EXTENDS PeerServer, FiniteSetTheorems, TLAPS

SP == INSTANCE StickTableStoreProofs WITH Peers <- Conns

-----------------------------------------------------------------------------
(* Sequences that grow at their end, and places in them. *)

\* Whatever its elements are.
IsSequence(s) == s \in Seq(Range(s))

\* What Append does, told of sequences of whatever elements.
LEMMA Appended ==
  ASSUME NEW s, IsSequence(s), NEW m
  PROVE  /\ IsSequence(Append(s, m))
         /\ Len(s) \in Nat /\ DOMAIN s = 1..Len(s)
         /\ Len(Append(s, m)) = Len(s) + 1
         /\ DOMAIN Append(s, m) = 1..(Len(s) + 1)
         /\ \A i \in 1..Len(s) : Append(s, m)[i] = s[i]
         /\ Append(s, m)[Len(s) + 1] = m
<1> DEFINE S == Range(s) \cup {m}
           t == Append(s, m)
<1>1. s \in Seq(S)
  <2>1. s \in Seq(Range(s))
    BY DEF IsSequence
  <2> QED
    BY <2>1
<1>2. /\ Len(s) \in Nat /\ DOMAIN s = 1..Len(s)
      /\ t \in Seq(S)
      /\ Len(t) = Len(s) + 1
      /\ \A i \in 1..Len(s) : t[i] = s[i]
      /\ t[Len(s) + 1] = m
  BY <1>1
<1>3. DOMAIN t = 1..(Len(s) + 1)
  BY <1>2
<1>4. t \in Seq(Range(t))
  <2>1. \A i \in 1..Len(t) : t[i] \in Range(t)
    BY <1>2, <1>3 DEF Range
  <2> QED
    BY <1>2, <2>1
<1> QED
  BY <1>2, <1>3, <1>4 DEF IsSequence

\* The sequence at the start.
LEMMA EmptySequence == IsSequence(<<>>) /\ Len(<<>>) = 0 /\ DOMAIN <<>> = {}
BY DEF IsSequence

\* The largest of some numbers is the one that is at least each of them.
LEMMA MaxIs ==
  ASSUME NEW S, S \subseteq Nat, NEW x \in S, \A y \in S : x >= y
  PROVE  Max(S) = x
<1>1. \A z \in S : (\A y \in S : z >= y) => z = x
  BY SMT
<1> QED
  BY <1>1 DEF Max

\* SERVER_KEY is the one type of dictionary entries.
LEMMA OneDictionary ==
  ASSUME NEW s \in Dictionaries, NEW t \in Dictionaries
  PROVE  s = t
<1>1. IsFiniteSet(Dictionaries) /\ Cardinality(Dictionaries) <= 1
  BY ServerAssumption
<1>2. Cardinality(Dictionaries) = 1
  BY <1>1, FS_EmptySet, FS_CardinalityType
<1> QED
  BY <1>1, <1>2, FS_Singleton
-----------------------------------------------------------------------------
(* What is proved of the store holds of the server's. *)

\* The two instances of the store have the same data types and values, ...
LEMMA SameTypes ==
  /\ SP!DataTypes = Store!DataTypes
  /\ \A t : SP!ValuesOf(t) = Store!ValuesOf(t)
  /\ \A v : SP!IsAssignment(v) <=> Store!IsAssignment(v)
  /\ SP!AppliedUpdates = Store!AppliedUpdates
<1>1. SP!DataTypes = Store!DataTypes
  BY DEF SP!DataTypes, Store!DataTypes
<1>2. \A t : SP!ValuesOf(t) = Store!ValuesOf(t)
  BY Zenon DEF SP!ValuesOf, Store!ValuesOf
<1>3. \A v : SP!IsAssignment(v) <=> Store!IsAssignment(v)
  BY <1>1, <1>2 DEF SP!IsAssignment, Store!IsAssignment
<1>4. SP!AppliedUpdates = Store!AppliedUpdates
  BY DEF SP!AppliedUpdates, Store!AppliedUpdates
<1> QED
  BY <1>1, <1>2, <1>3, <1>4

\* ... so what the server assumes of them is what the proofs assume.
LEMMA SameAssumptions == SP!DataTypesAssumption /\ SP!InputsAssumption
BY SameTypes, StoreAssumption
DEF SP!DataTypesAssumption, SP!InputsAssumption,
    Store!DataTypesAssumption, Store!InputsAssumption

\* They have the same state, ...
LEMMA SameState ==
  /\ SP!Init <=> Store!Init
  /\ SP!TypeOK <=> Store!TypeOK
  /\ SP!vars = Store!vars
BY SameTypes, Zenon DEF SP!Init, Store!Init, SP!TypeOK, Store!TypeOK, SP!vars, Store!vars

\* ... merge the same values ...
LEMMA SameValues ==
  /\ \A map, k, v : SP!Put(map, k, v) = Store!Put(map, k, v)
  /\ \A n, k : SP!Existing(n, k) = Store!Existing(n, k)
  /\ \A t, old, new : SP!Merge(t, old, new) = Store!Merge(t, old, new)
  /\ \A t, d : SP!DefaultValue(t, d) = Store!DefaultValue(t, d)
<1>1. \A map, k, v : SP!Put(map, k, v) = Store!Put(map, k, v)
  BY Zenon DEF SP!Put, Store!Put
<1>2. \A n, k : SP!Existing(n, k) = Store!Existing(n, k)
  BY Zenon DEF SP!Existing, Store!Existing
<1>3. \A t, old, new : SP!Merge(t, old, new) = Store!Merge(t, old, new)
  BY Zenon DEF SP!Merge, Store!Merge, SP!MergeRates, Store!MergeRates,
    SP!MergeArrays, Store!MergeArrays
<1>4. \A t, d : SP!DefaultValue(t, d) = Store!DefaultValue(t, d)
  BY Zenon DEF SP!DefaultValue, Store!DefaultValue
<1> QED
  BY <1>1, <1>2, <1>3, <1>4

\* ... into the same entries, ...
LEMMA SameEntries ==
  /\ \A old, new : SP!Merged(old, new) = Store!Merged(old, new)
  /\ \A v, d : SP!Completed(v, d) = Store!Completed(v, d)
<1>1. ASSUME NEW old, NEW new
      PROVE  SP!Merged(old, new) = Store!Merged(old, new)
  BY SameValues, Zenon DEF SP!Merged, Store!Merged
<1>2. ASSUME NEW v, NEW d
      PROVE  SP!Completed(v, d) = Store!Completed(v, d)
  BY SameValues, Zenon DEF SP!Completed, Store!Completed
<1> QED
  BY <1>1, <1>2

\* ... by the same actions, ...
LEMMA SameActions ==
  /\ \A d : SP!ApplyDefinition(d) <=> Store!ApplyDefinition(d)
  /\ \A p, d, u : SP!ApplyUpdate(p, d, u) <=> Store!ApplyUpdate(p, d, u)
  /\ SP!Applied = Store!Applied
<1>1. ASSUME NEW d
      PROVE  SP!ApplyDefinition(d) <=> Store!ApplyDefinition(d)
  BY SameValues, Zenon DEF SP!ApplyDefinition, Store!ApplyDefinition
<1>2. ASSUME NEW p, NEW d, NEW u
      PROVE  SP!ApplyUpdate(p, d, u) <=> Store!ApplyUpdate(p, d, u)
  BY SameValues, SameEntries DEF SP!ApplyUpdate, Store!ApplyUpdate
<1>3. SP!Applied = Store!Applied
  BY DEF SP!Applied, Store!Applied, SP!MapThenSumSet, Store!MapThenSumSet,
    SP!MapThenFoldSet, Store!MapThenFoldSet
<1> QED
  BY <1>1, <1>2, <1>3

\* ... so the steps of one are those of the other.
LEMMA SameNext == [SP!Next]_SP!vars <=> [Store!Next]_Store!vars
<1>1. \A n : SP!ClearEntries(n) <=> Store!ClearEntries(n)
  BY Zenon DEF SP!ClearEntries, Store!ClearEntries
<1> QED
  BY <1>1, SameActions DEF SP!Next, Store!Next, SP!vars, Store!vars
-----------------------------------------------------------------------------
(* The steps, told apart by what they write and apply. *)

\* The conversation as it is, whatever becomes of sockets and timers.
Unsaid == UNCHANGED <<table, known, written, teaching, storeVars>>

Greets(c) ==
  \/ HelloAccepted(c)
  \/ \E code \in Rejections : HelloRejected(c, code)

\* A step leaves the conversation as it is, or is one of these.
LEMMA Steps ==
  ASSUME [Next]_vars
  PROVE  \/ Unsaid
         \/ \E c \in Conns :
              \/ Greets(c)
              \/ \E d \in Definitions : OnTableDefinition(c, d)
              \/ \E u \in Updates : OnEntryUpdate(c, u) \/ MergeThrows(c, u)
              \/ Heartbeat(c) \/ OnSynchronizationDone(c)
              \/ Teach(c) \/ Teaches(c)
<1>1. ASSUME NEW c \in Conns,
             \/ Accept(c) \/ Established(c) \/ ParseFails(c) \/ AckReceived(c)
             \/ ParserError(c) \/ HeartbeatAfterEnd(c) \/ RemoteEnd(c)
             \/ SocketError(c) \/ SocketClose(c)
      PROVE  Unsaid
  BY <1>1 DEF Accept, Established, ParseFails, AckReceived, ParserError,
    HeartbeatAfterEnd, RemoteEnd, SocketError, SocketClose, Unsaid
<1>2. CASE Listen \/ Close \/ Finished \/ UNCHANGED vars
  BY <1>2 DEF Listen, Close, Finished, vars, Unsaid
<1> QED
  BY <1>1, <1>2 DEF Next, OnParserMessage, Greets

\* A parser stays as it is, or fails while it receives.
LEMMA ParserStep ==
  ASSUME [Next]_vars
  PROVE  \/ UNCHANGED parser
         \/ \E c \in Conns, fault \in Faults :
              /\ parser' = [parser EXCEPT ![c] = fault]
              /\ parser[c] = "ok" /\ teaching = None
         \/ \E c \in Conns : TeachThrows(c)
<1>1. ASSUME NEW c \in Conns, ParseFails(c) \/ AckReceived(c)
      PROVE  \E fault \in Faults : /\ parser' = [parser EXCEPT ![c] = fault]
                                   /\ parser[c] = "ok" /\ teaching = None
  BY <1>1 DEF ParseFails, AckReceived, Receiving, Failing, Faults
<1>2. ASSUME NEW c \in Conns,
             \/ \E d \in Definitions : OnTableDefinition(c, d)
             \/ \E u \in Updates : OnEntryUpdate(c, u) \/ MergeThrows(c, u)
      PROVE  \/ UNCHANGED parser
             \/ \E fault \in Faults : /\ parser' = [parser EXCEPT ![c] = fault]
                                      /\ parser[c] = "ok" /\ teaching = None
  BY <1>2 DEF OnTableDefinition, OnEntryUpdate, MergeThrows, UpdateReceived,
    Receiving, Emit, Failing, Faults
<1>3. ASSUME NEW c \in Conns,
             \/ Accept(c) \/ Greets(c) \/ Established(c) \/ ParserError(c)
             \/ Heartbeat(c) \/ HeartbeatAfterEnd(c)
             \/ RemoteEnd(c) \/ SocketError(c) \/ SocketClose(c)
      PROVE  UNCHANGED parser
  BY <1>3 DEF Accept, Greets, HelloAccepted, HelloRejected, Established, ParserError,
    Heartbeat, HeartbeatAfterEnd, RemoteEnd, SocketError, SocketClose
<1>4. ASSUME NEW c \in Conns,
             \/ OnSynchronizationDone(c) \/ Teach(c)
             \/ TeachTable(c) \/ TeachEntry(c) \/ TeachEnd(c)
      PROVE  UNCHANGED parser
  BY <1>4 DEF OnSynchronizationDone, Teach, TeachTable, TeachEntry, TeachEnd
<1>5. CASE Listen \/ Close \/ Finished \/ UNCHANGED vars
  BY <1>5 DEF Listen, Close, Finished, vars
<1> QED
  BY <1>1, <1>2, <1>3, <1>4, <1>5 DEF Next, OnParserMessage, Teaches, Greets

-----------------------------------------------------------------------------
(* The types, and what the server does to its store. *)

Lessons == [conn : Conns, name : Names \cup {None}, keys : SUBSET Keys,
            tables : SUBSET Names]

Types ==
  /\ listening \in BOOLEAN /\ store \in BOOLEAN
  /\ phase \in [Conns -> Phases]
  /\ timer \in [Conns -> BOOLEAN]
  /\ parser \in [Conns -> Faults \cup {"ok"}]
  /\ table \in [Conns -> Definitions \cup {None}]
  /\ known \in [Conns -> Seq(Words)]
  /\ DOMAIN written = Conns /\ \A c \in Conns : IsSequence(written[c])
  /\ teaching \in Lessons \cup {None}
  /\ SP!IInv

\* What the store's own invariant says of its variables.
LEMMA StoreTypes ==
  ASSUME Types
  PROVE  /\ Store!TypeOK
         /\ DOMAIN history = Names
         /\ \A n \in Names : DOMAIN history[n] = Keys
         /\ \A n \in Names : \A k \in Keys : history[n][k] \in Seq(Store!AppliedUpdates)
<1>1. Store!TypeOK
  BY SameState DEF Types, SP!IInv
<1> QED
  BY <1>1, Zenon DEF Store!TypeOK

\* An acknowledged update, whether its merge throws or not.
LEMMA UpdateStep ==
  ASSUME Types, NEW c \in Conns, NEW u \in Updates, UpdateReceived(c, u)
  PROVE  /\ parser[c] = "ok" /\ teaching = None
         /\ phase[c] \in {"greeting", "established"}
         /\ table[c] \in Definitions /\ Fits(u, table[c])
         /\ Write(c, Ack(table[c], u))
         /\ UNCHANGED <<listening, phase, timer, table, known, teaching>>
BY DEF UpdateReceived, Receiving, Types

\* Whatever happens on the connections is a step of the store, or none.
LEMMA StoreStep ==
  ASSUME Types, [Next]_vars
  PROVE  [Store!Next]_Store!vars
<1>1. CASE UNCHANGED storeVars
  BY <1>1 DEF storeVars, Store!vars
<1>2. ASSUME NEW c \in Conns, Greets(c) \/ Heartbeat(c) \/ OnSynchronizationDone(c)
      PROVE  UNCHANGED storeVars
  BY <1>2 DEF Greets, HelloAccepted, HelloRejected, Heartbeat, OnSynchronizationDone
<1>3. ASSUME NEW c \in Conns, Teach(c) \/ Teaches(c)
      PROVE  UNCHANGED storeVars
  BY <1>3 DEF Teach, Teaches, TeachTable, TeachEntry, TeachThrows, TeachEnd
<1>4. ASSUME NEW c \in Conns, NEW d \in Definitions, OnTableDefinition(c, d)
      PROVE  UNCHANGED storeVars \/ Store!Next
  BY <1>4 DEF OnTableDefinition, Store!Next
<1>5. ASSUME NEW c \in Conns, NEW u \in Updates, OnEntryUpdate(c, u) \/ MergeThrows(c, u)
      PROVE  UNCHANGED storeVars \/ Store!Next
  <2>1. table[c] \in Definitions
    BY <1>5, UpdateStep DEF OnEntryUpdate, MergeThrows
  <2>2. CASE OnEntryUpdate(c, u)
    BY <2>1, <2>2 DEF OnEntryUpdate, Apply, TableOf, Store!Next
  <2>3. CASE MergeThrows(c, u)
    BY <2>1, <2>3 DEF MergeThrows, TableOf, Store!Next
  <2> QED
    BY <1>5, <2>2, <2>3
<1>6. CASE Unsaid
  BY <1>1, <1>6 DEF Unsaid, storeVars
<1> QED
  BY <1>1, <1>2, <1>3, <1>4, <1>5, <1>6, Steps

\* The store goes on as StickTableStoreProofs has it.
LEMMA StoreKept ==
  ASSUME Types, [Next]_vars
  PROVE  SP!IInv'
<1>1. [SP!Next]_SP!vars /\ SP!IInv
  BY StoreStep, SameNext DEF Types
<1> QED
  BY <1>1, SP!StepIInv, SameAssumptions DEF SP!DataTypesAssumption, SP!InputsAssumption

-----------------------------------------------------------------------------
(* The dictionary and the entries it encodes. *)

\* A word is coded with the id that it has, or with the next one and itself.
LEMMA Coding ==
  ASSUME NEW words \in Seq(Words), NEW w \in Words
  PROVE  \/ \E id \in DOMAIN words :
              /\ words[id] = w
              /\ EncodeWord(words, w) = <<id>> /\ Register(words, w) = words
         \/ /\ EncodeWord(words, w) = <<Len(words) + 1, w>>
            /\ Register(words, w) = Append(words, w)
<1>1. w # Null
  BY ServerAssumption
<1>2. CASE Contains(words, w)
  <2>1. PICK i \in 1..Len(words) : words[i] = w
    BY <1>2 DEF Contains
  <2>2. i \in DOMAIN words
    OBVIOUS
  <2>3. IdOf(words, w) \in DOMAIN words /\ words[IdOf(words, w)] = w
    BY <2>1, <2>2 DEF IdOf
  <2>4. EncodeWord(words, w) = <<IdOf(words, w)>> /\ Register(words, w) = words
    BY <1>1, <1>2 DEF EncodeWord, Register
  <2> QED
    BY <2>3, <2>4
<1>3. CASE ~Contains(words, w)
  BY <1>1, <1>3 DEF EncodeWord, Register
<1> QED
  BY <1>2, <1>3

\* What the encoder finds of an entry: the values that the definition names,
\* and one word at most.
LEMMA EncodedEntry ==
  ASSUME Types, NEW n \in DOMAIN definitions, NEW k \in DOMAIN entries[n]
  PROVE  LET m == Encoded(n, k)
         IN /\ n \in Names /\ k \in Keys /\ definitions[n] \in Definitions
            /\ m.kind = "entry" /\ m.name = n /\ m.key = k /\ m.coded = <<>>
            /\ DOMAIN m.values = definitions[n].types \cap DOMAIN entries[n][k]
            /\ Store!IsAssignment(m.values)
            /\ \/ WordsOf(m) = {}
               \/ \E w \in Words \cup {Null} : WordsOf(m) = {w}
<1> DEFINE m == Encoded(n, k)
<1>1. /\ n \in Names /\ k \in Keys /\ definitions[n] \in Definitions
      /\ Store!IsAssignment(entries[n][k])
  BY StoreTypes DEF Store!TypeOK
<1>2. /\ m.kind = "entry" /\ m.name = n /\ m.key = k /\ m.coded = <<>>
      /\ m.values = [t \in definitions[n].types \cap DOMAIN entries[n][k] |-> entries[n][k][t]]
  BY DEF Encoded, Entry
<1>3. Store!IsAssignment(m.values)
  BY <1>1, <1>2 DEF Store!IsAssignment
<1>4. ASSUME NEW t \in Dictionaries \cap DOMAIN m.values
      PROVE  m.values[t] \in Words \cup {Null}
  <2>1. m.values[t] \in Store!ValuesOf(t)
    BY <1>3 DEF Store!IsAssignment
  <2>2. Store!ValuesOf(t) = Words \cup {Null}
    BY StoreAssumption DEF Store!DataTypesAssumption, Store!ValuesOf
  <2> QED
    BY <2>1, <2>2
<1>5. WordsOf(m) = {m.values[t] : t \in Dictionaries \cap DOMAIN m.values}
  BY <1>2 DEF WordsOf
<1> HIDE DEF m
<1>6. CASE Dictionaries \cap DOMAIN m.values = {}
  BY <1>1, <1>2, <1>3, <1>5, <1>6 DEF m
<1>7. CASE Dictionaries \cap DOMAIN m.values # {}
  <2>1. PICK t \in Dictionaries \cap DOMAIN m.values : TRUE
    BY <1>7
  <2>2. \A s \in Dictionaries \cap DOMAIN m.values : s = t
    BY <2>1, OneDictionary
  <2>3. WordsOf(m) = {m.values[t]} /\ m.values[t] \in Words \cup {Null}
    BY <1>4, <1>5, <2>1, <2>2
  <2> QED
    BY <1>1, <1>2, <1>3, <2>3 DEF m
<1> QED
  BY <1>6, <1>7

\* How an entry's word is put, and what the dictionary has afterwards.
LEMMA EntryInCode ==
  ASSUME Types, NEW n \in DOMAIN definitions, NEW k \in DOMAIN entries[n],
         NEW words \in Seq(Words)
  PROVE  LET m     == InCode(words, Encoded(n, k))
             after == KnownAfter(words, Encoded(n, k))
         IN /\ m.kind = "entry" /\ m.name = n /\ m.key = k
            /\ m.values = Encoded(n, k).values
            /\ \/ WordsOf(m) = {} /\ m.coded = <<>> /\ after = words
               \/ WordsOf(m) = {Null} /\ m.coded = <<0>> /\ after = words
               \/ \E id \in DOMAIN words :
                    WordsOf(m) = {words[id]} /\ m.coded = <<id>> /\ after = words
               \/ \E w \in Words :
                    /\ WordsOf(m) = {w} /\ m.coded = <<Len(words) + 1, w>>
                    /\ after = Append(words, w)
<1> DEFINE e     == Encoded(n, k)
           m     == InCode(words, e)
           after == KnownAfter(words, e)
<1>1. /\ e.kind = "entry" /\ e.name = n /\ e.key = k /\ e.coded = <<>>
      /\ \/ WordsOf(e) = {}
         \/ \E w \in Words \cup {Null} : WordsOf(e) = {w}
  BY EncodedEntry
<1>2. \A code : LET x == [e EXCEPT !.coded = code]
                IN /\ x.kind = e.kind /\ x.name = e.name /\ x.key = e.key
                   /\ x.values = e.values /\ x.coded = code
  BY DEF Encoded, Entry
<1>3. /\ m.kind = "entry" /\ m.name = n /\ m.key = k /\ m.values = e.values
      /\ WordsOf(m) = WordsOf(e)
  <2>1. m.kind = e.kind /\ m.name = e.name /\ m.key = e.key /\ m.values = e.values
    BY <1>2 DEF InCode
  <2> QED
    BY <1>1, <2>1 DEF WordsOf
<1>4. WordsOf(e) = {} => WordsOf(m) = {} /\ m.coded = <<>> /\ after = words
  BY <1>1, <1>3 DEF InCode, KnownAfter
<1>5. ASSUME NEW w \in Words \cup {Null}, WordsOf(e) = {w}
      PROVE  m.coded = EncodeWord(words, w) /\ after = Register(words, w)
  <2>1. WordOf(e) = w
    BY <1>5 DEF WordOf
  <2> QED
    BY <1>2, <1>5, <2>1 DEF InCode, KnownAfter
<1>6. WordsOf(e) = {Null} => WordsOf(m) = {Null} /\ m.coded = <<0>> /\ after = words
  <2>1. ~Contains(words, Null)
    BY ServerAssumption DEF Contains
  <2>2. EncodeWord(words, Null) = <<0>> /\ Register(words, Null) = words
    BY <2>1 DEF EncodeWord, Register
  <2> QED
    BY <1>3, <1>5, <2>2
<1>7. ASSUME NEW w \in Words, WordsOf(e) = {w}
      PROVE  \/ \E id \in DOMAIN words :
                  WordsOf(m) = {words[id]} /\ m.coded = <<id>> /\ after = words
             \/ /\ WordsOf(m) = {w} /\ m.coded = <<Len(words) + 1, w>>
                /\ after = Append(words, w)
  <2>1. m.coded = EncodeWord(words, w) /\ after = Register(words, w)
    BY <1>5, <1>7
  <2> HIDE DEF m, after, e
  <2> QED
    BY <1>3, <1>7, <2>1, Coding
<1> HIDE DEF m, after, e
<1>8. \/ WordsOf(m) = {} /\ m.coded = <<>> /\ after = words
      \/ WordsOf(m) = {Null} /\ m.coded = <<0>> /\ after = words
      \/ \E id \in DOMAIN words :
           WordsOf(m) = {words[id]} /\ m.coded = <<id>> /\ after = words
      \/ \E w \in Words :
           /\ WordsOf(m) = {w} /\ m.coded = <<Len(words) + 1, w>>
           /\ after = Append(words, w)
  <2>1. CASE WordsOf(e) = {}
    BY <1>4, <2>1
  <2>2. ASSUME NEW w \in Words, WordsOf(e) = {w}
        PROVE  \/ \E id \in DOMAIN words :
                    WordsOf(m) = {words[id]} /\ m.coded = <<id>> /\ after = words
               \/ /\ WordsOf(m) = {w} /\ m.coded = <<Len(words) + 1, w>>
                  /\ after = Append(words, w)
    BY <1>7, <2>2
  <2>3. CASE WordsOf(e) = {Null}
    BY <1>6, <2>3
  <2> QED
    BY <1>1, <2>1, <2>2, <2>3
<1> QED
  BY <1>3, <1>8 DEF m, after, e

-----------------------------------------------------------------------------
(* The types, step by step. *)

\* While a lesson goes on, its connection receives, its tables have their
\* definitions, and what is left of its entries is there.
MidLesson ==
  teaching # None =>
    /\ parser[teaching.conn] = "ok" /\ phase[teaching.conn] \in {"greeting", "established"}
    /\ teaching.tables \subseteq DOMAIN definitions
    /\ teaching.keys # {} => /\ teaching.name \in DOMAIN definitions
                            /\ teaching.keys \subseteq DOMAIN entries[teaching.name]

\* MidLesson of the connection that is taught.
LEMMA InLessonIs ==
  ASSUME Types, MidLesson, NEW c \in Conns, InLesson(c)
  PROVE  /\ teaching \in Lessons /\ teaching.conn = c
         /\ parser[c] = "ok" /\ phase[c] \in {"greeting", "established"}
         /\ \A n \in teaching.tables : n \in DOMAIN definitions
         /\ \A k \in teaching.keys : /\ teaching.name \in DOMAIN definitions
                                     /\ k \in DOMAIN entries[teaching.name]
BY DEF Types, MidLesson, InLesson

\* What is written, one message at the end of one connection's.
LEMMA WriteStep ==
  ASSUME Types, NEW c \in Conns, NEW m, Write(c, m)
  PROVE  /\ DOMAIN written' = Conns
         /\ \A o \in Conns : IsSequence(written'[o])
         /\ \A o \in Conns \ {c} : written'[o] = written[o]
         /\ Len(written[c]) \in Nat /\ DOMAIN written[c] = 1..Len(written[c])
         /\ Len(written'[c]) = Len(written[c]) + 1
         /\ DOMAIN written'[c] = 1..(Len(written[c]) + 1)
         /\ \A i \in 1..Len(written[c]) : written'[c][i] = written[c][i]
         /\ written'[c][Len(written[c]) + 1] = m
<1>1. DOMAIN written = Conns /\ \A o \in Conns : IsSequence(written[o])
  BY DEF Types
<1>2. /\ DOMAIN written' = Conns
      /\ \A o \in Conns \ {c} : written'[o] = written[o]
      /\ written'[c] = Append(written[c], m)
  BY <1>1 DEF Write
<1>3. IsSequence(written[c])
  BY <1>1
<1> DEFINE before == written[c]
           after  == Append(before, m)
<1>4. /\ IsSequence(after)
      /\ Len(before) \in Nat /\ DOMAIN before = 1..Len(before)
      /\ Len(after) = Len(before) + 1
      /\ DOMAIN after = 1..(Len(before) + 1)
      /\ \A i \in 1..Len(before) : after[i] = before[i]
      /\ after[Len(before) + 1] = m
  <2> HIDE DEF before
  <2> QED
    BY <1>3, Appended DEF before
<1>5. \A o \in Conns : IsSequence(written'[o])
  BY <1>1, <1>2, <1>4, Zenon
<1> HIDE DEF after
<1>6. written[c] = before /\ written'[c] = after
  BY <1>2 DEF after
<1> HIDE DEF before
<1> QED
  BY <1>2, <1>4, <1>5, <1>6

\* Dictionaries only grow, at their ends.
LEMMA KnownStep ==
  ASSUME Types, MidLesson, NEW c \in Conns, NEW k \in teaching.keys, InLesson(c),
         \/ UNCHANGED known
         \/ known' = [known EXCEPT ![c] = KnownAfter(@, Encoded(teaching.name, k))]
  PROVE  /\ known' \in [Conns -> Seq(Words)]
         /\ \A o \in Conns : /\ DOMAIN known[o] \subseteq DOMAIN known'[o]
                             /\ \A id \in DOMAIN known[o] : known'[o][id] = known[o][id]
<1>1. known \in [Conns -> Seq(Words)]
  BY DEF Types
<1>2. CASE UNCHANGED known
  BY <1>1, <1>2
<1>3. CASE known' = [known EXCEPT ![c] = KnownAfter(@, Encoded(teaching.name, k))]
  <2> DEFINE after == KnownAfter(known[c], Encoded(teaching.name, k))
  <2>1. known[c] \in Seq(Words)
    BY <1>1
  <2>2. after = known[c] \/ \E w \in Words : after = Append(known[c], w)
    BY <2>1, InLessonIs, EntryInCode
  <2>3. /\ after \in Seq(Words) /\ DOMAIN known[c] \subseteq DOMAIN after
        /\ \A id \in DOMAIN known[c] : after[id] = known[c][id]
    BY <2>1, <2>2
  <2>4. known' = [known EXCEPT ![c] = after]
    BY <1>3
  <2> HIDE DEF after
  <2> QED
    BY <1>1, <2>3, <2>4
<1> QED
  BY <1>2, <1>3

\* The variables of the lessons; the others' types are in the lemmas above.
LEMMA LessonTypes ==
  ASSUME Types, MidLesson, [Next]_vars
  PROVE  /\ known' \in [Conns -> Seq(Words)]
         /\ DOMAIN written' = Conns /\ \A c \in Conns : IsSequence(written'[c])
         /\ teaching' \in Lessons \cup {None}
<1> DEFINE P == /\ known' \in [Conns -> Seq(Words)]
                /\ DOMAIN written' = Conns /\ \A c \in Conns : IsSequence(written'[c])
                /\ teaching' \in Lessons \cup {None}
<1>1. /\ UNCHANGED known => known' \in [Conns -> Seq(Words)]
      /\ UNCHANGED written =>
           DOMAIN written' = Conns /\ \A c \in Conns : IsSequence(written'[c])
      /\ UNCHANGED teaching => teaching' \in Lessons \cup {None}
  BY DEF Types
<1>2. CASE Unsaid
  BY <1>1, <1>2 DEF Unsaid
<1>3. ASSUME NEW c \in Conns, NEW m, Write(c, m)
      PROVE  DOMAIN written' = Conns /\ \A o \in Conns : IsSequence(written'[o])
  BY <1>3, WriteStep
<1>4. ASSUME NEW c \in Conns, Greets(c) \/ Heartbeat(c) \/ OnSynchronizationDone(c)
      PROVE  P
  <2>1. UNCHANGED <<known, teaching>> /\ \E m : Write(c, m)
    BY <1>4 DEF Greets, HelloAccepted, HelloRejected, Heartbeat, OnSynchronizationDone
  <2> QED
    BY <1>1, <1>3, <2>1
<1>5. ASSUME NEW c \in Conns,
             \/ \E d \in Definitions : OnTableDefinition(c, d)
             \/ \E u \in Updates : OnEntryUpdate(c, u) \/ MergeThrows(c, u)
      PROVE  P
  <2>1. /\ UNCHANGED <<known, teaching>>
        /\ UNCHANGED written \/ \E m : Write(c, m)
    BY <1>5 DEF OnTableDefinition, OnEntryUpdate, MergeThrows, UpdateReceived
  <2> QED
    BY <1>1, <1>3, <2>1
<1>6. ASSUME NEW c \in Conns, Teach(c)
      PROVE  P
  <2>1. DOMAIN definitions \subseteq Names
    BY StoreTypes DEF Store!TypeOK
  <2>2. UNCHANGED <<known, written>> /\ teaching' \in Lessons
    BY <1>6, <2>1 DEF Teach, Lessons
  <2> QED
    BY <1>1, <2>2
<1>7. ASSUME NEW c \in Conns, TeachTable(c)
      PROVE  P
  <2>1. PICK n \in teaching.tables :
          /\ Write(c, Definition(definitions[n]))
          /\ teaching' = [conn |-> c, name |-> n, keys |-> DOMAIN entries[n],
                          tables |-> teaching.tables \ {n}]
    BY <1>7 DEF TeachTable, TellDefinition
  <2>2. UNCHANGED known
    BY <1>7 DEF TeachTable
  <2>3. teaching \in Lessons /\ n \in Names /\ DOMAIN entries[n] \subseteq Keys
    BY <1>7, InLessonIs, StoreTypes DEF TeachTable, Lessons, Store!TypeOK
  <2>4. teaching' \in Lessons
    BY <2>1, <2>3 DEF Lessons
  <2> QED
    BY <1>1, <1>3, <2>1, <2>2, <2>4
<1>8. ASSUME NEW c \in Conns, TeachEntry(c)
      PROVE  P
  <2>1. PICK k \in teaching.keys :
          /\ Write(c, InCode(known[c], Encoded(teaching.name, k)))
          /\ known' = [known EXCEPT ![c] = KnownAfter(@, Encoded(teaching.name, k))]
          /\ teaching' = [teaching EXCEPT !.keys = @ \ {k}]
    BY <1>8 DEF TeachEntry
  <2>2. InLesson(c)
    BY <1>8 DEF TeachEntry
  <2>3. known' \in [Conns -> Seq(Words)]
    BY <2>1, <2>2, KnownStep
  <2>4. teaching \in Lessons
    BY <2>2, InLessonIs
  <2>5. teaching' \in Lessons
    BY <2>1, <2>4 DEF Lessons
  <2> QED
    BY <1>3, <2>1, <2>3, <2>5
<1>9. ASSUME NEW c \in Conns, TeachThrows(c)
      PROVE  P
  <2>1. PICK k \in teaching.keys :
          \/ UNCHANGED known
          \/ known' = [known EXCEPT ![c] = KnownAfter(@, Encoded(teaching.name, k))]
    BY <1>9 DEF TeachThrows
  <2>2. InLesson(c) /\ UNCHANGED written /\ teaching' = None
    BY <1>9 DEF TeachThrows, BrokenOff
  <2>3. known' \in [Conns -> Seq(Words)]
    BY <2>1, <2>2, KnownStep
  <2> QED
    BY <1>1, <2>2, <2>3
<1>10. ASSUME NEW c \in Conns, TeachEnd(c)
      PROVE  P
  <2>1. UNCHANGED known /\ teaching' = None /\ Write(c, Control("syncPartial"))
    BY <1>10 DEF TeachEnd, TellEnd
  <2> QED
    BY <1>1, <1>3, <2>1
<1> QED
  BY <1>2, <1>4, <1>5, <1>6, <1>7, <1>8, <1>9, <1>10, Steps DEF Teaches

-----------------------------------------------------------------------------
(* The heartbeat timers. *)

\* A step that leaves phases and timers alone keeps TimersEnd.
Untimed == UNCHANGED <<phase, timer>>

\* A connection goes from one phase into another, its timer left alone.
Moves(c, from, to) ==
  /\ phase[c] \in from
  /\ phase' = [phase EXCEPT ![c] = to]
  /\ UNCHANGED timer

\* A move keeps TimersEnd when it leads away from there being a timer, or to
\* where one may be left.
LEMMA MoveKeepsTimers ==
  ASSUME Types, TimersEnd, NEW c \in Conns, NEW from, NEW to \in Phases, Moves(c, from, to),
         \/ /\ from \subseteq {"none", "hello"}
            /\ to # "established"
         \/ to \in {"ending", "destroyed"}
  PROVE  /\ phase' \in [Conns -> Phases] /\ timer' \in [Conns -> BOOLEAN]
         /\ TimersEnd'
<1>1. phase' \in [Conns -> Phases] /\ timer' = timer
  BY DEF Types, Moves
<1>2. ASSUME NEW o \in Conns
      PROVE  /\ phase'[o] = "established" => timer'[o]
             /\ timer'[o] => phase'[o] \in {"established", "ending", "destroyed"}
  <2>1. CASE o = c
    BY <2>1 DEF Types, TimersEnd, Moves
  <2>2. CASE o # c
    BY <2>2 DEF Types, TimersEnd, Moves
  <2> QED
    BY <2>1, <2>2
<1> QED
  BY <1>1, <1>2 DEF TimersEnd, Types

\* What the actions do to phases and timers.
LEMMA TimerStep ==
  ASSUME Types, TimersEnd, [Next]_vars
  PROVE  /\ phase' \in [Conns -> Phases] /\ timer' \in [Conns -> BOOLEAN]
         /\ TimersEnd'
<1>1. CASE Untimed
  BY <1>1 DEF Untimed, Types, TimersEnd
<1>2. ASSUME NEW c \in Conns, Accept(c)
      PROVE  Moves(c, {"none"}, "hello")
  BY <1>2 DEF Accept, Moves
<1>3. ASSUME NEW c \in Conns, HelloAccepted(c)
      PROVE  Moves(c, {"hello"}, "greeting")
  BY <1>3 DEF HelloAccepted, Moves
<1>4. ASSUME NEW c \in Conns, NEW code, HelloRejected(c, code)
      PROVE  Moves(c, {"hello"}, "destroyed")
  BY <1>4 DEF HelloRejected, Moves
<1>5. ASSUME NEW c \in Conns, ParserError(c) \/ HeartbeatAfterEnd(c) \/ SocketError(c)
      PROVE  Moves(c, Phases, "destroyed")
  BY <1>5 DEF ParserError, PhaseAfterError, HeartbeatAfterEnd, SocketError, Moves, Phases
<1>6. ASSUME NEW c \in Conns, RemoteEnd(c)
      PROVE  Moves(c, Phases, "ending")
  BY <1>6 DEF RemoteEnd, Moves, Phases
<1>7. ASSUME NEW c \in Conns, Established(c)
      PROVE  /\ phase' \in [Conns -> Phases] /\ timer' \in [Conns -> BOOLEAN]
             /\ TimersEnd'
  <2>1. /\ phase' = [phase EXCEPT ![c] = "established"]
        /\ timer' = [timer EXCEPT ![c] = TRUE]
    BY <1>7 DEF Established
  <2> QED
    BY <2>1 DEF Types, TimersEnd, Phases
<1>8. ASSUME NEW c \in Conns, SocketClose(c)
      PROVE  /\ phase' \in [Conns -> Phases] /\ timer' \in [Conns -> BOOLEAN]
             /\ TimersEnd'
  <2>1. /\ phase' = [phase EXCEPT ![c] = "closed"]
        /\ timer' = [timer EXCEPT ![c] = FALSE]
    BY <1>8 DEF SocketClose, TimerAfterClose
  <2> QED
    BY <2>1 DEF Types, TimersEnd, Phases
<1>9. ASSUME NEW c \in Conns,
             \/ OnParserMessage(c) \/ ParseFails(c) \/ AckReceived(c)
             \/ Heartbeat(c) \/ Teaches(c)
      PROVE  Untimed
  <2>1. CASE OnParserMessage(c) \/ ParseFails(c) \/ AckReceived(c) \/ Heartbeat(c)
    BY <2>1 DEF OnParserMessage, OnTableDefinition, OnEntryUpdate, UpdateReceived,
      MergeThrows, Teach, OnSynchronizationDone, ParseFails, AckReceived, Heartbeat,
      Untimed
  <2>2. CASE Teaches(c)
    BY <2>2 DEF Teaches, TeachTable, TeachEntry, TeachThrows, TeachEnd, Untimed
  <2> QED
    BY <1>9, <2>1, <2>2
<1>10. CASE Listen \/ Close \/ Finished \/ UNCHANGED vars
  <2>1. Untimed
    BY <1>10 DEF Listen, Close, Finished, vars, Untimed
  <2> QED
    BY <1>1, <2>1
<1>11. {"hello", "greeting", "destroyed", "ending"} \subseteq Phases
  BY DEF Phases
<1>12. CASE \E c \in Conns :
         \/ Accept(c) \/ HelloAccepted(c)
         \/ \E code \in Rejections : HelloRejected(c, code)
         \/ ParserError(c) \/ HeartbeatAfterEnd(c) \/ RemoteEnd(c) \/ SocketError(c)
  <2>1. PICK c \in Conns :
         \/ Accept(c) \/ HelloAccepted(c)
         \/ \E code \in Rejections : HelloRejected(c, code)
         \/ ParserError(c) \/ HeartbeatAfterEnd(c) \/ RemoteEnd(c) \/ SocketError(c)
    BY <1>12
  <2>2. CASE Accept(c)
    BY <1>2, <1>11, <2>2, MoveKeepsTimers
  <2>3. CASE HelloAccepted(c)
    BY <1>3, <1>11, <2>3, MoveKeepsTimers
  <2>4. CASE \E code \in Rejections : HelloRejected(c, code)
    BY <1>4, <1>11, <2>4, MoveKeepsTimers
  <2>5. CASE ParserError(c) \/ HeartbeatAfterEnd(c) \/ SocketError(c)
    BY <1>5, <1>11, <2>5, MoveKeepsTimers
  <2>6. CASE RemoteEnd(c)
    BY <1>6, <1>11, <2>6, MoveKeepsTimers
  <2> QED
    BY <2>1, <2>2, <2>3, <2>4, <2>5, <2>6
<1> QED
  BY <1>1, <1>7, <1>8, <1>9, <1>10, <1>12 DEF Next

-----------------------------------------------------------------------------
\* What becomes of the server itself: it keeps the store it has or has not.
LEMMA ServerStep ==
  ASSUME Types, [Next]_vars
  PROVE  listening' \in BOOLEAN /\ UNCHANGED store
<1>1. CASE Listen \/ Close \/ Finished \/ UNCHANGED vars
  BY <1>1 DEF Listen, Close, Finished, vars, storeVars, Types
<1>2. ASSUME NEW c \in Conns,
             \/ Accept(c) \/ Greets(c) \/ Established(c)
             \/ ParserError(c) \/ Heartbeat(c) \/ HeartbeatAfterEnd(c)
             \/ RemoteEnd(c) \/ SocketError(c) \/ SocketClose(c)
      PROVE  UNCHANGED <<listening, store>>
  BY <1>2 DEF Accept, Greets, HelloAccepted, HelloRejected, Established, ParserError,
    Heartbeat, HeartbeatAfterEnd, RemoteEnd, SocketError, SocketClose, storeVars
<1>3. ASSUME NEW c \in Conns,
             \/ ParseFails(c) \/ AckReceived(c) \/ OnSynchronizationDone(c)
             \/ Teach(c) \/ Teaches(c)
      PROVE  UNCHANGED <<listening, store>>
  BY <1>3 DEF ParseFails, AckReceived, OnSynchronizationDone, Teach, Teaches,
    TeachTable, TeachEntry, TeachThrows, TeachEnd, storeVars
<1>4. ASSUME NEW c \in Conns,
             \/ \E d \in Definitions : OnTableDefinition(c, d)
             \/ \E u \in Updates : OnEntryUpdate(c, u) \/ MergeThrows(c, u)
      PROVE  UNCHANGED <<listening, store>>
  BY <1>4 DEF OnTableDefinition, OnEntryUpdate, MergeThrows, UpdateReceived, Apply,
    storeVars
<1> QED
  BY <1>1, <1>2, <1>3, <1>4 DEF Next, OnParserMessage, Greets, Types

\* What a connection's parser remembers is a definition that was sent.
LEMMA TableStep ==
  ASSUME Types, [Next]_vars
  PROVE  table' \in [Conns -> Definitions \cup {None}]
<1>1. ASSUME NEW c \in Conns, NEW d \in Definitions, OnTableDefinition(c, d)
      PROVE  table' \in [Conns -> Definitions \cup {None}]
  <2>1. table' = [table EXCEPT ![c] = d]
    BY <1>1 DEF OnTableDefinition
  <2> QED
    BY <2>1 DEF Types
<1>2. CASE UNCHANGED table
  BY <1>2 DEF Types
<1>3. ASSUME NEW c \in Conns,
             \/ \E u \in Updates : OnEntryUpdate(c, u) \/ MergeThrows(c, u)
             \/ Greets(c) \/ Heartbeat(c) \/ OnSynchronizationDone(c)
             \/ Teach(c) \/ Teaches(c)
      PROVE  UNCHANGED table
  BY <1>3 DEF OnEntryUpdate, MergeThrows, UpdateReceived, Greets, HelloAccepted,
    HelloRejected, Heartbeat, OnSynchronizationDone, Teach, Teaches, TeachTable,
    TeachEntry, TeachThrows, TeachEnd
<1> QED
  BY <1>1, <1>2, <1>3, Steps DEF Unsaid

\* The types, and the timers with them.
LEMMA TypesStep ==
  ASSUME Types, MidLesson, TimersEnd, [Next]_vars
  PROVE  Types' /\ TimersEnd'
<1>1. phase' \in [Conns -> Phases] /\ timer' \in [Conns -> BOOLEAN] /\ TimersEnd'
  BY TimerStep
<1>2. parser' \in [Conns -> Faults \cup {"ok"}]
  <2>1. \A c \in Conns : TeachThrows(c) => parser' = [parser EXCEPT ![c] = "teach"]
    BY DEF TeachThrows, Failing
  <2> QED
    BY <2>1, ParserStep DEF Types, Faults
<1>3. store' \in BOOLEAN /\ listening' \in BOOLEAN
  BY ServerStep DEF Types
<1> QED
  BY <1>1, <1>2, <1>3, TableStep, LessonTypes, StoreKept DEF Types

-----------------------------------------------------------------------------
(* Lessons, and the greeting before them. *)

\* A lesson is begun when there is none, and while it goes on there is
\* nothing else.
LEMMA LessonAlone ==
  ASSUME [Next]_vars
  PROVE  \/ UNCHANGED <<phase, timer, parser, table, known, written, teaching, storeVars>>
         \/ teaching = None /\ UNCHANGED teaching
         \/ \E c \in Conns : Teach(c) \/ Teaches(c)
<1>1. CASE Listen \/ Close \/ Finished \/ UNCHANGED vars
  BY <1>1 DEF Listen, Close, Finished, vars
<1>2. ASSUME NEW c \in Conns,
             \/ Accept(c) \/ Greets(c) \/ Established(c)
             \/ ParserError(c) \/ Heartbeat(c) \/ HeartbeatAfterEnd(c)
             \/ RemoteEnd(c) \/ SocketError(c) \/ SocketClose(c)
      PROVE  teaching = None /\ UNCHANGED teaching
  BY <1>2 DEF Accept, Greets, HelloAccepted, HelloRejected, Established, ParserError,
    Heartbeat, HeartbeatAfterEnd, RemoteEnd, SocketError, SocketClose, Quiet
<1>3. ASSUME NEW c \in Conns,
             \/ ParseFails(c) \/ AckReceived(c) \/ OnSynchronizationDone(c)
             \/ \E d \in Definitions : OnTableDefinition(c, d)
             \/ \E u \in Updates : OnEntryUpdate(c, u) \/ MergeThrows(c, u)
      PROVE  teaching = None /\ UNCHANGED teaching
  BY <1>3 DEF ParseFails, AckReceived, OnSynchronizationDone, OnTableDefinition,
    OnEntryUpdate, MergeThrows, UpdateReceived, Receiving
<1> QED
  BY <1>1, <1>2, <1>3 DEF Next, OnParserMessage, Greets

\* No step takes from a lesson what it has yet to teach.
LEMMA MidLessonStep ==
  ASSUME Types, MidLesson, [Next]_vars
  PROVE  MidLesson'
<1>1. CASE UNCHANGED <<phase, timer, parser, table, known, written, teaching, storeVars>>
  BY <1>1 DEF MidLesson, storeVars
<1>2. CASE teaching' = None
  BY <1>2 DEF MidLesson
<1>3. ASSUME NEW c \in Conns, Teach(c)
      PROVE  MidLesson'
  <2>1. parser[c] = "ok" /\ phase[c] \in {"greeting", "established"}
    BY <1>3 DEF Teach, Receiving
  <2>2. /\ teaching' = [conn |-> c, name |-> None, keys |-> {},
                       tables |-> IF store THEN DOMAIN definitions ELSE {}]
        /\ UNCHANGED <<phase, parser, definitions, entries>>
    BY <1>3 DEF Teach, storeVars
  <2> QED
    BY <2>1, <2>2 DEF MidLesson
<1>4. ASSUME NEW c \in Conns, TeachTable(c)
      PROVE  MidLesson'
  <2>1. PICK n \in teaching.tables :
          teaching' = [conn |-> c, name |-> n, keys |-> DOMAIN entries[n],
                       tables |-> teaching.tables \ {n}]
    BY <1>4 DEF TeachTable
  <2>2. InLesson(c) /\ UNCHANGED <<phase, parser, definitions, entries>>
    BY <1>4 DEF TeachTable, storeVars
  <2>3. /\ parser[c] = "ok" /\ phase[c] \in {"greeting", "established"}
        /\ \A x \in teaching.tables : x \in DOMAIN definitions
    BY <2>2, InLessonIs
  <2> QED
    BY <2>1, <2>2, <2>3 DEF MidLesson
<1>5. ASSUME NEW c \in Conns, TeachEntry(c)
      PROVE  MidLesson'
  <2>1. PICK k \in teaching.keys : teaching' = [teaching EXCEPT !.keys = @ \ {k}]
    BY <1>5 DEF TeachEntry
  <2>2. InLesson(c) /\ UNCHANGED <<phase, parser, definitions, entries>>
    BY <1>5 DEF TeachEntry, storeVars
  <2>3. teaching \in Lessons /\ teaching # None
    BY <2>2, InLessonIs DEF InLesson
  <2>4. /\ teaching'.conn = teaching.conn /\ teaching'.name = teaching.name
        /\ teaching'.tables = teaching.tables /\ teaching'.keys = teaching.keys \ {k}
    BY <2>1, <2>3 DEF Lessons
  <2> QED
    BY <2>2, <2>3, <2>4 DEF MidLesson
<1>6. ASSUME NEW c \in Conns, TeachThrows(c) \/ TeachEnd(c)
      PROVE  MidLesson'
  BY <1>2, <1>6 DEF TeachThrows, TeachEnd
<1> QED
  BY <1>1, <1>2, <1>3, <1>4, <1>5, <1>6, LessonAlone DEF Teaches

-----------------------------------------------------------------------------
(* What a step says. *)

ControlTypes == {"heartbeat", "syncPartial", "syncConfirmed"}

\* What a step says, on one connection at most.
LEMMA Tells ==
  ASSUME Types, MidLesson, [Next]_vars
  PROVE  \/ UNCHANGED <<written, known>>
         \/ \E c \in Conns, m \in WrittenMessages :
              Write(c, m) /\ m.kind \notin {"entry", "definition"} /\ UNCHANGED known
         \/ \E c \in Conns : TeachTable(c) \/ TeachEntry(c) \/ TeachThrows(c)
<1> DEFINE Says(c, m) == Write(c, m) /\ m.kind \notin {"entry", "definition"} /\ UNCHANGED known
<1>1. ASSUME NEW c \in Conns,
             Heartbeat(c) \/ OnSynchronizationDone(c) \/ TeachEnd(c)
      PROVE  \E m \in WrittenMessages : Says(c, m)
  <2>1. \E type \in ControlTypes : Write(c, Control(type)) /\ UNCHANGED known
    BY <1>1 DEF Heartbeat, OnSynchronizationDone, TeachEnd, TellEnd, ControlTypes
  <2>2. \A type \in ControlTypes : /\ Control(type) \in WrittenMessages
                                   /\ Control(type).kind \notin {"entry", "definition"}
    BY DEF Control, ControlTypes, WrittenMessages
  <2> QED
    BY <2>1, <2>2
<1>2. ASSUME NEW c \in Conns, NEW u \in Updates, OnEntryUpdate(c, u) \/ MergeThrows(c, u)
      PROVE  \E m \in WrittenMessages : Says(c, m)
  <2>1. Write(c, Ack(table[c], u)) /\ table[c] \in Definitions /\ UNCHANGED known
    BY <1>2, UpdateStep DEF OnEntryUpdate, MergeThrows
  <2>2. Ack(table[c], u) \in WrittenMessages /\ Ack(table[c], u).kind = "ack"
    BY <2>1 DEF Ack, WrittenMessages
  <2> QED
    BY <2>1, <2>2
<1>3. ASSUME NEW c \in Conns, Greets(c)
      PROVE  \E m \in WrittenMessages : Says(c, m)
  <2>1. \E code \in Rejections \cup {Success} : Write(c, Status(code)) /\ UNCHANGED known
    BY <1>3 DEF Greets, HelloAccepted, HelloRejected
  <2>2. \A code \in Rejections \cup {Success} :
          Status(code) \in WrittenMessages /\ Status(code).kind = "status"
    BY DEF Status, WrittenMessages
  <2> QED
    BY <2>1, <2>2
<1>4. ASSUME NEW c \in Conns, Teach(c) \/ \E d \in Definitions : OnTableDefinition(c, d)
      PROVE  UNCHANGED <<written, known>>
  BY <1>4 DEF Teach, OnTableDefinition
<1>5. Unsaid => UNCHANGED <<written, known>>
  BY DEF Unsaid
<1> QED
  BY <1>1, <1>2, <1>3, <1>4, <1>5, Steps DEF Teaches

\* A parser that has failed stays so, and a broken-off lesson fails it.
LEMMA StillOk ==
  ASSUME Types, [Next]_vars, NEW c \in Conns, parser'[c] = "ok"
  PROVE  parser[c] = "ok" /\ ~TeachThrows(c)
<1>1. ~TeachThrows(c)
  BY DEF TeachThrows, Failing, Types
<1>2. \A o \in Conns : TeachThrows(o) => parser' = [parser EXCEPT ![o] = "teach"]
  BY DEF TeachThrows, Failing
<1>3. UNCHANGED parser \/ \E o \in Conns, fault \in Faults : parser' = [parser EXCEPT ![o] = fault]
  BY <1>2, ParserStep DEF Faults
<1>4. parser[c] = "ok"
  BY <1>3 DEF Types, Faults
<1> QED
  BY <1>1, <1>4
=============================================================================
