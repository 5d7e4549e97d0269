----------------------------- MODULE PeerServer -----------------------------
(***************************************************************************)
(* The server of src/server.ts: PeerServer accepts connections, and each   *)
(* InboundPeerConnection takes the hello, applies what the peer sends to   *)
(* the one StickTableStore, and teaches that store to peers that ask.      *)
(*                                                                         *)
(* Callbacks run one at a time.  onHandshakeData is several steps here,    *)
(* because the messages behind the hello in its chunk run listeners, so is *)
(* teach(), which writes in a loop, and so is a parser's failure, which is *)
(* emitted after the callback it is in: no other connection steps in       *)
(* between (Quiet).  Messages of one chunk are handled without a break in  *)
(* the code; here others may step between.                                 *)
(*                                                                         *)
(* Peers are the environment.  How bytes become messages is in PeerParser; *)
(* a message here is one whose values fit the table it was parsed under.   *)
(* Update ids and expiries are left out, the order of a table's entries is *)
(* left open, and the application clears no table.                         *)
(***************************************************************************)
EXTENDS Naturals, SequencesExt

CONSTANTS
  Conns,            \* the connections that may ever be opened
  MaxConnections,   \* this.server.maxConnections
  MaxWritten,       \* bound on the messages written to a connection, where
                    \* a lesson counts as one
  None,             \* undefined
  \* those of the store
  Names, Keys, Words, Counters, Rates, Arrays, Dictionaries, Latests,
  Definitions, Updates, MaxUpdates, Null

ASSUME ServerAssumption ==
  /\ MaxConnections \in Nat \ {0} /\ MaxWritten \in Nat
  /\ None \notin Definitions
  /\ None \notin [conn : Conns, name : Names \cup {None}, keys : SUBSET Keys,
                  tables : SUBSET Names]
  /\ Null \notin Words
  /\ IsFiniteSet(Dictionaries) /\ Cardinality(Dictionaries) <= 1  \* SERVER_KEY

VARIABLES
  listening,        \* the net.Server listens
  phase,            \* of a connection, see Phases
  timer,            \* its interval is alive
  parser,           \* of a connection: "ok", or what it failed with
  table,            \* its parser's lastTableDefinition
  known,            \* this.dictionary: the words with an id, in their order
  written,          \* messages written to its socket, in order
  teaching,         \* how far teach() is, None outside of it
  store,            \* options.store is given
  definitions, entries, history      \* the store

Store == INSTANCE StickTableStore WITH Peers <- Conns

ASSUME StoreAssumption == Store!DataTypesAssumption /\ Store!InputsAssumption

storeVars == <<store, definitions, entries, history>>
vars == <<listening, phase, timer, parser, table, known, written, teaching,
          storeVars>>

\* "none" is not accepted yet; "greeting" is inside onHandshakeData after the
\* status; "ending" is after the peer's end of stream, with writes pending;
\* 'close' turns "ending" and "destroyed" into "closed".
Phases == {"none", "hello", "greeting", "established", "ending", "destroyed",
           "closed"}
Faults == {"error", "ack", "teach", "merge"}

Success    == "HANDSHAKE_SUCCEEDED"
Rejections == {"PROTOCOL_ERROR", "BAD_VERSION", "REMOTE_PEER_IDENTIFIER_MISMATCH"}

\* Messages written.
Status(code)   == [kind |-> "status", code |-> code]
Control(type)  == [kind |-> type]
Ack(d, u)      == [kind |-> "ack", name |-> d.name, update |-> u]
Definition(d)  == [kind |-> "definition", definition |-> d]
\* `coded' is what stands for the word among the values, see EncodeWord.
Entry(n, k, v) ==
  [kind |-> "entry", name |-> n, key |-> k, values |-> v, coded |-> <<>>]

Write(c, m) == written' = [written EXCEPT ![c] = Append(@, m)]

\* A lesson counts as its last message.
Room(c) ==
  Len(SelectSeq(written[c], LAMBDA m : m.kind \notin {"definition", "entry"})) < MaxWritten

\* The sockets that count against maxConnections.
Occupied == {c \in Conns : phase[c] \in {"hello", "greeting", "established", "ending"}}

\* No connection is in the middle of a callback.
Quiet ==
  /\ teaching = None
  /\ \A c \in Conns : phase[c] # "greeting" /\ (phase[c] = "established" => parser[c] = "ok")

Init ==
  /\ listening = FALSE
  /\ phase = [c \in Conns |-> "none"]
  /\ timer = [c \in Conns |-> FALSE]
  /\ parser = [c \in Conns |-> "ok"]
  /\ table = [c \in Conns |-> None]
  /\ known = [c \in Conns |-> <<>>]
  /\ written = [c \in Conns |-> <<>>]
  /\ teaching = None
  /\ store \in BOOLEAN
  /\ Store!Init

-----------------------------------------------------------------------------
\* Bound: whether the server listens matters while connections are to come.
MoreToCome == \E c \in Conns : phase[c] = "none"

Listen ==
  /\ ~listening /\ MoreToCome
  /\ listening' = TRUE
  /\ UNCHANGED <<phase, timer, parser, table, known, written, teaching, storeVars>>

\* close() leaves the connections there are alone.
Close ==
  /\ listening /\ MoreToCome
  /\ listening' = FALSE
  /\ UNCHANGED <<phase, timer, parser, table, known, written, teaching, storeVars>>

\* node refuses a connection above the limit before onConnection hears of it.
Accept(c) ==
  /\ phase[c] = "none"
  /\ listening /\ Quiet
  /\ Cardinality(Occupied) < MaxConnections
  /\ phase' = [phase EXCEPT ![c] = "hello"]
  /\ UNCHANGED <<listening, timer, parser, table, known, written, teaching, storeVars>>

\* A chunk completes three lines that are the right hello.
HelloAccepted(c) ==
  /\ phase[c] = "hello" /\ Quiet
  /\ Write(c, Status(Success))
  /\ phase' = [phase EXCEPT ![c] = "greeting"]
  /\ UNCHANGED <<listening, timer, parser, table, known, teaching, storeVars>>

\* The hello is wrong, or too long; an incomplete one just waits.
HelloRejected(c, code) ==
  /\ phase[c] = "hello" /\ Quiet
  /\ Write(c, Status(code))
  /\ phase' = [phase EXCEPT ![c] = "destroyed"]
  /\ UNCHANGED <<listening, timer, parser, table, known, teaching, storeVars>>

\* What was behind the hello in its chunk is handled, or the parser failed on
\* it: the rest of onHandshakeData.
Established(c) ==
  /\ phase[c] = "greeting" /\ teaching = None
  /\ phase' = [phase EXCEPT ![c] = "established"]
  /\ timer' = [timer EXCEPT ![c] = TRUE]
  /\ UNCHANGED <<listening, parser, table, known, written, teaching, storeVars>>

-----------------------------------------------------------------------------
\* Operators named <definition>_<fault> are faulty variants of a definition:
\* each breaks one property, which shows that the property can fail.
Receiving_FromHello(c) ==
  /\ parser[c] = "ok" /\ teaching = None
  /\ phase[c] \in {"hello", "greeting", "established"}

\* The parser is fed: first with what is behind the hello, then by pipe().
Receiving(c) ==
  /\ parser[c] = "ok" /\ teaching = None
  /\ \/ phase[c] = "greeting"
     \/ phase[c] = "established" /\ Quiet

Failing_Ignored(c, fault) == UNCHANGED parser

\* An exception while a message is parsed or handled is caught in _transform
\* and fails the parser, whoever threw it; the properties tell some apart.
Failing(c, fault) == parser' = [parser EXCEPT ![c] = fault]

\* Garbage, or an update before any definition.
ParseFails(c) ==
  /\ Receiving(c)
  /\ Failing(c, "error")
  /\ UNCHANGED <<listening, phase, timer, table, known, written, teaching, storeVars>>

\* The peer acknowledges an entry it was taught: the parser has no case for it.
AckReceived(c) ==
  /\ Receiving(c)
  /\ \E i \in DOMAIN written[c] : written[c][i].kind = "entry"
  /\ Failing(c, "ack")
  /\ UNCHANGED <<listening, phase, timer, table, known, written, teaching, storeVars>>

\* The application's listeners of an event return, or throw into the parser.
Emit(c) == UNCHANGED parser \/ Failing(c, "error")

OnTableDefinition(c, d) ==
  /\ Receiving(c)
  /\ table' = [table EXCEPT ![c] = d]
  /\ IF store THEN Store!ApplyDefinition(d) /\ UNCHANGED store
              ELSE UNCHANGED storeVars
  /\ Emit(c)
  /\ UNCHANGED <<listening, phase, timer, known, written, teaching>>

\* The peer's values are those of the table it announced last.
Fits(u, d) ==
  /\ DOMAIN u.values = d.types
  /\ \A t \in d.types \cap Arrays : Len(u.values[t]) = d.count

UpdateReceived(c, u) ==
  /\ Receiving(c)
  /\ table[c] # None
  /\ Fits(u, table[c])
  /\ Room(c)
  /\ Write(c, Ack(table[c], u))
  /\ UNCHANGED <<listening, phase, timer, table, known, teaching>>

TableOf_FromStore(c) ==
  IF table[c].name \in DOMAIN definitions THEN definitions[table[c].name] ELSE table[c]

\* message.tableDefinition
TableOf(c) == table[c]

Apply(c, u) ==
  IF store
  THEN /\ Store!Applied < MaxUpdates
       /\ Store!ApplyUpdate(c, TableOf(c), u)
       /\ UNCHANGED store
  ELSE UNCHANGED storeVars

OnEntryUpdate(c, u) ==
  /\ UpdateReceived(c, u)
  /\ Apply(c, u)
  /\ Emit(c)

\* An application's merge strategy throws: applyUpdate has recorded the
\* definition and nothing else, but the acknowledgement is written.
MergeThrows(c, u) ==
  /\ store
  /\ UpdateReceived(c, u)
  /\ Store!ApplyDefinition(TableOf(c))
  /\ UNCHANGED store
  /\ Failing(c, "merge")

\* A synchronization that the peer has finished, in part or in full.
OnSynchronizationDone(c) ==
  /\ Receiving(c) /\ Room(c)
  /\ Write(c, Control("syncConfirmed"))
  /\ UNCHANGED <<listening, phase, timer, parser, table, known, teaching, storeVars>>

-----------------------------------------------------------------------------
\* teach(): each table's definition, then its entries, then the end.

\* encodeEntryUpdate writes the data types of the definition, all of the
\* items of an array, and throws where the entry has no value.
Encoded(n, k) ==
  Entry(n, k, [t \in definitions[n].types \cap DOMAIN entries[n][k] |-> entries[n][k][t]])

Encodable(n, k) == definitions[n].types \subseteq DOMAIN entries[n][k]

\* The ids of this.dictionary are the places of the words, from one.
IdOf(words, w) == CHOOSE i \in DOMAIN words : words[i] = w

Register(words, w) ==
  IF w = Null \/ Contains(words, w) THEN words ELSE Append(words, w)

\* DictionaryEncoder.encode: a word goes with a fresh id once, then its id
\* goes alone.
EncodeWord(words, w) ==
  CASE w = Null           -> <<0>>
    [] Contains(words, w) -> <<IdOf(words, w)>>
    [] OTHER              -> <<Len(words) + 1, w>>

WordsOf(m) ==
  IF m.kind = "entry" THEN {m.values[t] : t \in Dictionaries \cap DOMAIN m.values} ELSE {}
WordOf(m) == CHOOSE w \in WordsOf(m) : TRUE

InCode(words, m) ==
  IF WordsOf(m) = {} THEN m ELSE [m EXCEPT !.coded = EncodeWord(words, WordOf(m))]
KnownAfter(words, m) ==
  IF WordsOf(m) = {} THEN words ELSE Register(words, WordOf(m))

\* The request comes in.  Without a store there is nothing to teach.
Teach(c) ==
  /\ Receiving(c) /\ Room(c)
  /\ teaching' = [conn |-> c, name |-> None, keys |-> {},
                  tables |-> IF store THEN DOMAIN definitions ELSE {}]
  /\ UNCHANGED <<listening, phase, timer, parser, table, known, written, storeVars>>

InLesson(c) == teaching # None /\ teaching.conn = c

TellDefinition_Once(c, n) ==
  IF \E i \in DOMAIN written[c] :
       written[c][i].kind = "definition" /\ written[c][i].definition.name = n
  THEN UNCHANGED written ELSE Write(c, Definition(definitions[n]))

TellDefinition(c, n) == Write(c, Definition(definitions[n]))

TeachTable(c) ==
  /\ InLesson(c) /\ teaching.keys = {}
  /\ \E n \in teaching.tables :
       /\ TellDefinition(c, n)
       /\ teaching' = [conn |-> c, name |-> n, keys |-> DOMAIN entries[n],
                       tables |-> teaching.tables \ {n}]
  /\ UNCHANGED <<listening, phase, timer, parser, table, known, storeVars>>

TeachEntry(c) ==
  /\ InLesson(c)
  /\ \E k \in teaching.keys :
       /\ Encodable(teaching.name, k)
       /\ LET m == Encoded(teaching.name, k)
          IN /\ Write(c, InCode(known[c], m))
             /\ known' = [known EXCEPT ![c] = KnownAfter(@, m)]
       /\ teaching' = [teaching EXCEPT !.keys = @ \ {k}]
  /\ UNCHANGED <<listening, phase, timer, parser, table, storeVars>>

BrokenOff_Ended(c) == Write(c, Control("syncPartial"))

\* Nothing is written for an entry that cannot be encoded, nor after it.
BrokenOff(c) == UNCHANGED written

\* The lesson breaks off at such an entry, whose word may be registered by then.
TeachThrows(c) ==
  /\ InLesson(c)
  /\ \E k \in teaching.keys :
       /\ ~Encodable(teaching.name, k)
       /\ \/ UNCHANGED known
          \/ known' = [known EXCEPT ![c] = KnownAfter(@, Encoded(teaching.name, k))]
  /\ BrokenOff(c)
  /\ teaching' = None
  /\ Failing(c, "teach")
  /\ UNCHANGED <<listening, phase, timer, table, storeVars>>

TellEnd_Full(c) == Write(c, Control("syncFinished"))
TellEnd_NothingToTell(c) ==
  IF store THEN Write(c, Control("syncPartial")) ELSE UNCHANGED written

\* A partial synchronization, although everything is taught.
TellEnd(c) == Write(c, Control("syncPartial"))

TeachEnd(c) ==
  /\ InLesson(c) /\ teaching.keys = {} /\ teaching.tables = {}
  /\ TellEnd(c)
  /\ teaching' = None
  /\ UNCHANGED <<listening, phase, timer, parser, table, known, storeVars>>

Teaches(c) == TeachTable(c) \/ TeachEntry(c) \/ TeachThrows(c) \/ TeachEnd(c)

-----------------------------------------------------------------------------
PhaseAfterError_Open == "established"

\* The 'error' listener destroys the socket.
PhaseAfterError == "destroyed"

\* The parser's 'error', emitted when the callback it failed in is done.
ParserError(c) ==
  /\ phase[c] = "established" /\ parser[c] # "ok" /\ teaching = None
  /\ \A o \in Conns : phase[o] # "greeting"
  /\ phase' = [phase EXCEPT ![c] = PhaseAfterError]
  /\ UNCHANGED <<listening, timer, parser, table, known, written, teaching, storeVars>>

Heartbeat(c) ==
  /\ timer[c] /\ phase[c] = "established"
  /\ Quiet /\ Room(c)
  /\ Write(c, Control("heartbeat"))
  /\ UNCHANGED <<listening, phase, timer, parser, table, known, teaching, storeVars>>

\* A heartbeat on a socket that has ended is an error that destroys it.
HeartbeatAfterEnd(c) ==
  /\ timer[c] /\ phase[c] = "ending"
  /\ Quiet
  /\ phase' = [phase EXCEPT ![c] = "destroyed"]
  /\ UNCHANGED <<listening, timer, parser, table, known, written, teaching, storeVars>>

\* The peer ends its stream; node then ends ours.
RemoteEnd(c) ==
  /\ phase[c] \in {"hello", "established"}
  /\ Quiet
  /\ phase' = [phase EXCEPT ![c] = "ending"]
  /\ UNCHANGED <<listening, timer, parser, table, known, written, teaching, storeVars>>

SocketError(c) ==
  /\ phase[c] \in {"hello", "established", "ending"}
  /\ Quiet
  /\ phase' = [phase EXCEPT ![c] = "destroyed"]
  /\ UNCHANGED <<listening, timer, parser, table, known, written, teaching, storeVars>>

TimerAfterClose_Kept(c) == timer[c]

\* The 'close' listener's clearInterval.
TimerAfterClose(c) == FALSE

SocketClose(c) ==
  /\ phase[c] \in {"ending", "destroyed"}
  /\ Quiet
  /\ phase' = [phase EXCEPT ![c] = "closed"]
  /\ timer' = [timer EXCEPT ![c] = TimerAfterClose(c)]
  /\ UNCHANGED <<listening, parser, table, known, written, teaching, storeVars>>

\* Every connection has come and gone; a server would wait for more.
Finished ==
  /\ \A c \in Conns : phase[c] = "closed"
  /\ UNCHANGED vars

\* Heartbeats and confirmations that arrive change nothing.
OnParserMessage(c) ==
  \/ \E d \in Definitions : OnTableDefinition(c, d)
  \/ \E u \in Updates : OnEntryUpdate(c, u) \/ MergeThrows(c, u)
  \/ Teach(c) \/ OnSynchronizationDone(c)

Next ==
  \/ Listen \/ Close
  \/ \E c \in Conns :
       \/ Accept(c) \/ HelloAccepted(c) \/ Established(c)
       \/ \E code \in Rejections : HelloRejected(c, code)
       \/ OnParserMessage(c) \/ ParseFails(c) \/ AckReceived(c) \/ Teaches(c)
       \/ ParserError(c) \/ Heartbeat(c) \/ HeartbeatAfterEnd(c)
       \/ RemoteEnd(c) \/ SocketError(c) \/ SocketClose(c)
  \/ Finished

Spec == Init /\ [][Next]_vars

-----------------------------------------------------------------------------
WrittenMessages ==
  {Status(code) : code \in Rejections \cup {Success}}
    \cup {Control(type) : type \in {"heartbeat", "syncPartial", "syncConfirmed"}}
    \cup {Ack(d, u) : d \in Definitions, u \in Updates}
    \cup {Definition(d) : d \in Definitions}

\* Type invariant of the connections and of the store behind them.
TypeOK ==
  /\ listening \in BOOLEAN /\ store \in BOOLEAN
  /\ phase \in [Conns -> Phases]
  /\ timer \in [Conns -> BOOLEAN]
  /\ parser \in [Conns -> Faults \cup {"ok"}]
  /\ table \in [Conns -> Definitions \cup {None}]
  /\ known \in [Conns -> Seq(Words)]
  /\ DOMAIN written = Conns
  /\ \A c \in Conns : \A i \in DOMAIN written[c] :
       \/ written[c][i] \in WrittenMessages
       \/ /\ written[c][i].kind = "entry"
          /\ written[c][i].name \in Names /\ written[c][i].key \in Keys
          /\ Store!IsAssignment(written[c][i].values)
          /\ written[c][i].coded \in
               {<<>>, <<0>>} \cup {<<id>> : id \in DOMAIN known[c]}
                 \cup {<<id, known[c][id]>> : id \in DOMAIN known[c]}
  /\ teaching \in [conn : Conns, name : Names \cup {None}, keys : SUBSET Keys,
                  tables : SUBSET Names] \cup {None}
  /\ teaching # None =>
       /\ teaching.tables \subseteq DOMAIN definitions
       /\ teaching.keys # {} => /\ teaching.name \in DOMAIN definitions
                               /\ teaching.keys \subseteq DOMAIN entries[teaching.name]
  /\ Store!TypeOK

\* The status is the first thing on a connection, there is one, and nothing
\* follows it unless it says success: however much the peer sends behind its
\* hello, no reply to it overtakes or replaces the status.
StatusFirst ==
  \A c \in Conns :
    /\ \A i \in DOMAIN written[c] : written[c][i].kind = "status" <=> i = 1
    /\ phase[c] = "hello" => written[c] = <<>>
    /\ Len(written[c]) > 1 \/ phase[c] = "established" => written[c][1].code = Success

\* An established connection has its heartbeat until it closes and a closed
\* one has none, also when the parser failed before the timer was set.
TimersEnd ==
  \A c \in Conns :
    /\ phase[c] = "established" => timer[c]
    /\ timer[c] => phase[c] \in {"established", "ending", "destroyed"}

\* What a connection acknowledged and what the store made of it, as places in
\* what was written and in the history.
AcksFor(c, n, k) ==
  {i \in DOMAIN written[c] : /\ written[c][i].kind = "ack"
                            /\ written[c][i].name = n /\ written[c][i].update.key = k}
AppliedFor(c, n, k) == {i \in DOMAIN history[n][k] : history[n][k][i].peer = c}

\* The how-manieth of some places i is.
Rank(S, i) == Cardinality({j \in S : j <= i})

\* What is acknowledged is in the store, update by update and in order, from
\* whichever connections it interleaves with; the one exception is the last
\* update of a connection that failed in the merge.
AckedIsApplied ==
  store => \A c \in Conns, n \in Names, k \in Keys :
    LET acks    == AcksFor(c, n, k)
        applied == AppliedFor(c, n, k)
    IN /\ Cardinality(applied) <= Cardinality(acks)
       /\ Cardinality(acks) <= Cardinality(applied) + (IF parser[c] = "merge" THEN 1 ELSE 0)
       /\ \A i \in acks, j \in applied :
            Rank(acks, i) = Rank(applied, j) =>
              history[n][k][j].values = written[c][i].update.values

\* An update is applied under the definition that its own peer announced,
\* whatever other peers make of the table meanwhile.
UpdatesUnderOwnTable ==
  \A n \in Names, k \in Keys : \A i \in DOMAIN history[n][k] :
    history[n][k][i].types = DOMAIN history[n][k][i].values

\* The definition a taught entry is read under is the last one before it.
ReadUnder(c, i) ==
  LET defs == {j \in 1..i : written[c][j].kind = "definition"}
  IN IF defs = {} THEN None ELSE written[c][Max(defs)].definition

\* An entry is taught under its own table and with a value for each of the
\* data types the peer will read, although the store changes between lessons
\* and lessons break off.
LessonsReadable ==
  \A c \in Conns : \A i \in DOMAIN written[c] :
    written[c][i].kind = "entry" =>
      /\ ReadUnder(c, i) # None
      /\ ReadUnder(c, i).name = written[c][i].name
      /\ ReadUnder(c, i).types = DOMAIN written[c][i].values

\* The word a peer reads: its cache holds what came with an id last.
WordRead(c, i) ==
  LET coded  == written[c][i].coded
      stored == {j \in 1..i : /\ written[c][j].kind = "entry"
                             /\ Len(written[c][j].coded) = 2
                             /\ written[c][j].coded[1] = coded[1]}
  IN IF coded = <<0>> THEN Null
     ELSE IF stored = {} THEN None ELSE written[c][Max(stored)].coded[2]

\* The peer reads each taught word as it is in the store, although ids stand
\* for words of earlier lessons, and an entry that could not be encoded left
\* its word in the dictionary.
LessonsResolve ==
  \A c \in Conns : \A i \in DOMAIN written[c] :
    \A w \in WordsOf(written[c][i]) : WordRead(c, i) = w

\* What the comments of teach(), defaultValue and encodeEntryUpdate say: the
\* current contents are replayed and then the end is signalled, and an entry is
\* re-serialized as the peer's parser reads it, arrays of the definition's
\* length included.  No peer's request makes teach() throw, whatever other
\* peers told the store.
LessonsAreWhole ==
  \A c \in Conns :
    /\ parser[c] # "teach"
    /\ \A i \in DOMAIN written[c] :
         written[c][i].kind = "entry" =>
           \A t \in Arrays \cap DOMAIN written[c][i].values :
             Len(written[c][i].values[t]) = ReadUnder(c, i).count
=============================================================================
