-------------------------- MODULE PeerSessionProofs --------------------------
(***************************************************************************)
(* Theorems of PeerSession: that its client is a PeerConnection, that a    *)
(* session's request is answered once, and that the two ends together      *)
(* implement Synchronization.                                              *)
(*                                                                         *)
(* The ends keep the invariants that PeerConnectionProofs and              *)
(* PeerServerProofs give them.  PeerSession instantiates their             *)
(* specifications and this module their proofs, so what the two instances  *)
(* define is first shown to be the same.  Then come what is between the    *)
(* ends, the lesson, the inductive invariant IInv, and the refinement, one *)
(* lemma for each kind of step.                                            *)
(***************************************************************************)
EXTENDS PeerSession, SequenceTheorems, FiniteSetTheorems, TLAPS

CP == INSTANCE PeerConnectionProofs WITH parser <- clientParser, written <- sent
SvP == INSTANCE PeerServerProofs WITH Conns <- Sockets \cup {Feeder}

-----------------------------------------------------------------------------
(* The server. *)

\* What PeerServer assumes of its constants.
LEMMA SameServerAssumptions ==
  SvP!ServerAssumption /\ SvP!StoreAssumption
<1>1. SvP!ServerAssumption
  BY EndsAssumption DEF SvP!ServerAssumption, Server!ServerAssumption,
    SvP!IsFiniteSet, Server!IsFiniteSet, SvP!Cardinality, Server!Cardinality
<1>2. SvP!Store!DataTypes = Server!Store!DataTypes
  BY DEF SvP!Store!DataTypes, Server!Store!DataTypes
<1>3. \A t : SvP!Store!ValuesOf(t) = Server!Store!ValuesOf(t)
  BY Zenon DEF SvP!Store!ValuesOf, Server!Store!ValuesOf
<1>4. \A v : SvP!Store!IsAssignment(v) <=> Server!Store!IsAssignment(v)
  BY <1>2, <1>3 DEF SvP!Store!IsAssignment, Server!Store!IsAssignment
<1>5. SvP!StoreAssumption
  BY <1>2, <1>4, EndsAssumption DEF SvP!StoreAssumption, Server!StoreAssumption,
    SvP!Store!DataTypesAssumption, SvP!Store!InputsAssumption,
    Server!Store!DataTypesAssumption, Server!Store!InputsAssumption
<1> QED
  BY <1>1, <1>5

\* The instances' copies of PeerServer's operators: the messages,
LEMMA SameMessages ==
  /\ \A code : SvP!Status(code) = Server!Status(code)
  /\ \A type : SvP!Control(type) = Server!Control(type)
  /\ \A d : SvP!Definition(d) = Server!Definition(d)
  /\ \A n, k : SvP!Encoded(n, k) = Server!Encoded(n, k)
  /\ \A n, k : SvP!Encodable(n, k) <=> Server!Encodable(n, k)
  /\ \A m : SvP!WordsOf(m) = Server!WordsOf(m)
  /\ \A words, w : SvP!Register(words, w) = Server!Register(words, w)
  /\ \A words, w : SvP!EncodeWord(words, w) = Server!EncodeWord(words, w)
  /\ SvP!Success = Server!Success
<1>1. \A words, w : SvP!Contains(words, w) <=> Server!Contains(words, w)
  BY Zenon DEF SvP!Contains, Server!Contains
<1>2. \A words, w : SvP!Register(words, w) = Server!Register(words, w)
  BY <1>1, Zenon DEF SvP!Register, Server!Register
<1>3. \A words, w : SvP!IdOf(words, w) = Server!IdOf(words, w)
  BY Zenon DEF SvP!IdOf, Server!IdOf
<1>4. \A words, w : SvP!EncodeWord(words, w) = Server!EncodeWord(words, w)
  BY <1>1, <1>3, Zenon DEF SvP!EncodeWord, Server!EncodeWord
<1>5. \A n, k : SvP!Encoded(n, k) = Server!Encoded(n, k)
  BY Zenon DEF SvP!Encoded, Server!Encoded, SvP!Entry, Server!Entry
<1>6. \A n, k : SvP!Encodable(n, k) <=> Server!Encodable(n, k)
  BY Zenon DEF SvP!Encodable, Server!Encodable
<1>7. \A m : SvP!WordsOf(m) = Server!WordsOf(m)
  BY Zenon DEF SvP!WordsOf, Server!WordsOf
<1>8. /\ \A code : SvP!Status(code) = Server!Status(code)
      /\ \A type : SvP!Control(type) = Server!Control(type)
      /\ \A d : SvP!Definition(d) = Server!Definition(d)
      /\ SvP!Success = Server!Success
  BY Zenon DEF SvP!Status, Server!Status, SvP!Control, Server!Control, SvP!Definition,
    Server!Definition, SvP!Success, Server!Success
<1> QED
  BY <1>2, <1>4, <1>5, <1>6, <1>7, <1>8

\* the dictionary,
LEMMA SameCodes ==
  /\ \A words, m : SvP!InCode(words, m) = Server!InCode(words, m)
  /\ \A words, m : SvP!KnownAfter(words, m) = Server!KnownAfter(words, m)
<1>1. \A m : SvP!WordOf(m) = Server!WordOf(m)
  BY SameMessages, Zenon DEF SvP!WordOf, Server!WordOf
<1>2. \A words, m : SvP!InCode(words, m) = Server!InCode(words, m)
  BY <1>1, SameMessages, Zenon DEF SvP!InCode, Server!InCode
<1>3. \A words, m : SvP!KnownAfter(words, m) = Server!KnownAfter(words, m)
  BY <1>1, SameMessages, Zenon DEF SvP!KnownAfter, Server!KnownAfter
<1> QED
  BY <1>2, <1>3

\* the guards,
LEMMA SameGuards ==
  /\ SvP!Quiet <=> Server!Quiet
  /\ \A c : SvP!Room(c) <=> Server!Room(c)
  /\ \A c : SvP!Receiving(c) <=> Server!Receiving(c)
  /\ \A c : SvP!InLesson(c) <=> Server!InLesson(c)
  /\ SvP!Occupied = Server!Occupied
<1>1. SvP!Quiet <=> Server!Quiet
  BY Zenon DEF SvP!Quiet, Server!Quiet
<1>2. \A c : SvP!Room(c) <=> Server!Room(c)
  BY Zenon DEF SvP!Room, Server!Room
<1>3. \A c : SvP!Receiving(c) <=> Server!Receiving(c)
  BY <1>1, Zenon DEF SvP!Receiving, Server!Receiving
<1>4. \A c : SvP!InLesson(c) <=> Server!InLesson(c)
  BY Zenon DEF SvP!InLesson, Server!InLesson
<1>5. SvP!Occupied = Server!Occupied
  BY Zenon DEF SvP!Occupied, Server!Occupied
<1> QED
  BY <1>1, <1>2, <1>3, <1>4, <1>5

\* the steps,
LEMMA SameCallbacks ==
  /\ Server!Listen => SvP!Listen
  /\ \A c : Server!Accept(c) => SvP!Accept(c)
  /\ \A c : Server!HelloAccepted(c) => SvP!HelloAccepted(c)
  /\ \A c : Server!AckReceived(c) => SvP!AckReceived(c)
  /\ \A c : Server!Established(c) => SvP!Established(c)
  /\ \A c : Server!ParserError(c) => SvP!ParserError(c)
  /\ \A c : Server!HeartbeatAfterEnd(c) => SvP!HeartbeatAfterEnd(c)
  /\ \A c : Server!RemoteEnd(c) => SvP!RemoteEnd(c)
  /\ \A c : Server!SocketError(c) => SvP!SocketError(c)
  /\ \A c : Server!SocketClose(c) => SvP!SocketClose(c)
<1> USE SameGuards, SameMessages DEF SvP!storeVars, Server!storeVars
<1>1. Server!Listen => SvP!Listen
  BY Zenon DEF Server!Listen, SvP!Listen, Server!MoreToCome, SvP!MoreToCome
<1>2. \A c : Server!Accept(c) => SvP!Accept(c)
  BY Zenon DEF Server!Accept, SvP!Accept, SvP!Cardinality, Server!Cardinality
<1>3. \A c : Server!HelloAccepted(c) => SvP!HelloAccepted(c)
  BY Zenon DEF Server!HelloAccepted, SvP!HelloAccepted, Server!Write, SvP!Write
<1>4. \A c : Server!AckReceived(c) => SvP!AckReceived(c)
  BY Zenon DEF Server!AckReceived, SvP!AckReceived, Server!Failing, SvP!Failing
<1>5. \A c : Server!Established(c) => SvP!Established(c)
  BY Zenon DEF Server!Established, SvP!Established
<1>6. \A c : Server!ParserError(c) => SvP!ParserError(c)
  BY Zenon DEF Server!ParserError, SvP!ParserError, Server!PhaseAfterError, SvP!PhaseAfterError
<1>7. \A c : Server!HeartbeatAfterEnd(c) => SvP!HeartbeatAfterEnd(c)
  BY Zenon DEF Server!HeartbeatAfterEnd, SvP!HeartbeatAfterEnd
<1>8. \A c : Server!RemoteEnd(c) => SvP!RemoteEnd(c)
  BY Zenon DEF Server!RemoteEnd, SvP!RemoteEnd
<1>9. \A c : Server!SocketError(c) => SvP!SocketError(c)
  BY Zenon DEF Server!SocketError, SvP!SocketError
<1>10. \A c : Server!SocketClose(c) => SvP!SocketClose(c)
  BY Zenon DEF Server!SocketClose, SvP!SocketClose, Server!TimerAfterClose, SvP!TimerAfterClose
<1> QED
  BY <1>1, <1>2, <1>3, <1>4, <1>5, <1>6, <1>7, <1>8, <1>9, <1>10

\* and the steps of a lesson.
LEMMA SameLessons ==
  /\ \A c : Server!Teach(c) => SvP!Teach(c)
  /\ \A c : Server!TeachTable(c) => SvP!TeachTable(c)
  /\ \A c : Server!TeachEntry(c) => SvP!TeachEntry(c)
  /\ \A c : Server!TeachThrows(c) => SvP!TeachThrows(c)
  /\ \A c : Server!TeachEnd(c) => SvP!TeachEnd(c)
<1> USE SameGuards, SameMessages, SameCodes
    DEF SvP!storeVars, Server!storeVars, Server!Write, SvP!Write
<1>1. \A c : Server!Teach(c) => SvP!Teach(c)
  BY Zenon DEF Server!Teach, SvP!Teach
<1>2. \A c : Server!TeachTable(c) => SvP!TeachTable(c)
  BY Zenon DEF Server!TeachTable, SvP!TeachTable, Server!TellDefinition, SvP!TellDefinition
<1>3. \A c : Server!TeachEntry(c) => SvP!TeachEntry(c)
  BY Zenon DEF Server!TeachEntry, SvP!TeachEntry
<1>4. \A c : Server!TeachThrows(c) => SvP!TeachThrows(c)
  BY Zenon DEF Server!TeachThrows, SvP!TeachThrows, Server!BrokenOff, SvP!BrokenOff,
    Server!Failing, SvP!Failing
<1>5. \A c : Server!TeachEnd(c) => SvP!TeachEnd(c)
  BY Zenon DEF Server!TeachEnd, SvP!TeachEnd, Server!TellEnd, SvP!TellEnd
<1> QED
  BY <1>1, <1>2, <1>3, <1>4, <1>5

\* The server's ends of its connections.
Ends == Sockets \cup {Feeder}

\* What PeerServer's proofs keep of a server: the parts of their invariant that do
\* not say that the store has only what the server's own sockets brought.
ServerInv ==
  /\ SvP!Types /\ SvP!MidLesson /\ SvP!TimersEnd
  /\ \A c \in Ends : SvP!Greeted(c)
  /\ SvP!LessonsRead
  /\ \A c \in Ends : SvP!WordsKept(c)

\* A step of the session is one of PeerServer, or one of the three that are not.
LEMMA ServerIs ==
  ASSUME [Next]_vars
  PROVE  \/ [SvP!Next]_SvP!vars
         \/ Reconnect \/ Feed
         \/ \E c \in Sockets : Refuse(c)
<1> DEFINE P == [SvP!Next]_SvP!vars
<1>1. UNCHANGED serverVars => P
  BY Zenon DEF serverVars, SvP!vars, SvP!storeVars
<1>2. ASSUME NEW c \in Sockets,
             \/ SvP!Accept(c) \/ SvP!HelloAccepted(c) \/ SvP!AckReceived(c)
             \/ SvP!Established(c) \/ SvP!ParserError(c) \/ SvP!HeartbeatAfterEnd(c)
             \/ SvP!RemoteEnd(c) \/ SvP!SocketError(c) \/ SvP!SocketClose(c)
             \/ SvP!Teach(c) \/ SvP!Teaches(c)
      PROVE  P
  BY <1>2 DEF SvP!Next, SvP!OnParserMessage
<1>3. CASE Listen
  BY <1>3, SameCallbacks DEF Listen, SvP!Next
<1>4. ASSUME NEW c \in Sockets, Server!Teaches(c)
      PROVE  SvP!Teaches(c)
  BY <1>4, SameLessons DEF Server!Teaches, SvP!Teaches
<1>5. ASSUME NEW c \in Sockets, NEW m, Handle(c, m)
      PROVE  P
  BY <1>1, <1>2, <1>5, SameCallbacks, SameLessons DEF Handle
<1>6. ASSUME NEW c \in Sockets,
             \/ Accept(c) \/ ServerReads(c) \/ ServerReadsEnd(c) \/ ServerSocketError(c)
             \/ ServerCallback(c) \/ ServerSocketClose(c)
      PROVE  P
  BY <1>2, <1>4, <1>5, <1>6, SameCallbacks DEF Accept, ServerReads, ServerReadsEnd,
    ServerSocketError, ServerCallback, ServerSocketClose
<1>7. CASE \/ Connect \/ ReadStatus \/ ReadPartOfStatus \/ Read \/ ReadEnd
           \/ ClientSocketError \/ ClientListenerThrows \/ ClientSocketClose
           \/ Exited \/ UNCHANGED vars
  <2>1. UNCHANGED serverVars
    BY <1>7 DEF Connect, ReadStatus, ReadPartOfStatus, Read, ReadEnd, ClientSocketError,
      ClientListenerThrows, ClientSocketClose, Exited, ClientStep, vars
  <2> QED
    BY <1>1, <2>1
<1> QED
  BY <1>3, <1>6, <1>7 DEF Next

\* A step of PeerServer keeps it, as PeerServerProofs shows,
LEMMA ServerInvStep ==
  ASSUME ServerInv, [SvP!Next]_SvP!vars
  PROVE  ServerInv'
<1> USE SameServerAssumptions DEF SvP!ServerAssumption, SvP!StoreAssumption, Ends
<1>1. SvP!Types' /\ SvP!TimersEnd'
  BY SvP!TypesStep DEF ServerInv
<1>2. SvP!MidLesson'
  BY SvP!MidLessonStep DEF ServerInv
<1>3. \A c \in Ends : SvP!Greeted(c)'
  BY SvP!GreetedStep DEF ServerInv
<1>4. SvP!LessonsRead'
  BY SvP!LessonsReadStep DEF ServerInv
<1>5. \A c \in Ends : SvP!WordsKept(c)'
  BY SvP!WordsKeptStep DEF ServerInv
<1> QED
  BY <1>1, <1>2, <1>3, <1>4, <1>5 DEF ServerInv

\* the initial states have it,
LEMMA ServerInvInit == Init => ServerInv
<1> SUFFICES ASSUME Init PROVE ServerInv
  OBVIOUS
<1>1. SvP!Init
  <2>1. SvP!Store!Init <=> Server!Store!Init
    BY Zenon DEF SvP!Store!Init, Server!Store!Init
  <2> QED
    BY <2>1 DEF Init, Server!Init, SvP!Init
<1>2. SvP!IInv
  BY <1>1, SvP!InitHolds, SameServerAssumptions DEF SvP!ServerAssumption, SvP!StoreAssumption
<1> QED
  BY <1>2 DEF SvP!IInv, ServerInv, Ends

\* The copies of the store's operators.
LEMMA SameUpdates ==
  /\ \A d : Server!Store!ApplyDefinition(d) => SvP!Store!ApplyDefinition(d)
  /\ \A p, d, u : Server!Store!ApplyUpdate(p, d, u) => SvP!Store!ApplyUpdate(p, d, u)
  /\ Server!Store!Applied = SvP!Store!Applied
<1>1. \A map, k, v : SvP!Store!Put(map, k, v) = Server!Store!Put(map, k, v)
  BY Zenon DEF SvP!Store!Put, Server!Store!Put
<1>2. \A n, k : SvP!Store!Existing(n, k) = Server!Store!Existing(n, k)
  BY Zenon DEF SvP!Store!Existing, Server!Store!Existing
<1>3. \A t, old, new : SvP!Store!Merge(t, old, new) = Server!Store!Merge(t, old, new)
  BY Zenon DEF SvP!Store!Merge, Server!Store!Merge, SvP!Store!MergeRates,
    Server!Store!MergeRates, SvP!Store!MergeArrays, Server!Store!MergeArrays
<1>4. \A t, d : SvP!Store!DefaultValue(t, d) = Server!Store!DefaultValue(t, d)
  BY Zenon DEF SvP!Store!DefaultValue, Server!Store!DefaultValue
<1>5. \A old, new : SvP!Store!Merged(old, new) = Server!Store!Merged(old, new)
  BY <1>3, Zenon DEF SvP!Store!Merged, Server!Store!Merged
<1>6. \A v, d : SvP!Store!Completed(v, d) = Server!Store!Completed(v, d)
  BY <1>4, Zenon DEF SvP!Store!Completed, Server!Store!Completed
<1>7. ASSUME NEW d
      PROVE  Server!Store!ApplyDefinition(d) => SvP!Store!ApplyDefinition(d)
  BY <1>1, Zenon DEF SvP!Store!ApplyDefinition, Server!Store!ApplyDefinition
<1>8. ASSUME NEW p, NEW d, NEW u
      PROVE  Server!Store!ApplyUpdate(p, d, u) => SvP!Store!ApplyUpdate(p, d, u)
  BY <1>1, <1>2, <1>5, <1>6 DEF SvP!Store!ApplyUpdate, Server!Store!ApplyUpdate
<1>9. Server!Store!Applied = SvP!Store!Applied
  BY DEF Server!Store!Applied, SvP!Store!Applied, Server!Store!MapThenSumSet,
    SvP!Store!MapThenSumSet, Server!Store!MapThenFoldSet, SvP!Store!MapThenFoldSet
<1> QED
  BY <1>7, <1>8, <1>9

\* What another peer does to the store is a step of StickTableStore.
LEMMA FeedsStore ==
  ASSUME Feed, ServerInv
  PROVE  /\ SvP!SP!IInv'
         /\ SvP!OwnNames'
<1> USE SameServerAssumptions DEF SvP!ServerAssumption, SvP!StoreAssumption
<1>1. PICK d \in Definitions :
        \/ Server!Store!ApplyDefinition(d)
        \/ /\ Server!Store!Applied < MaxUpdates
           /\ \E u \in Updates : Server!Store!ApplyUpdate(Feeder, d, u)
  BY DEF Feed
<1>2. SvP!Store!Next
  BY <1>1, SameUpdates DEF SvP!Store!Next
<1>3. SvP!SP!IInv'
  <2>1. [SvP!SP!Next]_SvP!SP!vars
    BY <1>2, SvP!SameNext
  <2>2. SvP!SP!IInv
    BY DEF ServerInv, SvP!Types
  <2>3. SvP!SP!DataTypesAssumption /\ SvP!SP!InputsAssumption
    BY SvP!SameAssumptions
  <2> QED
    BY <2>1, <2>2, <2>3, SvP!SP!StepIInv
    DEF SvP!SP!DataTypesAssumption, SvP!SP!InputsAssumption
<1>4. definitions' = Server!Store!Put(definitions, d.name, d)
  BY <1>1 DEF Server!Store!ApplyDefinition, Server!Store!ApplyUpdate
<1>5. \A n \in DOMAIN definitions : definitions[n].name = n
  BY DEF ServerInv, SvP!LessonsRead, SvP!OwnNames
<1>6. SvP!OwnNames'
  BY <1>4, <1>5 DEF Server!Store!Put, SvP!OwnNames
<1> QED
  BY <1>3, <1>6

\* Feeding, which changes only the store, keeps the invariant,
LEMMA ServerInvFeed ==
  ASSUME Feed, ServerInv
  PROVE  ServerInv'
<1>1. /\ UNCHANGED <<listening, phase, timer, parser, table, known, written, teaching, store>>
      /\ teaching = None
  BY SameGuards DEF Feed, SvP!Quiet
<1>2. SvP!Types'
  BY <1>1, FeedsStore DEF ServerInv, SvP!Types
<1>3. SvP!MidLesson' /\ SvP!TimersEnd'
  BY <1>1 DEF ServerInv, SvP!MidLesson, SvP!TimersEnd
<1>4. \A c \in Ends : SvP!Greeted(c)'
  BY <1>1 DEF ServerInv, SvP!Greeted
<1>5. SvP!LessonsRead'
  BY <1>1, FeedsStore DEF ServerInv, SvP!LessonsRead, SvP!EntryRead, SvP!ReadsAs
<1>6. \A c \in Ends : SvP!WordsKept(c)'
  BY <1>1 DEF ServerInv, SvP!WordsKept
<1> QED
  BY <1>2, <1>3, <1>4, <1>5, <1>6 DEF ServerInv

\* so does refusing a connection,
LEMMA ServerInvRefuse ==
  ASSUME NEW c \in Sockets, Refuse(c), ServerInv
  PROVE  ServerInv'
<1>1. /\ UNCHANGED <<listening, timer, parser, table, known, written, teaching, store,
                     definitions, entries, history>>
      /\ teaching = None
      /\ phase[c] = "none"
      /\ phase' = [phase EXCEPT ![c] = "closed"]
  BY SameGuards DEF Refuse, SvP!Quiet
<1>2. phase \in [Ends -> SvP!Phases]
  BY DEF ServerInv, SvP!Types, Ends
<1>3. SvP!Types'
  <2>1. phase' \in [Ends -> SvP!Phases]
    BY <1>1, <1>2 DEF SvP!Phases
  <2>2. SvP!SP!IInv'
    BY <1>1 DEF ServerInv, SvP!Types, SvP!SP!IInv, SvP!SP!TypeOK, SvP!SP!CompleteForItsUpdates
  <2> QED
    BY <1>1, <2>1, <2>2 DEF ServerInv, SvP!Types, Ends
<1>4. SvP!MidLesson'
  BY <1>1 DEF SvP!MidLesson
<1>5. SvP!TimersEnd'
  BY <1>1, <1>2 DEF ServerInv, SvP!TimersEnd, Ends
<1>6. \A o \in Ends : SvP!Greeted(o)'
  BY <1>1, <1>2 DEF ServerInv, SvP!Greeted
<1>7. SvP!LessonsRead'
  BY <1>1 DEF ServerInv, SvP!LessonsRead, SvP!EntryRead, SvP!ReadsAs, SvP!OwnNames
<1>8. \A o \in Ends : SvP!WordsKept(o)'
  BY <1>1 DEF ServerInv, SvP!WordsKept
<1> QED
  BY <1>3, <1>4, <1>5, <1>6, <1>7, <1>8 DEF ServerInv

\* A connection that is used again has no timer and no lesson.
LEMMA UnusedAre ==
  ASSUME ServerInv, NEW c \in Unused
  PROVE  /\ phase[c] \in {"none", "closed"} /\ timer[c] = FALSE
         /\ teaching # None => teaching.conn # c
BY DEF ServerInv, Unused, SvP!TimersEnd, SvP!MidLesson, SvP!Types, Ends

\* and so does forgetting the connections that are over.
LEMMA ServerInvReconnect ==
  ASSUME Reconnect, ServerInv
  PROVE  ServerInv' /\ conn' \in Unused
<1>1. /\ conn' \in Unused
      /\ phase' = [phase EXCEPT ![conn'] = "none"]
      /\ parser' = [c \in DOMAIN parser |-> IF c \in Unused THEN "ok" ELSE parser[c]]
      /\ table' = [c \in DOMAIN table |-> IF c \in Unused THEN None ELSE table[c]]
      /\ known' = [c \in DOMAIN known |-> IF c \in Unused THEN <<>> ELSE known[c]]
      /\ written' = [c \in DOMAIN written |-> IF c \in Unused THEN <<>> ELSE written[c]]
      /\ UNCHANGED <<listening, timer, teaching, store, definitions, entries, history>>
  BY DEF Reconnect
<1>2. /\ phase \in [Ends -> SvP!Phases] /\ parser \in [Ends -> SvP!Faults \cup {"ok"}]
      /\ table \in [Ends -> Definitions \cup {None}] /\ known \in [Ends -> Seq(Words)]
      /\ DOMAIN written = Ends
      /\ \A c \in Ends : SvP!IsSequence(written[c])
  BY DEF ServerInv, SvP!Types, Ends
<1>3. Unused \subseteq Ends
  BY DEF Unused, Ends
<1>4. SvP!Types'
  <2>1. phase' \in [Ends -> SvP!Phases]
    BY <1>1, <1>2 DEF SvP!Phases
  <2>2. /\ parser' \in [Ends -> SvP!Faults \cup {"ok"}]
        /\ table' \in [Ends -> Definitions \cup {None}]
    BY <1>1, <1>2
  <2>3. known' \in [Ends -> Seq(Words)]
    BY <1>1, <1>2
  <2>4. DOMAIN written' = Ends /\ \A c \in Ends : SvP!IsSequence(written'[c])
    <3>1. DOMAIN written' = Ends
      BY <1>1, <1>2
    <3>2. \A c \in Ends : written'[c] = <<>> \/ written'[c] = written[c]
      BY <1>1, <1>2
    <3>3. SvP!IsSequence(<<>>)
      BY SvP!EmptySequence, SameServerAssumptions
      DEF SvP!ServerAssumption, SvP!StoreAssumption
    <3>4. ASSUME NEW c \in Ends
          PROVE  SvP!IsSequence(written'[c])
      <4>1. CASE written'[c] = <<>>
        BY <3>3, <4>1
      <4>2. CASE written'[c] = written[c]
        BY <1>2, <4>2
      <4> QED
        BY <3>2, <4>1, <4>2
    <3> QED
      BY <3>1, <3>4
  <2>5. SvP!SP!IInv'
    BY <1>1 DEF ServerInv, SvP!Types, SvP!SP!IInv, SvP!SP!TypeOK, SvP!SP!CompleteForItsUpdates
  <2> QED
    BY <1>1, <2>1, <2>2, <2>3, <2>4, <2>5 DEF ServerInv, SvP!Types, Ends
<1>5. \A c \in Ends :
        \/ c \in Unused
        \/ /\ c \notin Unused
           /\ phase'[c] = phase[c] /\ parser'[c] = parser[c]
           /\ known'[c] = known[c] /\ written'[c] = written[c]
  BY <1>1, <1>2
<1>6. \A c \in Unused : /\ phase'[c] \in {"none", "closed"} /\ parser'[c] = "ok"
                        /\ known'[c] = <<>> /\ written'[c] = <<>>
  BY <1>1, <1>2, <1>3, UnusedAre
<1>7. teaching # None => teaching.conn \in Ends /\ teaching.conn \notin Unused
  BY UnusedAre DEF ServerInv, SvP!Types, SvP!Lessons, Ends
<1>8. SvP!MidLesson'
  BY <1>1, <1>5, <1>7 DEF ServerInv, SvP!MidLesson
<1>9. SvP!TimersEnd'
  <2>1. \A c \in Ends : timer[c] => c \notin Unused
    BY UnusedAre
  <2>2. \A c \in Ends : phase'[c] = "established" => c \notin Unused
    BY <1>6
  <2> QED
    BY <1>1, <1>5, <2>1, <2>2 DEF ServerInv, SvP!TimersEnd, Ends
<1>10. Len(<<>>) = 0 /\ DOMAIN <<>> = {}
  BY SvP!EmptySequence
<1>11. \A c \in Ends : SvP!Greeted(c)'
  <2>1. ASSUME NEW c \in Unused
        PROVE  SvP!Greeted(c)'
    <3> DEFINE w == written'[c]
               p == phase'[c]
    <3>1. w = <<>> /\ p \in {"none", "closed"} /\ Len(w) = 0 /\ DOMAIN w = {}
      BY <1>6, <1>10
    <3> QED
      BY <3>1 DEF SvP!Greeted
  <2>2. ASSUME NEW c \in Ends, c \notin Unused
        PROVE  SvP!Greeted(c)'
    BY <1>5, <2>2 DEF ServerInv, SvP!Greeted
  <2> QED
    BY <2>1, <2>2
<1>12. SvP!LessonsRead'
  <2>1. SvP!OwnNames'
    BY <1>1 DEF ServerInv, SvP!LessonsRead, SvP!OwnNames
  <2>2. (teaching # None /\ teaching.keys # {} =>
           SvP!ReadsAs(written[teaching.conn], Len(written[teaching.conn]),
                       definitions[teaching.name]))'
    BY <1>1, <1>5, <1>7 DEF ServerInv, SvP!LessonsRead
  <2>3. \A c \in Ends : \A i \in DOMAIN written'[c] :
          written'[c][i].kind = "entry" => SvP!EntryRead(written'[c], i)
    BY <1>5, <1>6, <1>10 DEF ServerInv, SvP!LessonsRead, Ends
  <2> QED
    BY <2>1, <2>2, <2>3 DEF SvP!LessonsRead, Ends
<1>13. \A c \in Ends : SvP!WordsKept(c)'
  <2>1. ASSUME NEW c \in Unused
        PROVE  SvP!WordsKept(c)'
    BY <1>6, <1>10 DEF SvP!WordsKept, SvP!Coded, SvP!AllIntroduced
  <2>2. ASSUME NEW c \in Ends, c \notin Unused
        PROVE  SvP!WordsKept(c)'
    BY <1>5, <2>2 DEF ServerInv, SvP!WordsKept
  <2> QED
    BY <2>1, <2>2
<1> QED
  BY <1>1, <1>4, <1>8, <1>9, <1>11, <1>12, <1>13 DEF ServerInv

\* So the server is a server whatever the session does.
LEMMA ServerInvKept ==
  ASSUME ServerInv, [Next]_vars
  PROVE  ServerInv'
BY ServerIs, ServerInvStep, ServerInvFeed, ServerInvRefuse, ServerInvReconnect

-----------------------------------------------------------------------------
(* The client. *)

\* The copies of PeerConnection's steps.
LEMMA SameClient ==
  /\ Client!Ready => CP!Ready
  /\ Client!StatusAccepted => CP!StatusAccepted
  /\ Client!StatusIncomplete => CP!StatusIncomplete
  /\ \A m : Client!OnParserMessage(m) => CP!OnParserMessage(m)
  /\ Client!SocketError => CP!SocketError
  /\ Client!RemoteEnd => CP!RemoteEnd
  /\ Client!ParserError => CP!ParserError
  /\ Client!SocketClose => CP!SocketClose
  /\ Client!Reconnect => CP!Reconnect
<1> USE DEF Client!Write, CP!Write
<1>1. Client!Ready => CP!Ready
  BY Zenon DEF Client!Ready, CP!Ready, Client!Start, CP!Start
<1>2. Client!StatusAccepted => CP!StatusAccepted
  BY Zenon DEF Client!StatusAccepted, CP!StatusAccepted
<1>3. Client!StatusIncomplete => CP!StatusIncomplete
  BY Zenon DEF Client!StatusIncomplete, CP!StatusIncomplete
<1>4. \A m : Client!OnParserMessage(m) => CP!OnParserMessage(m)
  <2>1. \A m : Client!Reply(m) = CP!Reply(m)
    BY Zenon DEF Client!Reply, CP!Reply
  <2> QED
    BY <2>1, Zenon DEF Client!OnParserMessage, CP!OnParserMessage,
      Client!ResetHeartbeatTimer, CP!ResetHeartbeatTimer
<1>5. Client!SocketError => CP!SocketError
  BY Zenon DEF Client!SocketError, CP!SocketError
<1>6. Client!RemoteEnd => CP!RemoteEnd
  BY Zenon DEF Client!RemoteEnd, CP!RemoteEnd
<1>7. Client!ParserError => CP!ParserError
  BY Zenon DEF Client!ParserError, CP!ParserError
<1>8. Client!SocketClose => CP!SocketClose
  BY Zenon DEF Client!SocketClose, CP!SocketClose, Client!ClearHeartbeat, CP!ClearHeartbeat
<1>9. Client!Reconnect => CP!Reconnect
  BY Zenon DEF Client!Reconnect, CP!Reconnect, Client!TimersLeft, CP!TimersLeft,
    Client!StateOnReconnect, CP!StateOnReconnect,
    Client!ParserOnReconnect, CP!ParserOnReconnect
<1> QED
  BY <1>1, <1>2, <1>3, <1>4, <1>5, <1>6, <1>7, <1>8, <1>9

\* What the server says: no update of another peer is passed on to the client.
Kinds == {"status", "definition", "entry", "syncPartial"}

\* A message is of one of these kinds, and an entry has values.
Fine(m) ==
  /\ m.kind \in Kinds
  /\ m.kind = "entry" => m.values = [t \in DOMAIN m.values |-> m.values[t]]

\* Every message of the server is.
AllFine == \A c \in Sockets : \A i \in DOMAIN written[c] : Fine(written[c][i])

\* What ClientStep delivers: the client's steps, Reconnect left aside.
Handles ==
  \/ Client!Ready \/ Client!StatusAccepted \/ Client!StatusIncomplete
  \/ \E m \in Client!Messages : Client!OnParserMessage(m)
  \/ Client!SocketError \/ Client!RemoteEnd \/ Client!ParserError \/ Client!SocketClose

\* After the status, what the client reads is of a class it knows.
LEMMA ReadMessage ==
  ASSUME ServerInv, AllFine, conn \in Sockets,
         read \in Nat, read > 0, read < Len(written[conn])
  PROVE  /\ written[conn][read + 1].kind \in {"definition", "entry", "syncPartial"}
         /\ Received(written[conn][read + 1]) \in Client!Messages
<1>1. SvP!IsSequence(written[conn]) /\ SvP!Greeted(conn)
  BY DEF ServerInv, SvP!Types, Ends
<1>2. DOMAIN written[conn] = 1..Len(written[conn]) /\ Len(written[conn]) \in Nat
  BY <1>1 DEF SvP!IsSequence
<1>3. read + 1 \in DOMAIN written[conn] /\ read + 1 # 1
  BY <1>2
<1>4. written[conn][read + 1].kind \in Kinds \ {"status"}
  BY <1>1, <1>3 DEF SvP!Greeted, AllFine, Fine
<1>5. written[conn][read + 1].kind \in {"definition", "entry", "syncPartial"}
  BY <1>4 DEF Kinds
<1> QED
  BY <1>5 DEF Received, Client!Messages

\* A step of the session is one of the client, a reconnection, or none of the client's.
LEMMA ClientIs ==
  ASSUME ServerInv, AllFine, conn \in Sockets, read \in Nat, [Next]_vars
  PROVE  \/ ClientStep /\ Handles
         \/ Reconnect
         \/ UNCHANGED clientVars
<1>1. ASSUME Read
      PROVE  ClientStep /\ Handles
  BY <1>1, ReadMessage DEF Read, Handles
<1>2. CASE \/ Connect \/ ReadStatus \/ ReadPartOfStatus \/ ReadEnd
           \/ ClientSocketError \/ ClientListenerThrows \/ ClientSocketClose
  BY <1>2 DEF Connect, ReadStatus, ReadPartOfStatus, ReadEnd, ClientSocketError,
      ClientListenerThrows, ClientSocketClose, Handles
<1>3. CASE Exited \/ UNCHANGED vars
  BY <1>3 DEF Exited, vars
<1>4. CASE Listen \/ Feed
  BY <1>4 DEF Listen, Feed, ServerStep
<1>5. ASSUME NEW c \in Sockets,
             \/ Accept(c) \/ Refuse(c) \/ ServerReads(c) \/ ServerReadsEnd(c)
             \/ ServerSocketError(c) \/ ServerCallback(c) \/ ServerSocketClose(c)
      PROVE  UNCHANGED clientVars
  BY <1>5 DEF Accept, Refuse, ServerReads, ServerReadsEnd, ServerSocketError, ServerCallback,
    ServerSocketClose, ServerStep
<1> QED
  BY <1>1, <1>2, <1>3, <1>4, <1>5 DEF Next

\* So the client takes the steps of PeerConnection,
LEMMA ClientNext ==
  ASSUME ServerInv, AllFine, conn \in Sockets, read \in Nat, [Next]_vars
  PROVE  [Client!Next]_Client!vars
<1>1. Handles => Client!Next
  BY DEF Handles, Client!Next, Client!Outage
<1>2. Reconnect => Client!Next
  BY DEF Reconnect, Client!Next
<1>3. UNCHANGED clientVars => UNCHANGED Client!vars
  BY DEF clientVars, Client!vars
<1> QED
  BY <1>1, <1>2, <1>3, ClientIs

\* and keeps its invariant,
LEMMA ClientInvKept ==
  ASSUME CP!IInv, ServerInv, AllFine, conn \in Sockets, read \in Nat, [Next]_vars
  PROVE  CP!IInv'
<1>1. CP!MaxWrittenAssumption
  BY EndsAssumption DEF CP!MaxWrittenAssumption, Client!MaxWrittenAssumption
<1>2. CP!Messages = Client!Messages
  BY DEF CP!Messages, Client!Messages
<1>3. Handles => CP!Next
  BY <1>2, SameClient DEF Handles, CP!Next, CP!Outage
<1>4. Reconnect => CP!Next
  BY SameClient DEF Reconnect, CP!Next
<1>5. UNCHANGED clientVars => UNCHANGED CP!vars
  BY DEF clientVars, CP!vars
<1>6. [CP!Next]_CP!vars
  BY <1>3, <1>4, <1>5, ClientIs
<1> QED
  BY <1>1, <1>6, CP!StepIInv DEF CP!MaxWrittenAssumption

\* which it has at first.
LEMMA ClientInvInit == Init => CP!IInv
<1> SUFFICES ASSUME Init PROVE CP!IInv
  OBVIOUS
<1>1. CP!Init
  BY DEF Init, Client!Init, CP!Init
<1> QED
  BY <1>1, EndsAssumption, CP!InitIInv DEF CP!MaxWrittenAssumption, Client!MaxWrittenAssumption

\* What a step of the client writes.
Late == SubSeq(sent', Len(sent) + 1, Len(sent'))

\* It is what the step appends.
LEMMA LateIs ==
  ASSUME NEW S, NEW s \in Seq(S), NEW x \in S
  PROVE  /\ SubSeq(s, Len(s) + 1, Len(s)) = <<>>
         /\ SubSeq(s \o <<>>, Len(s) + 1, Len(s \o <<>>)) = <<>>
         /\ SubSeq(s \o <<x>>, Len(s) + 1, Len(s \o <<x>>)) = <<x>>
<1>1. Len(s) \in Nat
  OBVIOUS
<1>2. SubSeq(s, Len(s) + 1, Len(s)) = <<>>
  BY <1>1
<1>3. s \o <<>> = s
  OBVIOUS
<1>4. SubSeq(s \o <<x>>, Len(s) + 1, Len(s \o <<x>>)) = <<x>>
  <2> DEFINE t == s \o <<x>>
             u == SubSeq(t, Len(s) + 1, Len(s) + 1)
  <2>1. t \in Seq(S) /\ Len(t) = Len(s) + 1 /\ t[Len(s) + 1] = x
    OBVIOUS
  <2>2. u \in Seq(S) /\ Len(u) = 1 /\ u[1] = x
    BY <1>1, <2>1
  <2>3. u = <<x>>
    <3>1. <<x>> \in Seq(S) /\ Len(<<x>>) = 1 /\ <<x>>[1] = x
      OBVIOUS
    <3> HIDE DEF u
    <3> QED
      BY <2>2, <3>1, SeqEqual
  <2> QED
    BY <2>1, <2>3
<1> QED
  BY <1>2, <1>3, <1>4

\* At most one message, and the request only when the status is accepted.
LEMMA ClientWrites ==
  ASSUME CP!IInv, Handles
  PROVE  \/ Late = <<>>
         \/ \E x \in Client!Outgoing :
              Late = <<x>> /\ (x = "syncRequest" => Client!StatusAccepted)
<1> DEFINE P == \/ Late = <<>>
                \/ \E x \in Client!Outgoing :
                     Late = <<x>> /\ (x = "syncRequest" => Client!StatusAccepted)
<1>1. sent \in Seq(Client!Outgoing)
  BY DEF CP!IInv, CP!TypeOK, CP!Outgoing, Client!Outgoing
<1>2. sent' = sent => Late = <<>>
  BY <1>1, LateIs DEF Late, Client!Outgoing
<1>3. sent' = sent \o <<>> => Late = <<>>
  BY <1>1, LateIs DEF Late, Client!Outgoing
<1>4. ASSUME NEW x \in Client!Outgoing, sent' = sent \o <<x>>
      PROVE  Late = <<x>>
  BY <1>1, <1>4, LateIs DEF Late
<1>5. ASSUME Client!Ready
      PROVE  P
  <2>1. sent' = sent \/ sent' = sent \o <<"hello">>
    BY <1>5 DEF Client!Ready, Client!Start, Client!Write
  <2> QED
    BY <1>2, <1>4, <2>1 DEF Client!Outgoing
<1>6. ASSUME Client!StatusAccepted
      PROVE  P
  <2>1. sent' = sent \o <<>> \/ sent' = sent \o <<"syncRequest">>
    BY <1>6 DEF Client!StatusAccepted, Client!Write
  <2> QED
    BY <1>3, <1>4, <1>6, <2>1 DEF Client!Outgoing
<1>7. ASSUME NEW m \in Client!Messages, Client!OnParserMessage(m)
      PROVE  P
  <2>1. \/ sent' = sent \o <<>>
        \/ \E x \in Client!Outgoing : x # "syncRequest" /\ sent' = sent \o <<x>>
    BY <1>7 DEF Client!OnParserMessage, Client!Write, Client!Reply, Client!Outgoing
  <2> QED
    BY <1>3, <1>4, <2>1
<1>8. CASE Client!StatusIncomplete \/ Client!SocketError \/ Client!RemoteEnd
           \/ Client!ParserError \/ Client!SocketClose
  BY <1>2, <1>8 DEF Client!StatusIncomplete, Client!SocketError, Client!RemoteEnd,
    Client!ParserError, Client!SocketClose
<1> QED
  BY <1>5, <1>6, <1>7, <1>8 DEF Handles

-----------------------------------------------------------------------------
(* What is told. *)

\* What an entry says.
SaidFact(m) == [name |-> m.name, key |-> m.key, values |-> m.values]

\* What a connection has been told.
ToldBy(said) == {SaidFact(said[i]) : i \in {j \in DOMAIN said : said[j].kind = "entry"}}

\* The client's connection is being taught.
Going == teaching # None /\ teaching.conn = conn

\* What the store shows of some keys of a table.
FactsOf(n, keys) == {Shown(n, k) : k \in keys}

\* What is left of the lesson.
ToTell ==
  FactsOf(teaching.name, teaching.keys)
    \cup UNION {FactsOf(n, DOMAIN entries[n]) : n \in teaching.tables}

\* A message adds what it says.
LEMMA ToldAppended ==
  ASSUME NEW said, SvP!IsSequence(said), NEW m
  PROVE  ToldBy(Append(said, m)) =
           IF m.kind = "entry" THEN ToldBy(said) \cup {SaidFact(m)} ELSE ToldBy(said)
<1> DEFINE new == Append(said, m)
           E(s) == {j \in DOMAIN s : s[j].kind = "entry"}
<1>1. /\ Len(said) \in Nat /\ DOMAIN said = 1..Len(said)
      /\ DOMAIN new = 1..(Len(said) + 1)
      /\ \A i \in 1..Len(said) : new[i] = said[i]
      /\ new[Len(said) + 1] = m
  BY SvP!Appended, SameServerAssumptions DEF SvP!ServerAssumption, SvP!StoreAssumption
<1> HIDE DEF new
<1>2. \A i \in E(said) : i \in E(new) /\ new[i] = said[i]
  BY <1>1
<1>3. \A i \in E(new) : i \in E(said) \/ (i = Len(said) + 1 /\ m.kind = "entry")
  BY <1>1
<1>4. m.kind = "entry" => Len(said) + 1 \in E(new)
  BY <1>1
<1> HIDE DEF E
<1>5. /\ ToldBy(new) = {SaidFact(new[i]) : i \in E(new)}
      /\ ToldBy(said) = {SaidFact(said[i]) : i \in E(said)}
  BY Zenon DEF ToldBy, E
<1>6. ToldBy(new) = IF m.kind = "entry" THEN ToldBy(said) \cup {SaidFact(m)} ELSE ToldBy(said)
  <2> HIDE DEF SaidFact
  <2>1. ToldBy(said) \subseteq ToldBy(new)
    BY <1>2, <1>5
  <2>2. ToldBy(new) \subseteq ToldBy(said) \cup {SaidFact(m)}
    BY <1>1, <1>2, <1>3, <1>5
  <2>3. m.kind = "entry" => SaidFact(m) \in ToldBy(new)
    BY <1>1, <1>4, <1>5
  <2>4. m.kind # "entry" => ToldBy(new) \subseteq ToldBy(said)
    BY <1>2, <1>3, <1>5
  <2> QED
    BY <2>1, <2>2, <2>3, <2>4
<1> QED
  BY <1>6 DEF new

\* The callbacks of a lesson: a table is opened,
LEMMA TellsTable ==
  ASSUME ServerInv, NEW c \in Sockets, SvP!TeachTable(c)
  PROVE  \E n, m :
           /\ n \in teaching.tables
           /\ SvP!Write(c, m) /\ m.kind = "definition"
           /\ teaching.conn = c /\ teaching.keys = {}
           /\ teaching' = [conn |-> c, name |-> n, keys |-> DOMAIN entries[n],
                           tables |-> teaching.tables \ {n}]
<1>1. PICK n \in teaching.tables :
        /\ SvP!TellDefinition(c, n)
        /\ teaching' = [conn |-> c, name |-> n, keys |-> DOMAIN entries[n],
                        tables |-> teaching.tables \ {n}]
  BY DEF SvP!TeachTable
<1>2. teaching.conn = c /\ teaching.keys = {}
  BY DEF SvP!TeachTable, SvP!InLesson
<1>3. SvP!Write(c, SvP!Definition(definitions[n]))
  BY <1>1 DEF SvP!TellDefinition
<1>4. SvP!Definition(definitions[n]).kind = "definition"
  BY DEF SvP!Definition
<1> QED
  BY <1>1, <1>2, <1>3, <1>4

\* an entry is told as the store shows it,
LEMMA TellsEntry ==
  ASSUME ServerInv, NEW c \in Sockets, SvP!TeachEntry(c)
  PROVE  \E k, m :
           /\ k \in teaching.keys
           /\ SvP!Write(c, m) /\ m.kind = "entry" /\ Fine(m)
           /\ teaching.conn = c
           /\ SaidFact(m) = Shown(teaching.name, k)
           /\ teaching' = [teaching EXCEPT !.keys = @ \ {k}]
<1> USE SameServerAssumptions DEF SvP!ServerAssumption, SvP!StoreAssumption
<1>1. PICK k \in teaching.keys :
        /\ SvP!Write(c, SvP!InCode(known[c], SvP!Encoded(teaching.name, k)))
        /\ teaching' = [teaching EXCEPT !.keys = @ \ {k}]
  BY DEF SvP!TeachEntry
<1>2. /\ teaching.conn = c /\ teaching.name \in DOMAIN definitions
      /\ k \in DOMAIN entries[teaching.name]
  <2>1. SvP!InLesson(c)
    BY DEF SvP!TeachEntry
  <2> QED
    BY <1>1, <2>1, SvP!InLessonIs DEF ServerInv, Ends
<1>3. known[c] \in Seq(Words)
  BY DEF ServerInv, SvP!Types
<1> DEFINE e == SvP!Encoded(teaching.name, k)
           m == SvP!InCode(known[c], e)
<1>4. m.kind = "entry" /\ m.name = teaching.name /\ m.key = k /\ m.values = e.values
  BY <1>2, <1>3, SvP!EntryInCode DEF ServerInv
<1>5. e.values = [t \in DOMAIN e.values |-> e.values[t]]
  BY DEF SvP!Encoded, SvP!Entry
<1>6. Fine(m)
  <2> HIDE DEF m, e
  <2> QED
    BY <1>4, <1>5 DEF Fine, Kinds
<1>7. SaidFact(m) = Shown(teaching.name, k)
  <2>1. e = Server!Encoded(teaching.name, k)
    BY SameMessages
  <2> HIDE DEF m, e
  <2> QED
    BY <1>4, <2>1 DEF SaidFact, Shown
<1> QED
  BY <1>1, <1>2, <1>4, <1>6, <1>7

\* and the end is told when nothing is left.
LEMMA TellsEnd ==
  ASSUME NEW c \in Sockets, SvP!TeachEnd(c)
  PROVE  \E m : /\ SvP!Write(c, m) /\ m.kind = "syncPartial"
                /\ teaching.conn = c /\ teaching.keys = {} /\ teaching.tables = {}
                /\ teaching' = None
<1>1. /\ SvP!Write(c, SvP!Control("syncPartial"))
      /\ teaching.conn = c /\ teaching.keys = {} /\ teaching.tables = {}
      /\ teaching' = None
  BY DEF SvP!TeachEnd, SvP!TellEnd, SvP!InLesson
<1>2. SvP!Control("syncPartial").kind = "syncPartial"
  BY DEF SvP!Control
<1> QED
  BY <1>1, <1>2

\* The server handles the request of a connection.
Asks(c) ==
  /\ SvP!Teach(c)
  /\ inbox[c] # <<>> /\ Head(inbox[c]) = "syncRequest"
  /\ inbox' = [inbox EXCEPT ![c] = Tail(@)]
  /\ lesson' = IF c = conn THEN {Contents} ELSE lesson
  /\ UNCHANGED <<clientVars, conn, read>>

\* A step without a part in the conversation.
Untold == UNCHANGED <<written, teaching, store, definitions, entries, conn, lesson>>

\* A step has none, changes the store, starts anew, tells or is asked.
LEMMA Conversation ==
  ASSUME [Next]_vars
  PROVE  \/ Untold
         \/ Feed \/ Reconnect
         \/ \E c \in Sockets :
              /\ UNCHANGED <<conn, lesson, clientVars, read>>
              /\ SvP!HelloAccepted(c) \/ SvP!Teaches(c)
         \/ \E c \in Sockets : Asks(c)
<1>1. CASE \/ Connect \/ ReadStatus \/ ReadPartOfStatus \/ Read \/ ReadEnd
           \/ ClientSocketError \/ ClientListenerThrows \/ ClientSocketClose
           \/ Exited \/ UNCHANGED vars
  <2>1. UNCHANGED <<serverVars, conn, lesson>>
    BY <1>1 DEF Connect, ReadStatus, ReadPartOfStatus, Read, ReadEnd, ClientSocketError,
      ClientListenerThrows, ClientSocketClose, Exited, ClientStep, vars
  <2> QED
    BY <2>1 DEF Untold, serverVars
<1>2. ASSUME NEW c \in Sockets,
             \/ SvP!Accept(c) \/ SvP!AckReceived(c)
             \/ SvP!Established(c) \/ SvP!ParserError(c) \/ SvP!HeartbeatAfterEnd(c)
             \/ SvP!RemoteEnd(c) \/ SvP!SocketError(c) \/ SvP!SocketClose(c)
             \/ SvP!Listen
      PROVE  UNCHANGED <<written, teaching, store, definitions, entries>>
  BY <1>2 DEF SvP!Accept, SvP!AckReceived, SvP!Established, SvP!ParserError,
    SvP!HeartbeatAfterEnd, SvP!RemoteEnd, SvP!SocketError, SvP!SocketClose, SvP!Listen,
    SvP!storeVars
<1>3. CASE Listen
  <2>1. PICK c \in Sockets : TRUE
    BY SessionAssumption
  <2> QED
    BY <1>2, <1>3, <2>1, SameCallbacks DEF Listen, ServerStep, Untold
<1>4. ASSUME NEW c \in Sockets,
             Accept(c) \/ ServerReadsEnd(c) \/ ServerSocketError(c) \/ ServerSocketClose(c)
      PROVE  Untold
  BY <1>2, <1>4, SameCallbacks DEF Accept, ServerReadsEnd, ServerSocketError,
    ServerSocketClose, ServerStep, Untold
<1>5. ASSUME NEW c \in Sockets, Refuse(c)
      PROVE  Untold
  BY <1>5 DEF Refuse, ServerStep, Untold
<1>6. ASSUME NEW c \in Sockets, ServerCallback(c)
      PROVE  \/ Untold
             \/ UNCHANGED <<conn, lesson, clientVars, read>> /\ SvP!Teaches(c)
  BY <1>2, <1>6, SameCallbacks, SameLessons DEF ServerCallback, ServerStep, Untold,
    Server!Teaches, SvP!Teaches
<1>7. ASSUME NEW c \in Sockets, ServerReads(c)
      PROVE  \/ Untold \/ Asks(c)
             \/ UNCHANGED <<conn, lesson, clientVars, read>> /\ SvP!HelloAccepted(c)
  <2> DEFINE m == Head(inbox[c])
  <2>1. Handle(c, m) /\ UNCHANGED <<clientVars, conn, read>>
    BY <1>7 DEF ServerReads, ServerStep
  <2>2. CASE m = "hello"
    BY <1>7, <2>1, <2>2, SameCallbacks DEF Handle, ServerReads
  <2>3. CASE m = "syncRequest"
    BY <1>7, <2>1, <2>3, SameLessons DEF Handle, ServerReads, Asks
  <2>4. CASE m = "ack"
    BY <1>2, <1>7, <2>1, <2>4, SameCallbacks DEF Handle, ServerReads, Untold
  <2>5. CASE m \notin {"hello", "syncRequest", "ack"}
    BY <1>7, <2>1, <2>5 DEF Handle, ServerReads, Untold, serverVars
  <2> QED
    BY <2>2, <2>3, <2>4, <2>5
<1> QED
  BY <1>1, <1>3, <1>4, <1>5, <1>6, <1>7 DEF Next

\* What is said, and where: the status first, and all else in a lesson.
LEMMA Speaks ==
  ASSUME ServerInv, [Next]_vars
  PROVE  \/ Reconnect
         \/ UNCHANGED <<written, conn>>
         \/ \E c \in Sockets : \E m :
              /\ SvP!Write(c, m) /\ Fine(m) /\ UNCHANGED conn
              /\ \/ m.kind = "status" /\ written[c] = <<>> /\ ~SvP!InLesson(c)
                 \/ SvP!InLesson(c)
<1>1. ASSUME NEW c \in Sockets, SvP!HelloAccepted(c)
      PROVE  \E m : /\ SvP!Write(c, m) /\ Fine(m)
                    /\ m.kind = "status" /\ written[c] = <<>> /\ ~SvP!InLesson(c)
  <2>1. SvP!Write(c, SvP!Status(SvP!Success)) /\ phase[c] = "hello" /\ teaching = None
    BY <1>1 DEF SvP!HelloAccepted, SvP!Quiet
  <2>2. SvP!Status(SvP!Success).kind = "status"
    BY DEF SvP!Status
  <2>3. written[c] = <<>>
    BY <2>1 DEF ServerInv, SvP!Greeted, Ends
  <2> QED
    BY <2>1, <2>2, <2>3 DEF Fine, Kinds, SvP!InLesson
<1>2. ASSUME NEW c \in Sockets, SvP!Teaches(c)
      PROVE  \/ UNCHANGED written
             \/ \E m : SvP!Write(c, m) /\ Fine(m) /\ SvP!InLesson(c)
  <2>1. SvP!InLesson(c)
    BY <1>2 DEF SvP!Teaches, SvP!TeachTable, SvP!TeachEntry, SvP!TeachThrows, SvP!TeachEnd
  <2>2. CASE SvP!TeachTable(c)
    BY <2>1, <2>2, TellsTable DEF Fine, Kinds
  <2>3. CASE SvP!TeachEntry(c)
    BY <2>1, <2>3, TellsEntry
  <2>4. CASE SvP!TeachThrows(c)
    BY <2>4 DEF SvP!TeachThrows, SvP!BrokenOff
  <2>5. CASE SvP!TeachEnd(c)
    BY <2>1, <2>5, TellsEnd DEF Fine, Kinds
  <2> QED
    BY <1>2, <2>2, <2>3, <2>4, <2>5 DEF SvP!Teaches
<1>3. ASSUME NEW c \in Sockets, Asks(c)
      PROVE  UNCHANGED <<written, conn>>
  BY <1>3 DEF Asks, SvP!Teach
<1>4. CASE Feed \/ Untold
  BY <1>4 DEF Feed, Untold, ServerStep
<1> QED
  BY <1>1, <1>2, <1>3, <1>4, Conversation

-----------------------------------------------------------------------------
(* Between the ends. *)

\* Of the network: what is read was written, and the first that is read makes the session.
Delivery ==
  /\ conn \in Sockets
  /\ inbox \in [Sockets -> Seq(Client!Outgoing)]
  /\ read \in 0..Len(written[conn])
  /\ read = 0 <=> state # "ESTABLISHED"

\* A request that the server has not handled.
Requested(i) == i \in DOMAIN inbox[conn] /\ inbox[conn][i] = "syncRequest"

\* A session asks once, and no lesson is there before the request is handled.
AskedOnce ==
  /\ \A i, j \in DOMAIN inbox[conn] : Requested(i) /\ Requested(j) => i = j
  /\ \A i \in DOMAIN inbox[conn] : Requested(i) => state = "ESTABLISHED" /\ lesson = {}
  /\ lesson # {} => state = "ESTABLISHED"

\* Writing appends, on one connection.
LEMMA Grows ==
  ASSUME ServerInv, NEW c \in Sockets, NEW m, SvP!Write(c, m)
  PROVE  /\ SvP!IsSequence(written[c]) /\ written'[c] = Append(written[c], m)
         /\ \A o \in Ends \ {c} : written'[o] = written[o]
         /\ Len(written[c]) \in Nat /\ DOMAIN written[c] = 1..Len(written[c])
         /\ Len(written'[c]) = Len(written[c]) + 1
         /\ DOMAIN written'[c] = 1..(Len(written[c]) + 1)
         /\ \A i \in 1..Len(written[c]) : written'[c][i] = written[c][i]
         /\ written'[c][Len(written[c]) + 1] = m
<1>1. SvP!IsSequence(written[c]) /\ DOMAIN written = Ends /\ c \in Ends
  BY DEF ServerInv, SvP!Types, Ends
<1>2. /\ written'[c] = Append(written[c], m)
      /\ \A o \in Ends \ {c} : written'[o] = written[o]
  BY <1>1 DEF SvP!Write
<1> QED
  BY <1>1, <1>2, SvP!Appended, SameServerAssumptions
  DEF SvP!ServerAssumption, SvP!StoreAssumption

\* What was written has a length.
LEMMA Lengths ==
  ASSUME ServerInv, NEW c \in Sockets
  PROVE  Len(written[c]) \in Nat /\ DOMAIN written[c] = 1..Len(written[c])
BY DEF ServerInv, SvP!Types, SvP!IsSequence, Ends

\* A new connection starts with nothing written, read or taught.
LEMMA NewConnection ==
  ASSUME ServerInv, Reconnect
  PROVE  /\ conn' \in Sockets /\ conn' \in Unused
         /\ written'[conn'] = <<>> /\ inbox'[conn'] = <<>> /\ read' = 0 /\ lesson' = {}
         /\ Len(written'[conn']) = 0 /\ DOMAIN written'[conn'] = {}
         /\ DOMAIN inbox'[conn'] = {}
         /\ \A c \in Ends : written'[c] = written[c] \/ written'[c] = <<>>
         /\ \A c \in Sockets : inbox'[c] = inbox[c] \/ inbox'[c] = <<>>
         /\ inbox' = [c \in Sockets |-> IF c \in Unused THEN <<>> ELSE inbox[c]]
         /\ state' = "NOT_STARTED"
         /\ UNCHANGED <<teaching, store, definitions, entries>>
<1>1. conn' \in Unused
  BY ServerInvReconnect
<1>2. conn' \in Sockets
  BY <1>1 DEF Unused
<1>3. /\ inbox' = [c \in Sockets |-> IF c \in Unused THEN <<>> ELSE inbox[c]]
      /\ written' = [c \in DOMAIN written |-> IF c \in Unused THEN <<>> ELSE written[c]]
      /\ read' = 0 /\ lesson' = {} /\ state' = "NOT_STARTED"
      /\ UNCHANGED <<teaching, store, definitions, entries>>
  BY DEF Reconnect, Client!Reconnect, Client!StateOnReconnect
<1>4. DOMAIN written = Ends /\ conn' \in Ends
  BY <1>2 DEF ServerInv, SvP!Types, Ends
<1>5. Len(<<>>) = 0 /\ DOMAIN <<>> = {}
  OBVIOUS
<1> QED
  BY <1>1, <1>2, <1>3, <1>4, <1>5

\* The server goes on speaking so.
LEMMA FineStep ==
  ASSUME ServerInv, AllFine, [Next]_vars
  PROVE  AllFine'
<1>1. CASE Reconnect
  <2>1. \A c \in Sockets : written'[c] = written[c] \/ written'[c] = <<>>
    BY <1>1, NewConnection DEF Ends
  <2> QED
    BY <2>1 DEF AllFine
<1>2. CASE UNCHANGED <<written, conn>>
  BY <1>2 DEF AllFine
<1>3. ASSUME NEW c \in Sockets, NEW m, SvP!Write(c, m), Fine(m)
      PROVE  AllFine'
  <2>1. \A i \in DOMAIN written'[c] : Fine(written'[c][i])
    BY <1>3, Grows DEF AllFine
  <2>2. \A o \in Sockets \ {c} : written'[o] = written[o]
    BY <1>3, Grows DEF Ends
  <2> QED
    BY <2>1, <2>2 DEF AllFine
<1> QED
  BY <1>1, <1>2, <1>3, Speaks

\* The client reads on, one message at a time, and the first is the status.
LEMMA Counts ==
  ASSUME CP!IInv, [Next]_vars
  PROVE  \/ Reconnect
         \/ /\ read = 0 /\ read' = 1 /\ written[conn] # <<>>
            /\ state # "ESTABLISHED" /\ state' = "ESTABLISHED"
         \/ /\ read > 0 /\ read' = read + 1 /\ read < Len(written[conn])
            /\ UNCHANGED state
         \/ /\ UNCHANGED read
            /\ state' = "ESTABLISHED" <=> state = "ESTABLISHED"
<1>1. CASE ReadStatus
  BY <1>1 DEF ReadStatus, Client!StatusAccepted, CP!IInv, CP!FieldsAgree
<1>2. CASE Read
  BY <1>2 DEF Read, Client!OnParserMessage
<1>3. CASE Connect
  BY <1>3 DEF Connect, Client!Ready, Client!Start
<1>4. CASE ReadPartOfStatus
  BY <1>4 DEF ReadPartOfStatus, Client!StatusIncomplete
<1>5. CASE ReadEnd
  BY <1>5 DEF ReadEnd, Client!RemoteEnd
<1>6. CASE ClientSocketError \/ ClientListenerThrows \/ ClientSocketClose
  BY <1>6 DEF ClientSocketError, ClientListenerThrows, ClientSocketClose,
    Client!SocketError, Client!ParserError, Client!SocketClose
<1>7. CASE Exited \/ UNCHANGED vars \/ Listen \/ Feed
  BY <1>7 DEF Exited, vars, clientVars, Listen, Feed, ServerStep
<1>8. ASSUME NEW c \in Sockets,
             \/ Accept(c) \/ Refuse(c) \/ ServerReads(c) \/ ServerReadsEnd(c)
             \/ ServerSocketError(c) \/ ServerCallback(c) \/ ServerSocketClose(c)
      PROVE  UNCHANGED <<read, state>>
  BY <1>8 DEF Accept, Refuse, ServerReads, ServerReadsEnd, ServerSocketError, ServerCallback,
    ServerSocketClose, ServerStep, clientVars
<1> QED
  BY <1>1, <1>2, <1>3, <1>4, <1>5, <1>6, <1>7, <1>8 DEF Next

\* What is on its way: a message is handled, all is dropped, or the client writes.
LEMMA Mail ==
  ASSUME ServerInv, AllFine, Delivery, CP!IInv, [Next]_vars
  PROVE  \/ Reconnect
         \/ UNCHANGED <<inbox, conn>>
         \/ \E c \in Sockets :
              /\ UNCHANGED conn
              /\ \/ inbox[c] # <<>> /\ inbox' = [inbox EXCEPT ![c] = Tail(@)]
                 \/ inbox' = [inbox EXCEPT ![c] = <<>>]
         \/ /\ Handles /\ UNCHANGED conn
            /\ inbox' = [inbox EXCEPT ![conn] = @ \o Late]
<1>1. conn \in Sockets /\ read \in Nat
  BY DEF Delivery
<1>2. CASE ClientStep /\ Handles
  BY <1>2 DEF ClientStep, Late
<1>3. CASE Exited \/ UNCHANGED vars \/ Listen \/ Feed
  BY <1>3 DEF Exited, vars, Listen, Feed, ServerStep
<1>4. CASE \/ Connect \/ ReadStatus \/ ReadPartOfStatus \/ Read \/ ReadEnd
           \/ ClientSocketError \/ ClientListenerThrows \/ ClientSocketClose
  <2>1. ClientStep
    BY <1>4 DEF Connect, ReadStatus, ReadPartOfStatus, Read, ReadEnd, ClientSocketError,
      ClientListenerThrows, ClientSocketClose
  <2>2. Read => Handles
    BY <1>1, ReadMessage DEF Read, Handles
  <2>3. Handles
    BY <1>4, <2>2 DEF Connect, ReadStatus, ReadPartOfStatus, ReadEnd, ClientSocketError,
      ClientListenerThrows, ClientSocketClose, Handles
  <2> QED
    BY <1>2, <2>1, <2>3
<1>5. ASSUME NEW c \in Sockets,
             \/ Accept(c) \/ Refuse(c) \/ ServerReadsEnd(c)
             \/ ServerSocketError(c) \/ ServerCallback(c)
      PROVE  UNCHANGED <<inbox, conn>>
  BY <1>5 DEF Accept, Refuse, ServerReadsEnd, ServerSocketError, ServerCallback, ServerStep
<1>6. ASSUME NEW c \in Sockets, ServerReads(c) \/ ServerSocketClose(c)
      PROVE  /\ UNCHANGED conn
             /\ \/ inbox[c] # <<>> /\ inbox' = [inbox EXCEPT ![c] = Tail(@)]
                \/ inbox' = [inbox EXCEPT ![c] = <<>>]
  BY <1>6 DEF ServerReads, ServerSocketClose, ServerStep
<1> QED
  BY <1>3, <1>4, <1>5, <1>6 DEF Next

\* The network stays as it is described.
LEMMA DeliveryStep ==
  ASSUME ServerInv, AllFine, Delivery, CP!IInv, [Next]_vars
  PROVE  Delivery'
<1>1. CASE Reconnect
  <2>1. inbox' \in [Sockets -> Seq(Client!Outgoing)]
    <3>1. <<>> \in Seq(Client!Outgoing)
      OBVIOUS
    <3> QED
      BY <1>1, <3>1, NewConnection DEF Delivery
  <2>2. conn' \in Sockets /\ read' \in 0..Len(written'[conn']) /\ read' = 0
        /\ state' # "ESTABLISHED"
    BY <1>1, NewConnection
  <2> QED
    BY <2>1, <2>2 DEF Delivery
<1>2. ASSUME ~Reconnect
      PROVE  Delivery'
  <2>1. conn' = conn
    BY <1>2, Speaks
  <2>2. Len(written[conn]) \in Nat /\ Len(written'[conn]) \in Nat
        /\ Len(written'[conn]) >= Len(written[conn])
    <3>1. ASSUME NEW c \in Sockets, NEW m, SvP!Write(c, m)
          PROVE  written'[conn] = written[conn] \/ Len(written'[conn]) = Len(written[conn]) + 1
      BY <3>1, Grows DEF Delivery, Ends
    <3>2. written'[conn] = written[conn] \/ Len(written'[conn]) = Len(written[conn]) + 1
      BY <1>2, <3>1, Speaks
    <3>3. Len(written[conn]) \in Nat
      BY Lengths DEF Delivery
    <3> QED
      BY <3>2, <3>3
  <2>3. inbox' \in [Sockets -> Seq(Client!Outgoing)]
    <3>1. <<>> \in Seq(Client!Outgoing)
      OBVIOUS
    <3>2. ASSUME NEW c \in Sockets, inbox[c] # <<>>
          PROVE  Tail(inbox[c]) \in Seq(Client!Outgoing)
      BY <3>2 DEF Delivery
    <3>3. Handles => inbox[conn] \o Late \in Seq(Client!Outgoing)
      <4>1. Handles => Late \in Seq(Client!Outgoing)
        <5>1. \A x \in Client!Outgoing : <<x>> \in Seq(Client!Outgoing)
          OBVIOUS
        <5> QED
          BY <3>1, <5>1, ClientWrites
      <4>2. inbox[conn] \in Seq(Client!Outgoing)
        BY DEF Delivery
      <4> QED
        BY <4>1, <4>2
    <3> QED
      BY <1>2, <3>1, <3>2, <3>3, Mail DEF Delivery
  <2>4. read' \in 0..Len(written'[conn]) /\ (read' = 0 <=> state' # "ESTABLISHED")
    <3>1. written[conn] # <<>> => Len(written[conn]) > 0
      <4>1. SvP!IsSequence(written[conn])
        BY DEF ServerInv, SvP!Types, Delivery, Ends
      <4> QED
        BY <4>1 DEF SvP!IsSequence
    <3> QED
      BY <1>2, <2>2, <3>1, Counts DEF Delivery
  <2> QED
    BY <2>1, <2>3, <2>4 DEF Delivery
<1> QED
  BY <1>1, <1>2

\* The lesson is that of the connection until the next, and is fixed by the request.
LEMMA LessonKept ==
  ASSUME [Next]_vars
  PROVE  \/ Reconnect
         \/ UNCHANGED <<conn, lesson>>
         \/ Asks(conn) /\ UNCHANGED conn
BY Conversation DEF Untold, Feed, ServerStep, Asks

\* The first of a sequence, and the others.
LEMMA TailOnce ==
  ASSUME NEW S, NEW s \in Seq(S), s # <<>>
  PROVE  /\ 1 \in DOMAIN s /\ s[1] = Head(s)
         /\ \A i \in DOMAIN Tail(s) : i + 1 \in DOMAIN s /\ Tail(s)[i] = s[i + 1]
         /\ \A i \in DOMAIN Tail(s) : i \in Nat /\ i + 1 # 1
OBVIOUS

\* The request finds the session without a lesson.
LEMMA AskedUntaught ==
  ASSUME Delivery, AskedOnce, Asks(conn)
  PROVE  lesson = {} /\ lesson' = {Contents} /\ conn' = conn
<1>1. inbox[conn] \in Seq(Client!Outgoing) /\ inbox[conn] # <<>>
      /\ Head(inbox[conn]) = "syncRequest"
  BY DEF Asks, Delivery
<1>2. Requested(1)
  BY <1>1, TailOnce DEF Requested
<1>3. lesson = {}
  BY <1>2 DEF AskedOnce, Requested
<1> QED
  BY <1>3 DEF Asks

\* Asking once is kept: the request is written with the status, which comes once.
LEMMA AskedOnceStep ==
  ASSUME ServerInv, AllFine, Delivery, CP!IInv, AskedOnce, [Next]_vars
  PROVE  AskedOnce'
<1>1. CASE Reconnect
  BY <1>1, NewConnection DEF AskedOnce, Requested
<1>2. ASSUME ~Reconnect
      PROVE  AskedOnce'
  <2>1. conn' = conn /\ conn \in Sockets /\ inbox[conn] \in Seq(Client!Outgoing)
    BY <1>2, LessonKept DEF Delivery
  <2>2. state = "ESTABLISHED" => state' = "ESTABLISHED"
    BY <1>2, Counts
  <2> DEFINE R(s, i) == i \in DOMAIN s /\ s[i] = "syncRequest"
             box == inbox[conn]
             new == inbox'[conn]
  <2>3. \A i \in DOMAIN box, j \in DOMAIN box : R(box, i) /\ R(box, j) => i = j
    BY DEF AskedOnce, Requested
  <2>4. \A i \in DOMAIN box : R(box, i) => state = "ESTABLISHED" /\ lesson = {}
    BY DEF AskedOnce, Requested
  <2>5. SUFFICES /\ \A i \in DOMAIN new, j \in DOMAIN new : R(new, i) /\ R(new, j) => i = j
                 /\ \A i \in DOMAIN new : R(new, i) => state' = "ESTABLISHED" /\ lesson' = {}
                 /\ lesson' # {} => state' = "ESTABLISHED"
    BY <2>1 DEF AskedOnce, Requested
  <2>6. CASE Asks(conn)
    <3>1. box # <<>> /\ Head(box) = "syncRequest" /\ new = Tail(box) /\ state' = state
      BY <2>1, <2>6 DEF Asks, Delivery, clientVars
    <3>2. R(box, 1) /\ state = "ESTABLISHED"
      BY <2>1, <2>4, <3>1, TailOnce
    <3>3. \A i \in DOMAIN new : ~R(new, i)
      BY <2>1, <2>3, <3>1, <3>2, TailOnce
    <3> QED
      BY <3>1, <3>2, <3>3
  <2>7. CASE lesson' = lesson
    <3>1. lesson' # {} => state' = "ESTABLISHED"
      BY <2>2, <2>7 DEF AskedOnce
    <3>2. CASE new = box
      BY <2>2, <2>3, <2>4, <2>7, <3>1, <3>2
    <3>3. CASE new = <<>>
      BY <3>1, <3>3
    <3>4. CASE box # <<>> /\ new = Tail(box)
      <4>1. \A i \in DOMAIN new : R(new, i) => R(box, i + 1) /\ i \in Nat
        BY <2>1, <3>4, TailOnce
      <4>2. ASSUME NEW i \in DOMAIN new, NEW j \in DOMAIN new, R(new, i), R(new, j)
            PROVE  i = j
        <5>1. i + 1 = j + 1 /\ i \in Nat /\ j \in Nat
          BY <2>3, <4>1, <4>2
        <5> QED
          BY <5>1
      <4>3. \A i \in DOMAIN new : R(new, i) => state' = "ESTABLISHED" /\ lesson' = {}
        BY <2>2, <2>4, <2>7, <4>1
      <4> QED
        BY <3>1, <4>2, <4>3
    <3>5. CASE Handles /\ new = box \o Late
      <4>1. CASE Late = <<>>
        <5>1. new = box
          BY <2>1, <3>5, <4>1
        <5> QED
          BY <3>2, <5>1
      <4>2. ASSUME NEW x \in Client!Outgoing, Late = <<x>>,
                   x = "syncRequest" => Client!StatusAccepted
            PROVE  /\ \A i \in DOMAIN new, j \in DOMAIN new : R(new, i) /\ R(new, j) => i = j
                   /\ \A i \in DOMAIN new : R(new, i) => state' = "ESTABLISHED" /\ lesson' = {}
        <5>1. /\ DOMAIN box = 1..Len(box) /\ Len(box) \in Nat
              /\ DOMAIN new = 1..(Len(box) + 1)
              /\ \A i \in 1..Len(box) : new[i] = box[i]
              /\ new[Len(box) + 1] = x
          BY <2>1, <3>5, <4>2
        <5>2. \A i \in DOMAIN new :
                R(new, i) => R(box, i) \/ (i = Len(box) + 1 /\ x = "syncRequest")
          BY <5>1
        <5>3. CASE x = "syncRequest"
          <6>1. state # "ESTABLISHED" /\ state' = "ESTABLISHED"
            BY <4>2, <5>3 DEF Client!StatusAccepted, CP!IInv, CP!FieldsAgree
          <6>2. lesson = {} /\ \A i \in DOMAIN box : ~R(box, i)
            BY <2>4, <6>1 DEF AskedOnce
          <6>3. \A i \in DOMAIN new : R(new, i) => i = Len(box) + 1
            BY <5>2, <6>2
          <6> QED
            BY <2>7, <6>1, <6>2, <6>3
        <5>4. CASE x # "syncRequest"
          <6>1. \A i \in DOMAIN new : R(new, i) => R(box, i)
            BY <5>2, <5>4
          <6> QED
            BY <2>2, <2>3, <2>4, <2>7, <6>1
        <5> QED
          BY <5>3, <5>4
      <4> QED
        BY <3>1, <3>5, <4>1, <4>2, ClientWrites
    <3>6. \/ new = box \/ new = <<>> \/ (box # <<>> /\ new = Tail(box))
          \/ (Handles /\ new = box \o Late)
      BY <1>2, <2>1, Mail DEF Delivery
    <3> HIDE DEF box, new
    <3> QED
      BY <3>2, <3>3, <3>4, <3>5, <3>6
  <2> QED
    BY <1>2, <2>6, <2>7, LessonKept
<1> QED
  BY <1>1, <1>2

-----------------------------------------------------------------------------
(* The lesson. *)

\* The end of a lesson.
Partial(i) == i \in DOMAIN written[conn] /\ written[conn][i].kind = "syncPartial"

\* What is told is of the lesson; while it goes on, what was told and what is left are
\* all of it; when its end is told, nothing is left, and nothing more is said.
TaughtWell ==
  /\ ToldBy(written[conn]) \subseteq UNION lesson
  /\ Going => lesson # {} /\ UNION lesson = ToldBy(written[conn]) \cup ToTell
  /\ \A i \in DOMAIN written[conn] : Partial(i) =>
       /\ i = Len(written[conn]) /\ lesson # {} /\ ~Going
       /\ UNION lesson = ToldBy(written[conn])
  /\ ~store => DOMAIN definitions = {}

\* Without an entry, nothing is told.
LEMMA NothingTold ==
  /\ ToldBy(<<>>) = {}
  /\ \A said : (\A i \in DOMAIN said : said[i].kind # "entry") => ToldBy(said) = {}
<1>1. \A said : (\A i \in DOMAIN said : said[i].kind # "entry") => ToldBy(said) = {}
  BY DEF ToldBy
<1>2. DOMAIN <<>> = {}
  OBVIOUS
<1> QED
  BY <1>1, <1>2

\* Contents and ToTell, an element at a time.
InContents(f) == \E n \in DOMAIN definitions : \E k \in DOMAIN entries[n] : f = Shown(n, k)

LeftToTell(f) ==
  \/ \E k \in teaching.keys : f = Shown(teaching.name, k)
  \/ \E n \in teaching.tables : \E k \in DOMAIN entries[n] : f = Shown(n, k)

\* They are those sets.
LEMMA FactsAre ==
  /\ \A f : f \in Contents <=> InContents(f)
  /\ \A f : f \in ToTell <=> LeftToTell(f)
  /\ \A f : (f \in ToTell)' <=> LeftToTell(f)'
<1>1. \A f : f \in Contents <=> InContents(f)
  BY DEF Contents, InContents
<1>2. \A f : f \in ToTell <=> LeftToTell(f)
  BY DEF ToTell, FactsOf, LeftToTell
<1>3. \A f : (f \in ToTell)' <=> LeftToTell(f)'
  BY DEF ToTell, FactsOf, LeftToTell
<1> QED
  BY <1>1, <1>2, <1>3

\* What the store shows changes only with the store.
LEMMA ShownKept ==
  ASSUME UNCHANGED <<definitions, entries>>
  PROVE  \A n, k : Shown(n, k)' = Shown(n, k)
BY DEF Shown, Server!Encoded, Server!Entry

\* A step that leaves the client's connection and its lesson alone.
LEMMA LessonOfOther ==
  ASSUME TaughtWell, UNCHANGED <<conn, lesson, store>>, written'[conn] = written[conn],
         Going' => Going /\ UNCHANGED <<teaching, definitions, entries>>,
         store \/ UNCHANGED definitions
  PROVE  TaughtWell'
<1>1. ToldBy(written[conn])' = ToldBy(written[conn]) /\ \A i : Partial(i)' <=> Partial(i)
  BY DEF ToldBy, SaidFact, Partial
<1>2. Going' => ToTell' = ToTell
  <2> SUFFICES ASSUME Going' PROVE ToTell' = ToTell
    OBVIOUS
  <2>1. UNCHANGED <<teaching, definitions, entries>>
    OBVIOUS
  <2> QED
    BY <2>1, ShownKept DEF ToTell, FactsOf
<1> QED
  BY <1>1, <1>2 DEF TaughtWell

\* The request is handled: all that the store holds is left to tell.
LEMMA TaughtAsked ==
  ASSUME ServerInv, Delivery, AskedOnce, TaughtWell, Asks(conn)
  PROVE  TaughtWell'
<1>1. lesson = {} /\ lesson' = {Contents} /\ conn' = conn
  BY AskedUntaught
<1>2. /\ UNCHANGED <<written, store, definitions, entries>>
      /\ teaching' = [conn |-> conn, name |-> None, keys |-> {},
                      tables |-> IF store THEN DOMAIN definitions ELSE {}]
  BY DEF Asks, SvP!Teach, SvP!storeVars
<1>3. ToldBy(written[conn]) = {} /\ \A i \in DOMAIN written[conn] : ~Partial(i)
  BY <1>1 DEF TaughtWell
<1>4. ToTell' = Contents
  <2>1. teaching'.tables = DOMAIN definitions /\ teaching'.keys = {}
    BY <1>2 DEF TaughtWell
  <2>2. \A nm, k : Shown(nm, k)' = Shown(nm, k)
    BY <1>2, ShownKept
  <2>3. \A f : LeftToTell(f)' <=> InContents(f)
    BY <1>2, <2>1, <2>2 DEF LeftToTell, InContents
  <2>4. \A f : f \in ToTell' <=> f \in Contents
    BY <2>3, FactsAre
  <2> HIDE DEF Contents, ToTell
  <2>5. ToTell' \subseteq Contents /\ Contents \subseteq ToTell'
    BY <2>4
  <2> QED
    BY <2>5
<1>5. ToldBy(written[conn])' = {} /\ \A i \in DOMAIN written'[conn'] : ~Partial(i)'
  <2>1. written'[conn'] = written[conn]
    BY <1>1, <1>2
  <2> QED
    BY <1>3, <2>1 DEF ToldBy, SaidFact, Partial
<1>6. UNION lesson' = Contents /\ lesson' # {}
  BY <1>1
<1> QED
  BY <1>2, <1>4, <1>5, <1>6 DEF TaughtWell

\* A message of the lesson: what it adds.
LEMMA LessonGoesOn ==
  ASSUME ServerInv, Delivery, TaughtWell, NEW m, SvP!Write(conn, m), Going,
         UNCHANGED <<conn, lesson, store, definitions, entries>>
  PROVE  /\ ToldBy(written[conn])' = IF m.kind = "entry"
                                     THEN ToldBy(written[conn]) \cup {SaidFact(m)}
                                     ELSE ToldBy(written[conn])
         /\ \A i \in DOMAIN written'[conn] :
              Partial(i)' <=> i = Len(written'[conn]) /\ m.kind = "syncPartial"
         /\ \A n, k : Shown(n, k)' = Shown(n, k)
<1>1. conn \in Sockets
  BY DEF Delivery
<1>2. SvP!IsSequence(written[conn]) /\ written'[conn] = Append(written[conn], m)
  BY <1>1, Grows
<1>3. ToldBy(written[conn])' = ToldBy(Append(written[conn], m))
  BY <1>2 DEF ToldBy, SaidFact
<1>4. \A i \in DOMAIN written[conn] : ~Partial(i)
  BY DEF TaughtWell
<1>5. \A i \in DOMAIN written'[conn] :
        Partial(i)' <=> i = Len(written'[conn]) /\ m.kind = "syncPartial"
  <2>1. /\ Len(written[conn]) \in Nat /\ DOMAIN written[conn] = 1..Len(written[conn])
        /\ Len(written'[conn]) = Len(written[conn]) + 1
        /\ DOMAIN written'[conn] = 1..(Len(written[conn]) + 1)
        /\ \A i \in 1..Len(written[conn]) : written'[conn][i] = written[conn][i]
        /\ written'[conn][Len(written[conn]) + 1] = m
    BY <1>1, Grows
  <2>2. ASSUME NEW i \in DOMAIN written'[conn]
        PROVE  Partial(i)' <=> i = Len(written'[conn]) /\ m.kind = "syncPartial"
    <3>1. Partial(i)' <=> written'[conn][i].kind = "syncPartial"
      BY DEF Partial
    <3>2. CASE i \in DOMAIN written[conn]
      BY <1>4, <2>1, <3>1, <3>2 DEF Partial
    <3>3. CASE i = Len(written[conn]) + 1
      BY <2>1, <3>1, <3>3
    <3> QED
      BY <2>1, <3>2, <3>3
  <2> QED
    BY <2>2
<1> QED
  BY <1>2, <1>3, <1>5, ToldAppended, ShownKept

\* Opening a table leaves the same to tell,
LEMMA TaughtTable ==
  ASSUME ServerInv, Delivery, TaughtWell, SvP!TeachTable(conn),
         UNCHANGED <<conn, lesson, store, definitions, entries>>
  PROVE  TaughtWell'
<1>1. PICK n, m :
        /\ n \in teaching.tables
        /\ SvP!Write(conn, m) /\ m.kind = "definition"
        /\ teaching.conn = conn /\ teaching.keys = {}
        /\ teaching' = [conn |-> conn, name |-> n, keys |-> DOMAIN entries[n],
                        tables |-> teaching.tables \ {n}]
  BY TellsTable DEF Delivery
<1>2. Going
  BY <1>1 DEF SvP!TeachTable, SvP!InLesson, Going
<1>3. /\ ToldBy(written[conn])' = ToldBy(written[conn])
      /\ \A i \in DOMAIN written'[conn] : ~Partial(i)'
      /\ \A nm, k : Shown(nm, k)' = Shown(nm, k)
  BY <1>1, <1>2, LessonGoesOn
<1>4. ToTell' = ToTell
  <2>1. \A f : LeftToTell(f)' <=> LeftToTell(f)
    BY <1>1, <1>3 DEF LeftToTell
  <2>2. \A f : f \in ToTell' <=> f \in ToTell
    BY <2>1, FactsAre
  <2> HIDE DEF ToTell
  <2>3. ToTell' \subseteq ToTell /\ ToTell \subseteq ToTell'
    BY <2>2
  <2> QED
    BY <2>3
<1> QED
  BY <1>2, <1>3, <1>4 DEF TaughtWell

\* an entry goes from what is left to what is told,
LEMMA TaughtEntry ==
  ASSUME ServerInv, Delivery, TaughtWell, SvP!TeachEntry(conn),
         UNCHANGED <<conn, lesson, store, definitions, entries>>
  PROVE  TaughtWell'
<1>1. PICK k, m :
        /\ k \in teaching.keys
        /\ SvP!Write(conn, m) /\ m.kind = "entry" /\ Fine(m)
        /\ teaching.conn = conn
        /\ SaidFact(m) = Shown(teaching.name, k)
        /\ teaching' = [teaching EXCEPT !.keys = @ \ {k}]
  BY TellsEntry DEF Delivery
<1>2. Going
  BY <1>1 DEF SvP!TeachEntry, SvP!InLesson, Going
<1> DEFINE told == ToldBy(written[conn])
           fact == SaidFact(m)
<1>3. /\ ToldBy(written[conn])' = told \cup {fact}
      /\ \A i \in DOMAIN written'[conn] : ~Partial(i)'
      /\ \A nm, key : Shown(nm, key)' = Shown(nm, key)
  BY <1>1, <1>2, LessonGoesOn
<1>4. /\ teaching'.keys = teaching.keys \ {k} /\ teaching'.name = teaching.name
      /\ teaching'.tables = teaching.tables
  <2>1. teaching \in SvP!Lessons
    BY <1>2 DEF ServerInv, SvP!Types, Going
  <2> QED
    BY <1>1, <2>1 DEF SvP!Lessons
<1>5. \A f : LeftToTell(f) <=> LeftToTell(f)' \/ f = fact
  BY <1>1, <1>3, <1>4 DEF LeftToTell
<1>6. \A f : f \in ToTell <=> f \in ToTell' \/ f = fact
  BY <1>5, FactsAre
<1> HIDE DEF told, fact
<1>7. told \cup ToTell = (told \cup {fact}) \cup ToTell'
  <2> HIDE DEF ToTell
  <2>1. \A f : f \in told \cup ToTell <=> f \in (told \cup {fact}) \cup ToTell'
    BY <1>6
  <2> QED
    BY <2>1
<1>8. UNION lesson' = ToldBy(written[conn])' \cup ToTell' /\ lesson' # {}
  BY <1>2, <1>3, <1>7 DEF TaughtWell, told
<1>9. ToldBy(written[conn])' \subseteq UNION lesson'
  BY <1>8
<1> QED
  BY <1>3, <1>8, <1>9 DEF TaughtWell

\* the end comes when nothing is left,
LEMMA TaughtEnd ==
  ASSUME ServerInv, Delivery, TaughtWell, SvP!TeachEnd(conn),
         UNCHANGED <<conn, lesson, store, definitions, entries>>
  PROVE  TaughtWell'
<1>1. PICK m : /\ SvP!Write(conn, m) /\ m.kind = "syncPartial"
               /\ teaching.conn = conn /\ teaching.keys = {} /\ teaching.tables = {}
               /\ teaching' = None
  BY TellsEnd DEF Delivery
<1>2. Going
  BY <1>1 DEF SvP!TeachEnd, SvP!InLesson, Going
<1>3. /\ ToldBy(written[conn])' = ToldBy(written[conn])
      /\ \A i \in DOMAIN written'[conn] : Partial(i)' => i = Len(written'[conn])
  BY <1>1, <1>2, LessonGoesOn
<1>4. ToTell = {}
  <2>1. \A f : ~LeftToTell(f)
    BY <1>1 DEF LeftToTell
  <2>2. \A f : f \notin ToTell
    BY <2>1, FactsAre
  <2> QED
    BY <2>2
<1>5. UNION lesson' = ToldBy(written[conn])' /\ lesson' # {}
  BY <1>2, <1>3, <1>4 DEF TaughtWell
<1>6. ~Going'
  BY <1>1 DEF Going
<1> QED
  BY <1>3, <1>5, <1>6 DEF TaughtWell

\* and a lesson that breaks off goes on no more.
LEMMA TaughtNoMore ==
  ASSUME TaughtWell, SvP!TeachThrows(conn),
         UNCHANGED <<conn, lesson, store, definitions, entries>>
  PROVE  TaughtWell'
<1>1. written' = written /\ ~Going'
  BY DEF SvP!TeachThrows, SvP!BrokenOff, Going
<1> QED
  BY <1>1, LessonOfOther

\* So a lesson is taught well, whatever else happens meanwhile.
LEMMA TaughtWellStep ==
  ASSUME ServerInv, Delivery, AskedOnce, TaughtWell, [Next]_vars
  PROVE  TaughtWell'
<1>1. conn \in Sockets /\ conn \in Ends
  BY DEF Delivery, Ends
<1>2. CASE Untold
  BY <1>2, LessonOfOther DEF Untold, Going
<1>3. CASE Feed
  <2>1. teaching' = None /\ UNCHANGED <<conn, lesson, store, written>> /\ store
    BY <1>3, SameGuards DEF Feed, SvP!Quiet, ServerStep
  <2> QED
    BY <2>1, LessonOfOther DEF Going
<1>4. CASE Reconnect
  <2>1. /\ written'[conn'] = <<>> /\ DOMAIN written'[conn'] = {} /\ lesson' = {}
        /\ UNCHANGED <<teaching, store, definitions>>
        /\ conn' \in Unused
    BY <1>4, NewConnection
  <2>2. ~Going'
    BY <2>1, UnusedAre DEF Going
  <2>3. ToldBy(written[conn])' = {}
    BY <2>1 DEF ToldBy
  <2> QED
    BY <2>1, <2>2, <2>3 DEF TaughtWell
<1>5. ASSUME NEW c \in Sockets, c # conn, UNCHANGED <<conn, lesson>>,
             SvP!HelloAccepted(c) \/ SvP!Teaches(c)
      PROVE  TaughtWell'
  <2>1. ASSUME NEW m, SvP!Write(c, m)
        PROVE  written'[conn] = written[conn]
    BY <1>1, <1>5, <2>1, Grows
  <2>2. written'[conn] = written[conn]
    BY <1>5, <2>1, TellsTable, TellsEntry, TellsEnd DEF SvP!HelloAccepted, SvP!Teaches,
      SvP!TeachThrows, SvP!BrokenOff
  <2>3. UNCHANGED <<store, definitions, entries>>
    BY <1>5 DEF SvP!HelloAccepted, SvP!Teaches, SvP!TeachTable, SvP!TeachEntry,
      SvP!TeachThrows, SvP!TeachEnd, SvP!storeVars
  <2>4. ~Going'
    <3>1. CASE SvP!HelloAccepted(c)
      BY <3>1 DEF SvP!HelloAccepted, SvP!Quiet, Going
    <3>2. CASE SvP!TeachTable(c)
      <4>1. teaching'.conn = c
        BY <3>2, TellsTable
      <4> QED
        BY <1>5, <4>1 DEF Going
    <3>3. CASE SvP!TeachEntry(c)
      <4>1. teaching.conn = c /\ teaching \in SvP!Lessons
        BY <3>3 DEF SvP!TeachEntry, SvP!InLesson, ServerInv, SvP!Types
      <4>2. teaching'.conn = c
        BY <3>3, <4>1, TellsEntry DEF SvP!Lessons
      <4> QED
        BY <1>5, <4>2 DEF Going
    <3>4. CASE SvP!TeachThrows(c) \/ SvP!TeachEnd(c)
      BY <3>4 DEF SvP!TeachThrows, SvP!TeachEnd, Going
    <3> QED
      BY <1>5, <3>1, <3>2, <3>3, <3>4 DEF SvP!Teaches
  <2> QED
    BY <1>5, <2>2, <2>3, <2>4, LessonOfOther
<1>6. ASSUME UNCHANGED <<conn, lesson>>, SvP!HelloAccepted(conn)
      PROVE  TaughtWell'
  <2>1. /\ SvP!Write(conn, SvP!Status(SvP!Success)) /\ phase[conn] = "hello"
        /\ teaching = None /\ UNCHANGED <<teaching, store, definitions, entries>>
    BY <1>6 DEF SvP!HelloAccepted, SvP!Quiet, SvP!storeVars
  <2>2. written[conn] = <<>> /\ SvP!Status(SvP!Success).kind = "status"
    BY <1>1, <2>1 DEF ServerInv, SvP!Greeted, SvP!Status
  <2> DEFINE w == written'[conn]
  <2>3. w = <<SvP!Status(SvP!Success)>>
    BY <1>1, <2>1, <2>2, Grows
  <2>4. \A i \in DOMAIN w : w[i].kind = "status"
    BY <2>2, <2>3
  <2>5. ToldBy(written[conn])' = {} /\ \A i \in DOMAIN w : ~Partial(i)'
    BY <1>6, <2>4, NothingTold DEF Partial
  <2> QED
    BY <1>6, <2>1, <2>5 DEF TaughtWell, Going
<1>7. ASSUME UNCHANGED <<conn, lesson>>, SvP!Teaches(conn)
      PROVE  TaughtWell'
  <2>1. UNCHANGED <<store, definitions, entries>>
    BY <1>7 DEF SvP!Teaches, SvP!TeachTable, SvP!TeachEntry, SvP!TeachThrows, SvP!TeachEnd,
      SvP!storeVars
  <2> QED
    BY <1>7, <2>1, TaughtTable, TaughtEntry, TaughtEnd, TaughtNoMore DEF SvP!Teaches
<1>8. ASSUME NEW c \in Sockets, c # conn, Asks(c)
      PROVE  TaughtWell'
  <2>1. /\ UNCHANGED <<written, store, definitions, entries, conn, lesson>>
        /\ teaching'.conn = c
    BY <1>8 DEF Asks, SvP!Teach, SvP!storeVars
  <2> QED
    BY <1>8, <2>1, LessonOfOther DEF Going
<1> QED
  BY <1>2, <1>3, <1>4, <1>5, <1>6, <1>7, <1>8, TaughtAsked, Conversation

-----------------------------------------------------------------------------
(* The request. *)

\* Only the object itself starts the session, and so asks.
SelfStarted == starter # "manual"

\* It stays so.
LEMMA SelfStartedStep ==
  ASSUME ServerInv, AllFine, Delivery, SelfStarted, [Next]_vars
  PROVE  SelfStarted'
<1>1. conn \in Sockets /\ read \in Nat
  BY DEF Delivery
<1>2. CASE Handles
  BY <1>2 DEF SelfStarted, Handles, Client!Ready, Client!Start, Client!StatusAccepted,
    Client!StatusIncomplete, Client!OnParserMessage, Client!SocketError, Client!RemoteEnd,
    Client!ParserError, Client!SocketClose
<1>3. CASE Reconnect \/ UNCHANGED clientVars
  BY <1>3 DEF SelfStarted, Reconnect, Client!Reconnect, clientVars
<1> QED
  BY <1>1, <1>2, <1>3, ClientIs

\* The server's end of the session is there, and its parser works.
Serving == ~ServerGone(conn) /\ parser[conn] = "ok"

\* The answer is owed by somebody, or given.
InHand ==
  \/ \E i \in DOMAIN inbox[conn] : Requested(i)
  \/ Going
  \/ \E i \in DOMAIN written[conn] : Partial(i)

Owed == InSession /\ Serving => InHand

\* What the server's callbacks for a connection make of its phase and its parser.
LEMMA PhasesOn ==
  ASSUME NEW c \in Sockets,
         \/ Server!Accept(c) \/ Refuse(c) \/ Server!HelloAccepted(c)
         \/ Server!Established(c) \/ Server!ParserError(c) \/ Server!HeartbeatAfterEnd(c)
         \/ Server!RemoteEnd(c) \/ Server!SocketError(c) \/ Server!SocketClose(c)
         \/ Server!Teach(c) \/ Server!Teaches(c) \/ Server!AckReceived(c)
  PROVE  /\ \/ UNCHANGED phase
            \/ \E p : /\ phase' = [phase EXCEPT ![c] = p]
                      /\ ServerGone(c) => p \in {"destroyed", "closed"}
         /\ \/ UNCHANGED parser
            \/ \E f : parser' = [parser EXCEPT ![c] = f] /\ f # "ok"
<1>1. CASE Server!Accept(c) \/ Refuse(c) \/ Server!HelloAccepted(c) \/ Server!Established(c)
  BY <1>1 DEF Server!Accept, Refuse, Server!HelloAccepted, Server!Established, ServerGone
<1>2. CASE \/ Server!ParserError(c) \/ Server!HeartbeatAfterEnd(c) \/ Server!RemoteEnd(c)
           \/ Server!SocketError(c) \/ Server!SocketClose(c)
  BY <1>2 DEF Server!ParserError, Server!PhaseAfterError, Server!HeartbeatAfterEnd,
    Server!RemoteEnd, Server!SocketError, Server!SocketClose, ServerGone
<1>3. CASE Server!Teach(c) \/ Server!TeachTable(c) \/ Server!TeachEntry(c) \/ Server!TeachEnd(c)
  BY <1>3 DEF Server!Teach, Server!TeachTable, Server!TeachEntry, Server!TeachEnd
<1>4. CASE Server!TeachThrows(c) \/ Server!AckReceived(c)
  BY <1>4 DEF Server!TeachThrows, Server!AckReceived, Server!Failing
<1> QED
  BY <1>1, <1>2, <1>3, <1>4 DEF Server!Teaches

\* So an end that is gone or has failed stays so until the next connection.
LEMMA StillServing ==
  ASSUME ServerInv, conn \in Sockets, UNCHANGED conn, Serving', NEW c \in Sockets,
         \/ Server!Accept(c) \/ Refuse(c) \/ Server!HelloAccepted(c)
         \/ Server!Established(c) \/ Server!ParserError(c) \/ Server!HeartbeatAfterEnd(c)
         \/ Server!RemoteEnd(c) \/ Server!SocketError(c) \/ Server!SocketClose(c)
         \/ Server!Teach(c) \/ Server!Teaches(c) \/ Server!AckReceived(c)
  PROVE  Serving
<1>1. conn \in DOMAIN phase /\ conn \in DOMAIN parser
  BY DEF ServerInv, SvP!Types, Ends
<1>2. ~ServerGone(conn)' /\ parser'[conn] = "ok"
  BY DEF Serving
<1>3. ~ServerGone(conn)
  BY <1>1, <1>2, PhasesOn DEF ServerGone
<1>4. parser[conn] = "ok"
  BY <1>1, <1>2, PhasesOn
<1> QED
  BY <1>3, <1>4 DEF Serving

\* The answer stays in hand unless the step takes the request or goes on with the lesson.
LEMMA InHandKept ==
  ASSUME Owed, InSession, Serving, UNCHANGED <<conn, teaching>>,
         \A i : Requested(i) => \E j : Requested(j)',
         \A i : Partial(i) => Partial(i)'
  PROVE  InHand'
<1>1. InHand
  BY DEF Owed
<1>2. Going => Going'
  BY DEF Going
<1> QED
  BY <1>1, <1>2 DEF InHand, Requested, Partial

\* What was told stays told.
LEMMA PartialKept ==
  ASSUME ServerInv, conn \in Sockets, UNCHANGED conn, NEW c \in Sockets, NEW m, SvP!Write(c, m)
  PROVE  /\ \A i : Partial(i) => Partial(i)'
         /\ c = conn /\ m.kind = "syncPartial" => \E i : Partial(i)'
<1>1. CASE c # conn
  <2>1. written'[conn] = written[conn]
    BY <1>1, Grows DEF Ends
  <2> QED
    BY <1>1, <2>1 DEF Partial
<1>2. CASE c = conn
  <2>1. /\ DOMAIN written[conn] = 1..Len(written[conn]) /\ Len(written[conn]) \in Nat
        /\ DOMAIN written'[conn] = 1..(Len(written[conn]) + 1)
        /\ \A i \in 1..Len(written[conn]) : written'[conn][i] = written[conn][i]
        /\ written'[conn][Len(written[conn]) + 1] = m
    BY <1>2, Grows
  <2>2. \A i : Partial(i) => Partial(i)'
    BY <2>1 DEF Partial
  <2>3. ASSUME m.kind = "syncPartial"
        PROVE  \A i : i = Len(written[conn]) + 1 => Partial(i)'
    BY <2>1, <2>3 DEF Partial
  <2> QED
    BY <2>2, <2>3
<1> QED
  BY <1>1, <1>2

\* Accepting the status puts the request on its way.
LEMMA StatusAsks ==
  ASSUME Delivery, CP!IInv, SelfStarted, ReadStatus, Serving'
  PROVE  InHand'
<1>1. UNCHANGED <<serverVars, conn>> /\ Serving
  <2>1. UNCHANGED <<serverVars, conn>>
    BY DEF ReadStatus, ClientStep
  <2> QED
    BY <2>1 DEF Serving, ServerGone, serverVars
<1>2. sent \in Seq(Client!Outgoing) /\ "syncRequest" \in Client!Outgoing
  BY DEF CP!IInv, CP!TypeOK, CP!Outgoing, Client!Outgoing
<1>3. sent' = sent \o <<"syncRequest">>
  <2>1. starter = "auto"
    BY DEF ReadStatus, Client!StatusAccepted, SelfStarted, CP!IInv, CP!TypeOK
  <2> QED
    BY <2>1 DEF ReadStatus, Client!StatusAccepted, Client!Write
<1>4. Late = <<"syncRequest">>
  BY <1>2, <1>3, LateIs DEF Late
<1>5. inbox'[conn] = inbox[conn] \o <<"syncRequest">> /\ inbox[conn] \in Seq(Client!Outgoing)
  BY <1>1, <1>4 DEF ReadStatus, ClientStep, Late, Serving, Delivery
<1>6. /\ Len(inbox[conn]) + 1 \in DOMAIN inbox'[conn]
      /\ inbox'[conn][Len(inbox[conn]) + 1] = "syncRequest"
  BY <1>2, <1>5
<1> QED
  BY <1>1, <1>6 DEF InHand, Requested

\* Reading takes nothing from the server.
LEMMA ReadingKeepsInHand ==
  ASSUME ServerInv, AllFine, Delivery, CP!IInv, Owed, Read, Serving'
  PROVE  InHand'
<1>1. UNCHANGED <<serverVars, conn>> /\ Serving
  <2>1. UNCHANGED <<serverVars, conn>>
    BY DEF Read, ClientStep
  <2> QED
    BY <2>1 DEF Serving, ServerGone, serverVars
<1>2. InSession
  BY DEF Read, Client!OnParserMessage, InSession
<1>3. \A i : Partial(i) => Partial(i)'
  BY <1>1 DEF Partial, serverVars
<1>4. conn \in Sockets /\ inbox[conn] \in Seq(Client!Outgoing)
  BY DEF Delivery
<1>5. Handles
  BY <1>4, ReadMessage DEF Delivery, Read, Handles
<1>6. inbox'[conn] = inbox[conn] \o Late
  BY <1>1, <1>4 DEF Read, ClientStep, Late, Serving, Delivery
<1>7. Late = <<>> \/ \E x \in Client!Outgoing : Late = <<x>>
  BY <1>5, ClientWrites
<1>8. \A i \in DOMAIN inbox[conn] :
        i \in DOMAIN inbox'[conn] /\ inbox'[conn][i] = inbox[conn][i]
  BY <1>4, <1>6, <1>7
<1>9. \A i : Requested(i) => Requested(i)'
  BY <1>1, <1>8 DEF Requested
<1> QED
  BY <1>1, <1>2, <1>3, <1>9, InHandKept DEF serverVars

\* The lesson of a connection is a lesson, not None: a table is opened,
LEMMA LessonOpened ==
  ASSUME ServerInv, NEW c \in Sockets, SvP!Teach(c) \/ SvP!TeachTable(c)
  PROVE  teaching' # None /\ teaching'.conn = c
<1> USE SameServerAssumptions DEF SvP!ServerAssumption, SvP!StoreAssumption
<1>1. /\ DOMAIN definitions \subseteq Names
      /\ \A n \in Names : DOMAIN entries[n] \subseteq Keys
  <2>1. SvP!Store!TypeOK
    BY SvP!StoreTypes DEF ServerInv
  <2> QED
    BY <2>1 DEF SvP!Store!TypeOK
<1>2. c \in Ends
  BY DEF Ends
<1>3. CASE SvP!Teach(c)
  <2>1. PICK tables : /\ teaching' = [conn |-> c, name |-> None, keys |-> {},
                                      tables |-> tables]
                      /\ tables \subseteq DOMAIN definitions
    BY <1>3 DEF SvP!Teach
  <2>2. teaching' \in SvP!Lessons
    BY <1>1, <1>2, <2>1 DEF SvP!Lessons, Ends
  <2> QED
    BY <2>1, <2>2 DEF SvP!Lessons
<1>4. CASE SvP!TeachTable(c)
  <2>1. PICK n \in teaching.tables :
          teaching' = [conn |-> c, name |-> n, keys |-> DOMAIN entries[n],
                       tables |-> teaching.tables \ {n}]
    BY <1>4 DEF SvP!TeachTable
  <2>2. teaching \in SvP!Lessons
    BY <1>4 DEF SvP!TeachTable, SvP!InLesson, ServerInv, SvP!Types
  <2>3. teaching.tables \subseteq Names
    BY <2>2 DEF SvP!Lessons
  <2>4. teaching' \in SvP!Lessons
    BY <1>1, <1>2, <2>1, <2>3 DEF SvP!Lessons, Ends
  <2> QED
    BY <2>1, <2>4 DEF SvP!Lessons
<1> QED
  BY <1>3, <1>4

\* and it goes on with each entry.
LEMMA LessonGoing ==
  ASSUME ServerInv, NEW c \in Sockets, SvP!TeachEntry(c)
  PROVE  teaching' # None /\ teaching'.conn = c
<1> USE SameServerAssumptions DEF SvP!ServerAssumption
<1>1. PICK k \in teaching.keys : teaching' = [teaching EXCEPT !.keys = @ \ {k}]
  BY DEF SvP!TeachEntry
<1>2. teaching \in SvP!Lessons /\ teaching.conn = c
  BY DEF SvP!TeachEntry, SvP!InLesson, ServerInv, SvP!Types
<1>3. teaching' \in SvP!Lessons /\ teaching'.conn = c
  BY <1>1, <1>2 DEF SvP!Lessons
<1> QED
  BY <1>3 DEF SvP!Lessons

\* A lesson goes on to its end, unless it takes the connection with it.
LEMMA TeachingKeepsInHand ==
  ASSUME ServerInv, Delivery, Owed, InSession, Serving', NEW c \in Sockets,
         Server!Teaches(c), UNCHANGED <<conn, inbox>>
  PROVE  InHand'
<1>1. conn \in Sockets /\ Serving /\ InHand
  BY StillServing DEF Delivery, Owed
<1>2. SvP!Teaches(c)
  BY SameLessons DEF Server!Teaches, SvP!Teaches
<1>3. Going <=> c = conn
  BY <1>2 DEF SvP!Teaches, SvP!TeachTable, SvP!TeachEntry, SvP!TeachThrows, SvP!TeachEnd,
    SvP!InLesson, Going
<1>4. \A i : Requested(i) => Requested(i)'
  BY DEF Requested
<1>5. \A i : Partial(i) => Partial(i)'
  <2>1. CASE SvP!TeachTable(c) \/ SvP!TeachEntry(c) \/ SvP!TeachEnd(c)
    BY <1>1, <2>1, TellsTable, TellsEntry, TellsEnd, PartialKept
  <2>2. CASE SvP!TeachThrows(c)
    BY <2>2 DEF SvP!TeachThrows, SvP!BrokenOff, Partial
  <2> QED
    BY <1>2, <2>1, <2>2 DEF SvP!Teaches
<1>6. CASE c # conn
  BY <1>1, <1>3, <1>4, <1>5, <1>6 DEF InHand, Requested, Partial
<1>7. CASE c = conn
  <2>1. CASE SvP!TeachTable(conn) \/ SvP!TeachEntry(conn)
    BY <1>1, <2>1, LessonOpened, LessonGoing DEF InHand, Going
  <2>2. CASE SvP!TeachThrows(conn)
    <3>1. parser'[conn] = "teach"
      BY <1>1, <2>2 DEF SvP!TeachThrows, SvP!Failing, ServerInv, SvP!Types
    <3> QED
      BY <3>1 DEF Serving
  <2>3. CASE SvP!TeachEnd(conn)
    BY <1>1, <2>3, TellsEnd, PartialKept DEF InHand, Partial
  <2> QED
    BY <1>2, <1>7, <2>1, <2>2, <2>3 DEF SvP!Teaches
<1> QED
  BY <1>6, <1>7

\* A message that the server handles is not the request, or of another connection.
LEMMA RequestLeft ==
  ASSUME Delivery, NEW c \in Sockets, inbox[c] # <<>>, UNCHANGED conn,
         inbox' = [inbox EXCEPT ![c] = Tail(@)],
         c = conn => Head(inbox[c]) # "syncRequest"
  PROVE  \A i : Requested(i) => \E j : Requested(j)'
<1>1. conn \in Sockets /\ inbox[conn] \in Seq(Client!Outgoing) /\ conn \in DOMAIN inbox
  BY DEF Delivery
<1>2. CASE c # conn
  BY <1>1, <1>2 DEF Requested
<1>3. CASE c = conn
  <2>1. inbox'[conn] = Tail(inbox[conn])
    BY <1>1, <1>3
  <2> SUFFICES ASSUME NEW i, Requested(i) PROVE \E j : Requested(j)'
    OBVIOUS
  <2>2. i \in DOMAIN inbox[conn] /\ inbox[conn][i] = "syncRequest"
    BY DEF Requested
  <2>3. i # 1
    BY <1>1, <1>3, <2>2
  <2>4. i - 1 \in DOMAIN Tail(inbox[conn]) /\ Tail(inbox[conn])[i - 1] = "syncRequest"
    BY <1>1, <1>3, <2>2, <2>3
  <2> QED
    BY <2>1, <2>4 DEF Requested
<1> QED
  BY <1>2, <1>3

\* What the server does with a message.
LEMMA HandlingKeepsInHand ==
  ASSUME ServerInv, Delivery, Owed, InSession, Serving', NEW c \in Sockets, ServerReads(c)
  PROVE  InHand'
<1> DEFINE m == Head(inbox[c])
<1>1. /\ conn \in Sockets /\ UNCHANGED conn
      /\ Handle(c, m) /\ inbox[c] # <<>> /\ inbox' = [inbox EXCEPT ![c] = Tail(@)]
  BY DEF Delivery, ServerReads, ServerStep
<1>2. (c = conn => m # "syncRequest") => \A i : Requested(i) => \E j : Requested(j)'
  BY <1>1, RequestLeft
<1> HIDE DEF m
<1>3. CASE m = "hello"
  <2>1. Server!HelloAccepted(c) /\ UNCHANGED teaching
    BY <1>1, <1>3 DEF Handle, Server!HelloAccepted
  <2>2. Serving
    BY <1>1, <2>1, StillServing
  <2>3. SvP!Write(c, SvP!Status(SvP!Success))
    BY <2>1, SameCallbacks DEF SvP!HelloAccepted
  <2>4. \A i : Partial(i) => Partial(i)'
    BY <1>1, <2>3, PartialKept
  <2> QED
    BY <1>1, <1>2, <1>3, <2>1, <2>2, <2>4, InHandKept
<1>4. CASE m = "syncRequest"
  <2>1. Server!Teach(c) /\ SvP!Teach(c)
    BY <1>1, <1>4, SameLessons DEF Handle
  <2>2. CASE c = conn
    BY <1>1, <2>1, <2>2, LessonOpened DEF InHand, Going
  <2>3. CASE c # conn
    <3>1. ~Going /\ UNCHANGED written
      BY <2>1 DEF SvP!Teach, SvP!Receiving, Going
    <3>2. InHand
      BY <1>1, <2>1, StillServing DEF Owed
    <3>3. \A i : Partial(i) => Partial(i)'
      BY <1>1, <3>1 DEF Partial
    <3> QED
      BY <1>1, <1>2, <2>3, <3>1, <3>2, <3>3 DEF InHand, Requested, Partial
  <2> QED
    BY <2>2, <2>3
<1>5. CASE m = "ack"
  <2>1. Server!AckReceived(c) /\ SvP!AckReceived(c)
    BY <1>1, <1>5, SameCallbacks DEF Handle
  <2>2. Serving
    BY <1>1, <2>1, StillServing
  <2>3. UNCHANGED <<written, teaching>>
    BY <2>1 DEF SvP!AckReceived
  <2>4. \A i : Partial(i) => Partial(i)'
    BY <1>1, <2>3 DEF Partial
  <2> QED
    BY <1>1, <1>2, <1>5, <2>2, <2>3, <2>4, InHandKept
<1>6. CASE m \notin {"hello", "syncRequest", "ack"}
  <2>1. UNCHANGED serverVars
    BY <1>1, <1>6 DEF Handle
  <2>2. Serving /\ UNCHANGED <<written, teaching>>
    BY <1>1, <2>1 DEF Serving, ServerGone, serverVars
  <2>3. \A i : Partial(i) => Partial(i)'
    BY <1>1, <2>2 DEF Partial
  <2> QED
    BY <1>1, <1>2, <1>6, <2>2, <2>3, InHandKept
<1> QED
  BY <1>3, <1>4, <1>5, <1>6

\* A step that leaves the conversation alone.
LEMMA InHandUntouched ==
  ASSUME Owed, InSession, Serving, UNCHANGED <<conn, teaching, written>>,
         inbox'[conn] = inbox[conn]
  PROVE  InHand'
BY InHandKept DEF Requested, Partial

\* The client's steps that are not in a session, or end it.
LEMMA NoSession ==
  ASSUME CP!IInv,
         \/ Connect \/ ReadPartOfStatus \/ ReadEnd \/ ClientSocketError
         \/ ClientListenerThrows \/ ClientSocketClose \/ Reconnect
  PROVE  ~InSession'
<1>1. CASE Connect
  <2>1. state' # "ESTABLISHED"
    BY <1>1 DEF Connect, Client!Ready, Client!Start, CP!IInv, CP!FieldsAgree
  <2> QED
    BY <2>1 DEF InSession
<1>2. CASE ReadPartOfStatus \/ ReadEnd \/ ClientSocketError \/ ClientListenerThrows
           \/ ClientSocketClose \/ Reconnect
  BY <1>2 DEF ReadPartOfStatus, ReadEnd, ClientSocketError, ClientListenerThrows,
    ClientSocketClose, Reconnect, Client!StatusIncomplete, Client!RemoteEnd,
    Client!SocketError, Client!ParserError, Client!SocketClose, Client!Reconnect, InSession
<1> QED
  BY <1>1, <1>2

\* So the answer is in hand as long as the server's end serves the session.
LEMMA OwedStep ==
  ASSUME ServerInv, AllFine, Delivery, CP!IInv, SelfStarted, Owed, [Next]_vars
  PROVE  Owed'
<1> SUFFICES ASSUME InSession', Serving' PROVE InHand'
  BY DEF Owed
<1>1. conn \in Sockets
  BY DEF Delivery
<1>2. ASSUME ServerStep
      PROVE  InSession /\ UNCHANGED conn
  BY <1>2 DEF ServerStep, clientVars, InSession
<1>3. CASE ReadStatus \/ Read
  BY <1>3, StatusAsks, ReadingKeepsInHand
<1>4. CASE Exited \/ UNCHANGED vars \/ Listen \/ Feed
  <2>1. UNCHANGED <<clientVars, conn, inbox, phase, parser, teaching, written>>
    BY <1>4 DEF Exited, vars, serverVars, Listen, Server!Listen, Feed, ServerStep
  <2>2. InSession /\ Serving
    BY <2>1 DEF clientVars, InSession, Serving, ServerGone
  <2> QED
    BY <2>1, <2>2, InHandUntouched
<1>5. ASSUME NEW c \in Sockets,
             Accept(c) \/ Refuse(c) \/ ServerReadsEnd(c) \/ ServerSocketError(c)
      PROVE  InHand'
  <2>1. /\ Server!Accept(c) \/ Refuse(c) \/ Server!RemoteEnd(c) \/ Server!SocketError(c)
        /\ ServerStep /\ UNCHANGED inbox
    BY <1>5 DEF Accept, Refuse, ServerReadsEnd, ServerSocketError
  <2>2. UNCHANGED <<teaching, written>>
    BY <2>1 DEF Server!Accept, Refuse, Server!RemoteEnd, Server!SocketError
  <2> QED
    BY <1>1, <1>2, <2>1, <2>2, StillServing, InHandUntouched
<1>6. ASSUME NEW c \in Sockets, ServerCallback(c)
      PROVE  InHand'
  <2>1. ServerStep /\ UNCHANGED inbox
    BY <1>6 DEF ServerCallback
  <2>2. CASE Server!Teaches(c)
    BY <1>2, <2>1, <2>2, TeachingKeepsInHand
  <2>3. CASE Server!Established(c) \/ Server!ParserError(c) \/ Server!HeartbeatAfterEnd(c)
    <3>1. UNCHANGED <<teaching, written>>
      BY <2>3 DEF Server!Established, Server!ParserError, Server!HeartbeatAfterEnd
    <3> QED
      BY <1>1, <1>2, <2>1, <2>3, <3>1, StillServing, InHandUntouched
  <2> QED
    BY <1>6, <2>2, <2>3 DEF ServerCallback
<1>7. ASSUME NEW c \in Sockets, ServerReads(c)
      PROVE  InHand'
  BY <1>2, <1>7, HandlingKeepsInHand DEF ServerReads
<1>8. ASSUME NEW c \in Sockets, ServerSocketClose(c)
      PROVE  InHand'
  <2>1. /\ Server!SocketClose(c) /\ ServerStep
        /\ inbox' = [inbox EXCEPT ![c] = <<>>] /\ phase' = [phase EXCEPT ![c] = "closed"]
        /\ UNCHANGED <<teaching, written>>
    BY <1>8 DEF ServerSocketClose, Server!SocketClose
  <2>2. c # conn
    <3>1. phase'[c] = "closed"
      BY <2>1 DEF ServerInv, SvP!Types
    <3> QED
      BY <1>2, <2>1, <3>1 DEF Serving, ServerGone
  <2>3. inbox'[conn] = inbox[conn]
    BY <1>1, <2>1, <2>2 DEF Delivery
  <2> QED
    BY <1>1, <1>2, <2>1, <2>3, StillServing, InHandUntouched
<1> QED
  BY <1>3, <1>4, <1>5, <1>6, <1>7, <1>8, NoSession DEF Next

-----------------------------------------------------------------------------
(* The invariant. *)

\* The inductive invariant.
IInv ==
  /\ ServerInv /\ CP!IInv
  /\ AllFine /\ Delivery /\ AskedOnce /\ TaughtWell
  /\ SelfStarted /\ Owed

\* It holds at first
LEMMA InitHolds == Init => IInv
<1> SUFFICES ASSUME Init PROVE IInv
  OBVIOUS
<1>1. ServerInv /\ CP!IInv
  BY ServerInvInit, ClientInvInit
<1>2. conn \in Sockets
  <2>1. \E c \in Sockets : TRUE
    BY SessionAssumption
  <2> QED
    BY <2>1 DEF Init
<1>3. /\ \A c \in Sockets : written[c] = <<>> /\ inbox[c] = <<>>
      /\ inbox = [c \in Sockets |-> <<>>]
      /\ teaching = None /\ definitions = <<>>
      /\ read = 0 /\ lesson = {} /\ state = "NOT_STARTED" /\ starter = "none"
  BY DEF Init, Server!Init, Server!Store!Init, Client!Init
<1>4. Len(<<>>) = 0 /\ DOMAIN <<>> = {}
  OBVIOUS
<1>5. AllFine
  BY <1>3, <1>4 DEF AllFine
<1>6. Delivery
  <2>1. <<>> \in Seq(Client!Outgoing)
    OBVIOUS
  <2> QED
    BY <1>2, <1>3, <1>4, <2>1 DEF Delivery
<1>7. AskedOnce
  BY <1>2, <1>3, <1>4 DEF AskedOnce
<1>8. TaughtWell
  <2>1. ToldBy(written[conn]) = {}
    BY <1>2, <1>3, <1>4, NothingTold
  <2> QED
    BY <1>2, <1>3, <1>4, <2>1 DEF TaughtWell, Going
<1>9. SelfStarted /\ Owed
  BY <1>3 DEF SelfStarted, Owed, InSession
<1> QED
  BY <1>1, <1>5, <1>6, <1>7, <1>8, <1>9 DEF IInv

\* and is kept by every step,
LEMMA StepHolds == IInv /\ [Next]_vars => IInv'
<1> SUFFICES ASSUME IInv, [Next]_vars PROVE IInv'
  OBVIOUS
<1>1. ServerInv'
  BY ServerInvKept DEF IInv
<1>2. CP!IInv'
  <2>1. conn \in Sockets /\ read \in Nat
    BY DEF IInv, Delivery
  <2> QED
    BY <2>1, ClientInvKept DEF IInv
<1>3. AllFine' /\ Delivery' /\ AskedOnce' /\ TaughtWell'
  BY FineStep, DeliveryStep, AskedOnceStep, TaughtWellStep DEF IInv
<1>4. SelfStarted' /\ Owed'
  BY SelfStartedStep, OwedStep DEF IInv
<1> QED
  BY <1>1, <1>2, <1>3, <1>4 DEF IInv

\* so always.
THEOREM Invariance == Spec => []IInv
BY InitHolds, StepHolds, PTL DEF Spec

\* The request, a lesson of the connection and the end of it exclude each other: a
\* request waits without a lesson, and the end is told when the lesson is over.
LEMMA OneOfThree ==
  ASSUME IInv, InSession, Serving
  PROVE  \/ /\ \E i : Requests = {i}
            /\ Answers = {} /\ ~Going
         \/ Requests = {} /\ Answers = {} /\ Going
         \/ /\ \E i : Answers = {i}
            /\ Requests = {} /\ ~Going
<1>1. InHand
  BY DEF IInv, Owed
<1>2. /\ \A i : i \in Requests <=> Requested(i)
      /\ \A i : i \in Answers <=> Partial(i)
  BY DEF Requests, Requested, Answers, Partial
<1>3. /\ \A i, j : Requested(i) /\ Requested(j) => i = j
      /\ \A i : Requested(i) => lesson = {}
  BY DEF IInv, AskedOnce, Requested
<1>4. /\ Going => lesson # {}
      /\ \A i : Partial(i) => i = Len(written[conn]) /\ lesson # {} /\ ~Going
  BY DEF IInv, TaughtWell, Partial
<1>5. CASE \E i : Requested(i)
  <2>1. PICK i : Requested(i)
    BY <1>5
  <2>2. Requests = {i} /\ Answers = {} /\ ~Going
    BY <1>2, <1>3, <1>4, <2>1
  <2> QED
    BY <2>2
<1>6. CASE Going
  BY <1>2, <1>3, <1>4, <1>6
<1>7. CASE \E i : Partial(i)
  <2>1. PICK i : Partial(i)
    BY <1>7
  <2>2. Answers = {i} /\ Requests = {} /\ ~Going
    BY <1>2, <1>3, <1>4, <2>1
  <2> QED
    BY <2>2
<1> QED
  BY <1>1, <1>5, <1>6, <1>7 DEF InHand

\* AnsweredOnce holds in every state: while the server's end of a session is there and
\* its parser works, the session's request is in exactly one place, whatever the
\* contents, the sizes of the store and the number of connections.
THEOREM RequestAnsweredOnce == Spec => []AnsweredOnce
<1>1. IInv => AnsweredOnce
  <2> SUFFICES ASSUME IInv, InSession, Serving
               PROVE  Cardinality(Requests) + Cardinality(Answers)
                        + (IF Server!InLesson(conn) THEN 1 ELSE 0) = 1
    BY DEF AnsweredOnce, Serving
  <2>1. Server!InLesson(conn) <=> Going
    BY DEF Server!InLesson, Going
  <2>2. Cardinality({}) = 0 /\ \A x : Cardinality({x}) = 1
    BY FS_EmptySet, FS_Singleton
  <2>3. \/ /\ Cardinality(Requests) = 1 /\ Cardinality(Answers) = 0
           /\ ~Server!InLesson(conn)
        \/ /\ Cardinality(Requests) = 0 /\ Cardinality(Answers) = 0
           /\ Server!InLesson(conn)
        \/ /\ Cardinality(Requests) = 0 /\ Cardinality(Answers) = 1
           /\ ~Server!InLesson(conn)
    BY <2>1, <2>2, OneOfThree, Zenon
  <2> DEFINE lessons == IF Server!InLesson(conn) THEN 1 ELSE 0
  <2>4. /\ Server!InLesson(conn) => lessons = 1
        /\ ~Server!InLesson(conn) => lessons = 0
    BY Zenon
  <2> HIDE DEF lessons
  <2>5. Cardinality(Requests) + Cardinality(Answers) + lessons = 1
    BY <2>3, <2>4
  <2> QED
    BY <2>5 DEF lessons
<1> QED
  BY <1>1, Invariance, PTL

\* The client of the session is the PeerConnection of src/src/connection.ts: each of
\* its steps is one of PeerConnection, on messages that the server did write, so that
\* what is proved there of every environment holds of this one.
THEOREM ClientIsPeerConnection == Spec => Client!Spec
<1>1. Init => Client!Init
  BY DEF Init
<1>2. IInv /\ [Next]_vars => [Client!Next]_Client!vars
  <2>1. IInv => conn \in Sockets /\ read \in Nat
    BY DEF IInv, Delivery
  <2> QED
    BY <2>1, ClientNext DEF IInv
<1> QED
  BY <1>1, <1>2, Invariance, PTL DEF Spec, Client!Spec

\* The copies of how a client reads an entry.
LEMMA SameReading ==
  /\ \A c, i : SvP!ReadUnder(c, i) = Server!ReadUnder(c, i)
  /\ \A c, i : SvP!WordRead(c, i) = Server!WordRead(c, i)
<1>1. \A S : SvP!Max(S) = Server!Max(S)
  BY Zenon DEF SvP!Max, Server!Max
<1> QED
  BY <1>1, Zenon DEF SvP!ReadUnder, Server!ReadUnder, SvP!WordRead, Server!WordRead

\* What the client reads of an entry is what the entry says: its table, its types and
\* its word come from the messages before it, by LessonsReadable and LessonsResolve.
LEMMA FactIs ==
  ASSUME IInv, NEW i \in DOMAIN written[conn], written[conn][i].kind = "entry"
  PROVE  Fact(i) = SaidFact(written[conn][i])
<1> DEFINE m == written[conn][i]
           d == Server!ReadUnder(conn, i)
<1> USE SameServerAssumptions DEF SvP!ServerAssumption, SvP!StoreAssumption
<1>1. conn \in Sockets /\ conn \in Ends
  BY DEF IInv, Delivery, Ends
<1>2. SvP!LessonsReadable /\ SvP!LessonsResolve
  BY SvP!LessonsReadImplies, SvP!WordsKeptImplies DEF IInv, ServerInv, Ends
<1>3. d.name = m.name /\ d.types = DOMAIN m.values
  BY <1>1, <1>2, SameReading DEF SvP!LessonsReadable, Ends
<1>4. \A t \in Dictionaries \cap DOMAIN m.values : Server!WordRead(conn, i) = m.values[t]
  <2>1. \A w \in SvP!WordsOf(m) : Server!WordRead(conn, i) = w
    BY <1>1, <1>2, SameReading DEF SvP!LessonsResolve, Ends
  <2>2. \A t \in Dictionaries \cap DOMAIN m.values : m.values[t] \in SvP!WordsOf(m)
    BY DEF SvP!WordsOf
  <2> QED
    BY <2>1, <2>2
<1>5. m.values = [t \in DOMAIN m.values |-> m.values[t]]
  BY <1>1 DEF IInv, AllFine, Fine
<1> HIDE DEF m, d
<1>6. [t \in d.types |-> IF t \in Dictionaries THEN Server!WordRead(conn, i) ELSE m.values[t]]
        = m.values
  BY <1>3, <1>4, <1>5
<1>7. Fact(i) = [name |-> d.name, key |-> m.key,
                 values |-> [t \in d.types |-> IF t \in Dictionaries
                                               THEN Server!WordRead(conn, i) ELSE m.values[t]]]
  BY DEF Fact, m, d
<1> QED
  BY <1>3, <1>6, <1>7 DEF SaidFact, m

-----------------------------------------------------------------------------
(* The refinement of Synchronization. *)

\* What the first n messages say.
HeardOf(said, n) == {SaidFact(said[i]) : i \in {j \in 1..n : said[j].kind = "entry"}}

Heard == HeardOf(written[conn], read)

\* What the client learned is what it heard.
LEMMA LearnedIs ==
  ASSUME IInv
  PROVE  Learned = Heard
<1>1. 1..read \subseteq DOMAIN written[conn]
  <2>1. conn \in Sockets /\ read \in 0..Len(written[conn]) /\ ServerInv
    BY DEF IInv, Delivery
  <2>2. Len(written[conn]) \in Nat /\ DOMAIN written[conn] = 1..Len(written[conn])
    BY <2>1, Lengths
  <2> QED
    BY <2>1, <2>2
<1> DEFINE E == {j \in 1..read : written[conn][j].kind = "entry"}
<1>2. \A i \in E : Fact(i) = SaidFact(written[conn][i])
  BY <1>1, FactIs
<1>3. Learned = {Fact(i) : i \in E}
  BY DEF Learned
<1>4. Heard = {SaidFact(written[conn][i]) : i \in E}
  BY DEF Heard, HeardOf
<1> HIDE DEF E
<1> QED
  BY <1>2, <1>3, <1>4

\* The same of the state after a step.
LEMMA LearnedIsThen == (IInv => Learned = Heard)'
<1>1. IInv => Learned = Heard
  BY LearnedIs
<1> QED
  BY <1>1, PTL

\* The contents change only with the store.
LEMMA ContentsKept ==
  ASSUME UNCHANGED <<definitions, entries>>
  PROVE  Contents' = Contents
BY ShownKept DEF Contents

\* How a session begins, goes on or is left alone by a step.
LEMMA SessionSteps ==
  ASSUME IInv, [Next]_vars, InSession'
  PROVE  \/ ReadStatus \/ Read
         \/ InSession /\ UNCHANGED <<clientVars, conn, read>>
<1>1. CASE \/ Connect \/ ReadPartOfStatus \/ ReadEnd \/ ClientSocketError
           \/ ClientListenerThrows \/ ClientSocketClose \/ Reconnect
  BY <1>1, NoSession DEF IInv
<1>2. ASSUME UNCHANGED <<clientVars, conn, read>>
      PROVE  InSession
  BY <1>2 DEF clientVars, InSession
<1>3. CASE Exited \/ UNCHANGED vars \/ Listen \/ Feed
  <2>1. UNCHANGED <<clientVars, conn, read>>
    BY <1>3 DEF Exited, vars, Listen, Feed, ServerStep
  <2> QED
    BY <1>2, <2>1
<1>4. ASSUME NEW c \in Sockets,
             \/ Accept(c) \/ Refuse(c) \/ ServerReads(c) \/ ServerReadsEnd(c)
             \/ ServerSocketError(c) \/ ServerCallback(c) \/ ServerSocketClose(c)
      PROVE  UNCHANGED <<clientVars, conn, read>>
  BY <1>4 DEF Accept, Refuse, ServerReads, ServerReadsEnd, ServerSocketError, ServerCallback,
    ServerSocketClose, ServerStep
<1> QED
  BY <1>1, <1>2, <1>3, <1>4 DEF Next

\* Reading the status is Ask,
LEMMA StatusIsAsking ==
  ASSUME IInv, IInv', ReadStatus, InSession'
  PROVE  Sync!Ask
<1>1. /\ read' = 1 /\ UNCHANGED <<conn, lesson, written, definitions, entries>>
      /\ written[conn][1] = Server!Status(Server!Success)
  BY DEF ReadStatus, ClientStep, serverVars
<1>2. written[conn][1].kind = "status"
  BY <1>1 DEF Server!Status
<1>3. state # "ESTABLISHED"
  BY DEF ReadStatus, Client!StatusAccepted, IInv, CP!IInv, CP!FieldsAgree
<1>4. ~InSession /\ lesson = {}
  BY <1>3 DEF InSession, IInv, AskedOnce
<1>5. Learned' = {}
  <2>1. Heard' = {}
    BY <1>1, <1>2 DEF Heard, HeardOf
  <2> QED
    BY <2>1, LearnedIsThen
<1>6. ~Finished'
  BY <1>1, <1>2 DEF Finished
<1>7. SyncPhase = "idle" /\ SyncPhase' = "asked"
  BY <1>1, <1>4, <1>6 DEF SyncPhase
<1>8. Contents' = Contents
  BY <1>1, ContentsKept
<1> QED
  BY <1>1, <1>4, <1>5, <1>7, <1>8 DEF Sync!Ask

\* What reading a message does to what was heard: the end comes after all that was said.
LEMMA ReadIs ==
  ASSUME IInv, Read
  PROVE  LET m == written[conn][read + 1]
         IN /\ m.kind \in {"definition", "entry", "syncPartial"}
            /\ read + 1 \in DOMAIN written[conn] /\ read' = read + 1
            /\ InSession /\ UNCHANGED <<conn, lesson, written, definitions, entries, state>>
            /\ ~Finished
            /\ Finished' <=> m.kind = "syncPartial"
            /\ Heard' = IF m.kind = "entry" THEN Heard \cup {SaidFact(m)} ELSE Heard
            /\ m.kind = "syncPartial" => Heard = ToldBy(written[conn])
<1> DEFINE m == written[conn][read + 1]
           w == written[conn]
<1>1. /\ read > 0 /\ read < Len(w) /\ read' = read + 1
      /\ UNCHANGED <<conn, lesson, written, definitions, entries, state>>
      /\ InSession
  BY DEF Read, ClientStep, serverVars, Client!OnParserMessage, InSession
<1>2. conn \in Sockets /\ read \in Nat /\ ServerInv /\ AllFine
  BY DEF IInv, Delivery
<1>3. m.kind \in {"definition", "entry", "syncPartial"}
  BY <1>1, <1>2, ReadMessage
<1>4. Len(w) \in Nat /\ DOMAIN w = 1..Len(w)
  BY <1>2, Lengths
<1>5. \A i \in DOMAIN w : w[i].kind = "syncPartial" => i = Len(w)
  BY DEF IInv, TaughtWell, Partial
<1>6. ~Finished /\ (Finished' <=> m.kind = "syncPartial")
  <2>1. \A i \in 1..read : w[i].kind # "syncPartial"
    BY <1>1, <1>2, <1>4, <1>5
  <2>2. 1..(read + 1) = 1..read \cup {read + 1}
    BY <1>2
  <2>3. Finished' <=> \E i \in 1..(read + 1) : w[i].kind = "syncPartial"
    BY <1>1 DEF Finished
  <2> HIDE DEF w
  <2> QED
    BY <2>1, <2>2, <2>3 DEF Finished, w
<1> DEFINE E(n) == {j \in 1..n : w[j].kind = "entry"}
<1>7. E(read + 1) = IF m.kind = "entry" THEN E(read) \cup {read + 1} ELSE E(read)
  BY <1>2
<1>8. /\ Heard' = {SaidFact(w[i]) : i \in E(read + 1)}
      /\ Heard = {SaidFact(w[i]) : i \in E(read)}
  BY <1>1 DEF Heard, HeardOf, SaidFact
<1>9. Heard' = IF m.kind = "entry" THEN Heard \cup {SaidFact(m)} ELSE Heard
  <2> HIDE DEF E, w, m, SaidFact
  <2>1. m = w[read + 1]
    BY DEF m, w
  <2> QED
    BY <1>7, <1>8, <2>1
<1>10. ASSUME m.kind = "syncPartial"
       PROVE  Heard = ToldBy(w)
  <2>1. read + 1 = Len(w)
    BY <1>1, <1>2, <1>4, <1>5, <1>10
  <2>2. E(read) = {j \in DOMAIN w : w[j].kind = "entry"}
    BY <1>2, <1>4, <1>10, <2>1
  <2> QED
    BY <1>8, <2>2 DEF ToldBy
<1> QED
  BY <1>1, <1>2, <1>3, <1>4, <1>6, <1>9, <1>10

\* reading a definition changes nothing, an entry is Tell, the end is Finish,
LEMMA ReadingIsTelling ==
  ASSUME IInv, IInv', Read, InSession'
  PROVE  Sync!Change \/ Sync!Tell \/ Sync!Finish
<1> DEFINE m == written[conn][read + 1]
<1>1. /\ m.kind \in {"definition", "entry", "syncPartial"}
      /\ read + 1 \in DOMAIN written[conn]
      /\ InSession /\ UNCHANGED <<lesson, definitions, entries>>
      /\ ~Finished
      /\ Finished' <=> m.kind = "syncPartial"
      /\ Learned' = IF m.kind = "entry" THEN Learned \cup {SaidFact(m)} ELSE Learned
      /\ m.kind = "syncPartial" => Learned = ToldBy(written[conn])
  BY ReadIs, LearnedIs, LearnedIsThen
<1>2. Contents' = Contents
  BY <1>1, ContentsKept
<1>3. ToldBy(written[conn]) \subseteq UNION lesson
  BY DEF IInv, TaughtWell
<1>4. CASE m.kind = "definition"
  <2>1. SyncPhase' = SyncPhase
    BY <1>1, <1>4 DEF SyncPhase
  <2> QED
    BY <1>1, <1>4, <2>1 DEF Sync!Change
<1>5. CASE m.kind = "entry"
  <2>1. SaidFact(m) \in UNION lesson
    BY <1>1, <1>3, <1>5 DEF ToldBy
  <2>2. lesson # {}
    BY <2>1
  <2>3. SyncPhase = "answered" /\ SyncPhase' = "answered"
    BY <1>1, <1>5, <2>2 DEF SyncPhase
  <2> QED
    BY <1>1, <1>2, <1>5, <2>1, <2>3 DEF Sync!Tell
<1>6. CASE m.kind = "syncPartial"
  <2>1. lesson # {} /\ UNION lesson = ToldBy(written[conn])
    BY <1>1, <1>6 DEF IInv, TaughtWell, Partial
  <2>2. SyncPhase = "answered" /\ SyncPhase' = "finished"
    BY <1>1, <1>6, <2>1 DEF SyncPhase
  <2> QED
    BY <1>1, <1>2, <1>6, <2>1, <2>2 DEF Sync!Finish
<1> QED
  BY <1>1, <1>4, <1>5, <1>6

\* What the server writes meanwhile is not heard yet.
LEMMA ServingKeepsHeard ==
  ASSUME IInv, [Next]_vars, UNCHANGED <<conn, read>>, ~Reconnect
  PROVE  Heard' = Heard /\ (Finished' <=> Finished)
<1>1. conn \in Sockets /\ ServerInv /\ read \in 0..Len(written[conn])
  BY DEF IInv, Delivery
<1>2. Len(written[conn]) \in Nat /\ read \in Nat
  BY <1>1, Lengths
<1>3. \A i \in 1..Len(written[conn]) : written'[conn][i] = written[conn][i]
  <2>1. ASSUME NEW c \in Sockets, NEW m, SvP!Write(c, m)
        PROVE  \A i \in 1..Len(written[conn]) : written'[conn][i] = written[conn][i]
    BY <1>1, <2>1, Grows DEF Ends
  <2> QED
    BY <1>1, <2>1, Speaks
<1>4. \A i \in 1..read : written'[conn][i] = written[conn][i]
  BY <1>1, <1>2, <1>3
<1>5. Heard' = Heard
  BY <1>4 DEF Heard, HeardOf, SaidFact
<1>6. Finished' <=> Finished
  BY <1>4 DEF Finished
<1> QED
  BY <1>5, <1>6

\* the server reading the request is Answer, another step of it Change at most,
LEMMA ServingIsAnswering ==
  ASSUME IInv, IInv', [Next]_vars, InSession, UNCHANGED <<clientVars, conn, read>>
  PROVE  Sync!Change \/ Sync!Answer
<1>1. InSession' /\ ~Reconnect
  <2>1. InSession'
    BY DEF InSession, clientVars
  <2>2. Reconnect => ~InSession'
    BY DEF Reconnect, Client!Reconnect, InSession
  <2> QED
    BY <2>1, <2>2
<1>2. Learned' = Learned /\ (Finished' <=> Finished)
  BY <1>1, ServingKeepsHeard, LearnedIs, LearnedIsThen
<1>3. CASE lesson' = lesson
  <2>1. SyncPhase' = SyncPhase
    BY <1>1, <1>2, <1>3 DEF SyncPhase
  <2> QED
    BY <1>1, <1>2, <1>3, <2>1 DEF Sync!Change
<1>4. CASE Asks(conn)
  <2>1. lesson = {} /\ lesson' = {Contents}
    BY <1>4, AskedUntaught DEF IInv
  <2>2. UNION lesson' = Contents /\ lesson' # {}
    BY <2>1
  <2>3. ~Finished
    <3>1. conn \in Sockets /\ read \in 0..Len(written[conn]) /\ ServerInv
      BY DEF IInv, Delivery
    <3>2. \A i \in DOMAIN written[conn] : ~Partial(i)
      BY <2>1 DEF IInv, TaughtWell
    <3>3. 1..read \subseteq DOMAIN written[conn]
      BY <3>1, Lengths
    <3> QED
      BY <3>2, <3>3 DEF Finished, Partial
  <2>4. SyncPhase = "asked" /\ SyncPhase' = "answered"
    BY <1>1, <1>2, <2>1, <2>2, <2>3 DEF SyncPhase
  <2>5. Contents' = Contents
    <3>1. UNCHANGED <<definitions, entries>>
      BY <1>4 DEF Asks, SvP!Teach, SvP!storeVars
    <3> QED
      BY <3>1, ContentsKept
  <2> QED
    BY <1>1, <1>2, <2>2, <2>4, <2>5 DEF Sync!Answer
<1> QED
  BY <1>1, <1>3, <1>4, LessonKept

\* and leaving the session is Break.
LEMMA OutOfSession ==
  ASSUME IInv, [Next]_vars, ~InSession'
  PROVE  Sync!Change \/ Sync!Break
<1>1. SyncPhase' = "idle"
  BY DEF SyncPhase
<1>2. CASE Feed
  <2>1. ~InSession
    BY <1>2 DEF Feed, ServerStep, clientVars, InSession
  <2> QED
    BY <1>1, <2>1 DEF SyncPhase, Sync!Change
<1>3. CASE ~Feed
  <2>1. UNCHANGED <<definitions, entries>>
    BY <1>3, Conversation, NewConnection DEF Untold, SvP!HelloAccepted, SvP!Teaches,
      SvP!TeachTable, SvP!TeachEntry, SvP!TeachThrows, SvP!TeachEnd, Asks, SvP!Teach,
      SvP!storeVars, IInv
  <2> QED
    BY <1>1, <2>1, ContentsKept DEF Sync!Break
<1> QED
  BY <1>2, <1>3

\* The session implements Synchronization: whatever the store becomes meanwhile, whatever
\* breaks off a lesson and whatever older connections still say, a synchronization that
\* finishes has told the application what the store held at one moment since the request
\* (onSynchronizationRequest in src/src/server.ts, and the parser events of connection.ts).
THEOREM SessionSynchronizes == Spec => Synchronizes
<1>1. Init => Sync!Init
  <2> SUFFICES ASSUME Init PROVE Sync!Init
    OBVIOUS
  <2>1. DOMAIN definitions = {} /\ state = "NOT_STARTED"
    BY DEF Init, Server!Init, Server!Store!Init, Client!Init
  <2>2. Contents = {} /\ ~InSession
    BY <2>1 DEF Contents, InSession
  <2> QED
    BY <2>2 DEF Sync!Init, SyncPhase
<1>2. IInv /\ IInv' /\ [Next]_vars => [Sync!Next]_Sync!vars
  <2> SUFFICES ASSUME IInv, IInv', [Next]_vars PROVE Sync!Next
    OBVIOUS
  <2>1. CASE ~InSession'
    BY <2>1, OutOfSession DEF Sync!Next
  <2>2. CASE InSession'
    BY <2>2, SessionSteps, StatusIsAsking, ReadingIsTelling, ServingIsAnswering DEF Sync!Next
  <2> QED
    BY <2>1, <2>2
<1> QED
  BY <1>1, <1>2, Invariance, PTL DEF Spec, Sync!Spec, Synchronizes
=============================================================================
