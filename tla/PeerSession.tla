---------------------------- MODULE PeerSession ----------------------------
(***************************************************************************)
(* The two ends of this library together: a PeerConnection that connects   *)
(* to a PeerServer, asks for a synchronization, loses its connection and   *)
(* comes back, while other peers go on changing the server's store.        *)
(*                                                                         *)
(* Every step of an end is a step of PeerConnection or of PeerServer.  Of  *)
(* what those leave to the environment, the network is here: a message is  *)
(* handled after it is written and in order, an end that is gone is        *)
(* noticed at once, late or never, and what an old connection still has    *)
(* for the server may arrive after the client has opened the next.         *)
(*                                                                         *)
(* The hello is the one the server expects, the applications do not call   *)
(* start() or close(), and the other peers are one Feeder, of whom only    *)
(* what they do to the store is seen.  Heartbeats that arrive change       *)
(* nothing at either end and are left out; those that cannot are here.     *)
(***************************************************************************)
EXTENDS Naturals, SequencesExt

CONSTANTS
  Sockets,          \* the client's connections; one that is over is used again
  Feeder,           \* the server's connections to other peers
  \* those of both ends
  MaxConnections, MaxWritten, None,
  Names, Keys, Words, Counters, Rates, Arrays, Dictionaries, Latests,
  Definitions, Updates, MaxUpdates, Null

ASSUME SessionAssumption == Feeder \notin Sockets /\ Sockets # {}

VARIABLES
  \* the client's
  state, socket, starter, heartbeatTimer, intervals, reconnects, clientParser,
  sent, uncaught,
  \* the server's
  listening, phase, timer, parser, table, known, written, teaching, store,
  definitions, entries, history,
  \* between them
  conn,             \* the connection behind the client's socket
  inbox,            \* of a connection: what the server has not handled yet
  read,             \* how much of written[conn] the client has handled
  \* not in the code
  lesson            \* the contents of the store that conn is taught: {}
                    \* before it is, then a set of one

Client == INSTANCE PeerConnection WITH parser <- clientParser, written <- sent
Server == INSTANCE PeerServer WITH Conns <- Sockets \cup {Feeder}

ASSUME EndsAssumption ==
  Client!MaxWrittenAssumption /\ Server!ServerAssumption /\ Server!StoreAssumption

clientVars == <<state, socket, starter, heartbeatTimer, intervals, reconnects,
                clientParser, sent, uncaught>>
serverVars == <<listening, phase, timer, parser, table, known, written, teaching,
                store, definitions, entries, history>>
vars == <<clientVars, serverVars, conn, inbox, read, lesson>>

\* The client's end of a connection, and the server's, is no more.
ClientGone(c) == c # conn \/ socket \in {"closing", "closed"} \/ uncaught
ServerGone(c) == phase[c] \in {"destroyed", "closed"}

Init ==
  /\ Client!Init /\ Server!Init
  /\ conn = CHOOSE c \in Sockets : TRUE
  /\ inbox = [c \in Sockets |-> <<>>]
  /\ read = 0
  /\ lesson = {}

-----------------------------------------------------------------------------
\* The client's steps.  What it writes is on its way to the server.
ClientStep ==
  /\ inbox' = IF ServerGone(conn) THEN inbox
              ELSE [inbox EXCEPT ![conn] = @ \o SubSeq(sent', Len(sent) + 1, Len(sent'))]
  /\ UNCHANGED <<serverVars, conn, lesson>>

\* The operating system takes the connection; the server hears of it later.
Connect == listening /\ Client!Ready /\ ClientStep /\ UNCHANGED read

ReadStatus ==
  /\ read = 0 /\ written[conn] # <<>>
  /\ written[conn][1] = Server!Status(Server!Success)
  /\ Client!StatusAccepted
  /\ read' = 1
  /\ ClientStep

\* A part of the status arrives, or the end of the stream in place of one.
ReadPartOfStatus ==
  /\ written[conn] # <<>> \/ ServerGone(conn)
  /\ Client!StatusIncomplete /\ ClientStep /\ UNCHANGED read

\* The message class of what the server writes.
Received(m) ==
  CASE m.kind = "definition" -> "tableDefinition"
    [] m.kind = "entry"      -> "entryUpdate"
    [] OTHER                 -> m.kind

Read ==
  /\ read > 0 /\ read < Len(written[conn])
  /\ Client!OnParserMessage(Received(written[conn][read + 1]))
  /\ read' = read + 1
  /\ ClientStep

\* The server's end of stream is behind all that it wrote.
ReadEnd ==
  /\ ServerGone(conn) /\ read = Len(written[conn])
  /\ Client!RemoteEnd /\ ClientStep /\ UNCHANGED read

\* A refused connection, a reset, a network that is gone.
ClientSocketError == Client!SocketError /\ ClientStep /\ UNCHANGED read

\* A heartbeat into a connection that the server no longer has is answered
\* with a reset.
ClientHeartbeatUnanswered ==
  heartbeatTimer /\ ServerGone(conn) /\ ClientSocketError

\* A listener of the application throws.
ClientListenerThrows == Client!ParserError /\ ClientStep /\ UNCHANGED read

ClientSocketClose == Client!SocketClose /\ ClientStep /\ UNCHANGED read

\* The client has opened the connection, if it is not accepted yet.
Opened(c) == inbox[c] # <<>>

Unused == {c \in Sockets : phase[c] = "closed" \/ (phase[c] = "none" /\ ~Opened(c))}

\* What is known of connections that both ends are done with is forgotten,
\* and one of them is the new socket's, of which nothing is read yet.
Reconnect ==
  /\ Client!Reconnect
  /\ Unused # {}
  /\ conn' = CHOOSE c \in Unused : TRUE
  /\ phase' = [phase EXCEPT ![conn'] = "none"]
  /\ parser' = [c \in DOMAIN parser |-> IF c \in Unused THEN "ok" ELSE parser[c]]
  /\ table' = [c \in DOMAIN table |-> IF c \in Unused THEN None ELSE table[c]]
  /\ known' = [c \in DOMAIN known |-> IF c \in Unused THEN <<>> ELSE known[c]]
  /\ written' = [c \in DOMAIN written |-> IF c \in Unused THEN <<>> ELSE written[c]]
  /\ inbox' = [c \in Sockets |-> IF c \in Unused THEN <<>> ELSE inbox[c]]
  /\ read' = 0
  /\ lesson' = {}
  /\ UNCHANGED <<listening, timer, teaching, store, definitions, entries, history>>

Exited == Client!Exited /\ UNCHANGED vars

-----------------------------------------------------------------------------
\* The server's steps.
ServerStep == UNCHANGED <<clientVars, conn, read>>

Listen ==
  /\ Server!Listen
  /\ ServerStep /\ UNCHANGED <<inbox, lesson>>

Accept(c) ==
  /\ Opened(c) /\ Server!Accept(c)
  /\ ServerStep /\ UNCHANGED <<inbox, lesson>>

\* node drops a connection that would be one too many; other peers may have
\* taken the other places.
Refuse(c) ==
  /\ Opened(c) /\ phase[c] = "none" /\ Server!Quiet
  /\ phase' = [phase EXCEPT ![c] = "closed"]
  /\ UNCHANGED <<listening, timer, parser, table, known, written, teaching, store,
                 definitions, entries, history>>
  /\ ServerStep /\ UNCHANGED <<inbox, lesson>>

Handle(c, m) ==
  CASE m = "hello"       -> Server!HelloAccepted(c)
    [] m = "syncRequest" -> Server!Teach(c)
    [] m = "ack"         -> Server!AckReceived(c)
    [] OTHER             -> Server!Receiving(c) /\ UNCHANGED serverVars

\* What the store holds, as far as its tables show it.
Shown(n, k) == [name |-> n, key |-> k, values |-> Server!Encoded(n, k).values]
Contents ==
  UNION {{Shown(n, k) : k \in DOMAIN entries[n]} : n \in DOMAIN definitions}

ServerReads(c) ==
  /\ inbox[c] # <<>>
  /\ Handle(c, Head(inbox[c]))
  /\ inbox' = [inbox EXCEPT ![c] = Tail(@)]
  /\ lesson' = IF c = conn /\ Head(inbox[c]) = "syncRequest" THEN {Contents} ELSE lesson
  /\ ServerStep

ServerReadsEnd(c) ==
  /\ ClientGone(c) /\ inbox[c] = <<>>
  /\ Server!RemoteEnd(c)
  /\ ServerStep /\ UNCHANGED <<inbox, lesson>>

ServerSocketError(c) ==
  Server!SocketError(c) /\ ServerStep /\ UNCHANGED <<inbox, lesson>>

ServerHeartbeatUnanswered(c) ==
  timer[c] /\ ClientGone(c) /\ ServerSocketError(c)

ServerCallback(c) ==
  /\ \/ Server!Teaches(c) \/ Server!Established(c)
     \/ Server!ParserError(c) \/ Server!HeartbeatAfterEnd(c)
  /\ ServerStep /\ UNCHANGED <<inbox, lesson>>

ServerSocketClose(c) ==
  /\ Server!SocketClose(c)
  /\ inbox' = [inbox EXCEPT ![c] = <<>>]
  /\ ServerStep /\ UNCHANGED lesson

\* Another peer's definition or update reaches the store.
Feed ==
  /\ store /\ Server!Quiet
  /\ \E d \in Definitions :
       \/ Server!Store!ApplyDefinition(d)
       \/ /\ Server!Store!Applied < MaxUpdates
          /\ \E u \in Updates :
               Server!Fits(u, d) /\ Server!Store!ApplyUpdate(Feeder, d, u)
  /\ UNCHANGED <<listening, phase, timer, parser, table, known, written, teaching,
                 store>>
  /\ ServerStep /\ UNCHANGED <<inbox, lesson>>

-----------------------------------------------------------------------------
Next ==
  \/ Connect \/ ReadStatus \/ ReadPartOfStatus \/ Read \/ ReadEnd
  \/ ClientSocketError \/ ClientListenerThrows
  \/ ClientSocketClose \/ Reconnect \/ Exited
  \/ Listen \/ Feed
  \/ \E c \in Sockets :
       \/ Accept(c) \/ Refuse(c) \/ ServerReads(c) \/ ServerReadsEnd(c)
       \/ ServerSocketError(c) \/ ServerCallback(c) \/ ServerSocketClose(c)

Spec == Init /\ [][Next]_vars

\* Callbacks run, what was written is handled while both ends are there, and
\* each heartbeat timer notices in the end that the other end is gone.
\* Nothing is assumed of the network otherwise: an end of stream need not
\* arrive, nor does a server have to listen, or a client to come back.
ClientProgress == Read \/ ClientHeartbeatUnanswered

ServerProgress(c) ==
  \/ ServerSocketClose(c) \/ ServerHeartbeatUnanswered(c)
  \/ ServerCallback(c) \/ ServerReads(c)

\* A server's callback waits for those of other connections, which take turns.
FairSpec ==
  Spec /\ WF_vars(ClientProgress) /\ \A c \in Sockets : SF_vars(ServerProgress(c))

-----------------------------------------------------------------------------
\* The session as a synchronization.
InSession == state = "ESTABLISHED" /\ socket = "open" /\ ~uncaught

\* The entry a client reads: the table, the types and the word are those of
\* what came before it on the connection.
Fact(i) ==
  LET m == written[conn][i]
      d == Server!ReadUnder(conn, i)
  IN [name |-> d.name, key |-> m.key,
      values |-> [t \in d.types |-> IF t \in Dictionaries
                                    THEN Server!WordRead(conn, i) ELSE m.values[t]]]

Learned  == {Fact(i) : i \in {j \in 1..read : written[conn][j].kind = "entry"}}
Finished == \E i \in 1..read : written[conn][i].kind = "syncPartial"

SyncPhase ==
  CASE ~InSession                              -> "idle"
    [] InSession /\ Finished                   -> "finished"
    [] InSession /\ ~Finished /\ lesson # {}   -> "answered"
    [] InSession /\ ~Finished /\ lesson = {}   -> "asked"

Sync == INSTANCE Synchronization WITH
  contents <- Contents,
  phase    <- SyncPhase,
  lesson   <- IF InSession THEN UNION lesson ELSE {},
  learned  <- IF InSession THEN Learned ELSE {}

\* Where the request of the client's session can be, or the answer to it.
Requests == {i \in DOMAIN inbox[conn] : inbox[conn][i] = "syncRequest"}
Answers  == {i \in DOMAIN written[conn] : written[conn][i].kind = "syncPartial"}

\* As long as the server's end of a session is there and its parser works, the
\* session's one request is in one place: on its way to the server, in the
\* lesson that teach() is in the middle of, or answered by the one end of a
\* synchronization that was written, which the client has read or will.  So a
\* session never waits for what nobody owes it, whether the request came in
\* one chunk with the hello or a lesson broke off, and none is answered twice.
AnsweredOnce ==
  InSession /\ ~ServerGone(conn) /\ parser[conn] = "ok" =>
    Cardinality(Requests) + Cardinality(Answers)
      + (IF Server!InLesson(conn) THEN 1 ELSE 0) = 1

\* What the application is told: a synchronization that finishes has told it
\* what the store held at one moment since the session asked, each entry with
\* its table, its values and its words, whatever changed the store meanwhile,
\* whatever broke off a lesson and whatever older connections still had to
\* say.
Synchronizes == Sync!Spec

\* A session that asked for a synchronization is given one to its end, or is
\* over: a client is not left waiting, by a server without a store either.
SynchronizationSettles == Sync!Settles

\* A session that the client has left, or whose parser has failed, ends at the
\* server too, without a timer and with its place among the connections free,
\* although an end of the stream may never arrive.
SessionsEnd ==
  \A c \in Sockets :
    \/ phase[c] = "established" /\ (ClientGone(c) \/ parser[c] # "ok")
    \/ phase[c] \in {"ending", "destroyed"}
      ~> phase[c] = "closed" /\ ~timer[c]

\* What the comment of PeerServer says: the store is served to peers that
\* synchronize.  A peer of this library, which acknowledges what it is taught,
\* is not disconnected for it.
AcksUnderstood == \A c \in Sockets : parser[c] # "ack"
=============================================================================
