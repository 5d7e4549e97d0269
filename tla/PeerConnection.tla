--------------------------- MODULE PeerConnection ---------------------------
(***************************************************************************)
(* The outgoing peer connection of src/connection.ts: one PeerConnection   *)
(* object over all the sockets it opens, from the constructor's first      *)
(* connect through every close and reconnect.                              *)
(*                                                                         *)
(* A step is one callback of the node event loop: a socket event, a timer, *)
(* a parsed message, or a call of the public start().  start() suspends    *)
(* at `await this.readStatus()'; the promise is settled inside a 'readable'*)
(* or 'error' listener and the continuation runs as a microtask before the *)
(* next callback, so settling and continuing are one step.                 *)
(*                                                                         *)
(* The remote peer is the environment: it answers with any status, sends   *)
(* any message the parser knows, sends garbage, closes or resets at will,  *)
(* or stays silent.  Bytes, names and entry contents are abstracted; what  *)
(* the parser does with bytes is in PeerParser.                            *)
(***************************************************************************)
EXTENDS Naturals, Sequences

CONSTANT MaxWritten     \* bound on `written', for heartbeats and replies

ASSUME MaxWrittenAssumption == MaxWritten \in Nat

VARIABLES
  state,            \* this.state
  socket,           \* phase of this.socket: "connecting", "open", "closing"
                    \* (destroyed or ended, 'close' not emitted yet), "closed"
  starter,          \* the start() suspended on this.socket: "auto" (from
                    \* 'ready', synchronizes), "manual" (a caller's), "none"
  heartbeatTimer,   \* this.heartbeatTimer !== undefined
  intervals,        \* live setInterval handles that run sendHeartbeat
  reconnects,       \* pending setTimeout handles of the 'close' listener
  parser,           \* this.parser: "fresh", "piped" (has been fed), "ended"
  written,          \* messages written to this.socket, in order
  uncaught          \* an exception escaped a listener: the process is gone

vars == <<state, socket, starter, heartbeatTimer, intervals, reconnects,
          parser, written, uncaught>>

States   == {"NOT_STARTED", "AWAITING_HANDSHAKE_REPLY", "ESTABLISHED"}
Phases   == {"connecting", "open", "closing", "closed"}
Outgoing == {"hello", "syncRequest", "syncFinished", "syncConfirmed",
             "ack", "heartbeat"}
Messages == {"heartbeat", "tableDefinition", "syncRequest", "syncPartial",
             "syncFull", "syncConfirmed", "entryUpdate"}

\* Writes before 'connect' are queued by the socket and flushed in order;
\* writes to an ended or destroyed socket go nowhere.
Write(msgs) ==
  written' = IF socket \in {"connecting", "open"} THEN written \o msgs
                                                  ELSE written

-----------------------------------------------------------------------------
\* The heartbeat timer: what clearInterval and setInterval leave alive.

\* Operators named <definition>_<fault> are faulty variants of a definition:
\* each breaks one property, which shows that the property can fail.
ClearHeartbeat_Forgotten == intervals
ClearHeartbeat_Unchecked == intervals - 1

\* The 'close' listener clears the timer it finds.
ClearHeartbeat == IF heartbeatTimer THEN intervals - 1 ELSE intervals

\* resetHeartbeatTimer: nothing without a timer, else clear and set again.
ResetHeartbeatTimer ==
  IF heartbeatTimer THEN (intervals - 1) + 1 ELSE intervals

Init ==
  /\ state = "NOT_STARTED"
  /\ socket = "connecting"
  /\ starter = "none"
  /\ heartbeatTimer = FALSE
  /\ intervals = 0
  /\ reconnects = 0
  /\ parser = "fresh"
  /\ written = <<>>
  /\ uncaught = FALSE

-----------------------------------------------------------------------------
\* start(), up to its await.  In any other state it throws before it does
\* anything, and leaves the socket alone.
Start(who) ==
  IF state = "NOT_STARTED"
  THEN /\ Write(<<"hello">>)
       /\ state' = "AWAITING_HANDSHAKE_REPLY"
       /\ starter' = IF socket \in {"connecting", "open"} THEN who ELSE "none"
  ELSE UNCHANGED <<state, starter, written>>

\* 'ready': the socket is connected and the object starts itself.
Ready ==
  /\ ~uncaught
  /\ socket = "connecting"
  /\ socket' = "open"
  /\ Start("auto")
  /\ UNCHANGED <<heartbeatTimer, intervals, reconnects, parser, uncaught>>

\* start() is public: the application may call it too, whatever the socket
\* is doing.  On a dead socket its promise never settles.
CallStart ==
  /\ ~uncaught
  /\ state = "NOT_STARTED"
  /\ Start("manual")
  /\ UNCHANGED <<socket, heartbeatTimer, intervals, reconnects, parser,
                 uncaught>>

\* The whole status line is readable and says 200.  The new timer replaces
\* whatever heartbeatTimer held; the synchronization request that follows
\* resets that new timer, which leaves the count of live ones alone.
StatusAccepted ==
  /\ ~uncaught
  /\ socket = "open" /\ starter # "none"
  /\ parser' = "piped"
  /\ state' = "ESTABLISHED"
  /\ heartbeatTimer' = TRUE
  /\ intervals' = intervals + 1
  /\ Write(IF starter = "auto" THEN <<"syncRequest">> ELSE <<>>)
  /\ starter' = "none"
  /\ UNCHANGED <<socket, reconnects, uncaught>>

\* Any other number: start() destroys the socket and rejects.
StatusRejected ==
  /\ ~uncaught
  /\ socket = "open" /\ starter # "none"
  /\ socket' = "closing"
  /\ starter' = "none"
  /\ UNCHANGED <<state, heartbeatTimer, intervals, reconnects, parser,
                 written, uncaught>>

\* 'readable' with less than a line to read: the first bytes of a status
\* line, or the end of the stream.  The listener throws outside the promise.
StatusIncomplete ==
  /\ ~uncaught
  /\ socket = "open" /\ starter # "none"
  /\ uncaught' = TRUE
  /\ UNCHANGED <<state, socket, starter, heartbeatTimer, intervals,
                 reconnects, parser, written>>

\* 'error' on the socket (refused, reset); it is already destroyed, and a
\* start() waiting for the status is rejected.
SocketError ==
  /\ ~uncaught
  /\ socket \in {"connecting", "open"}
  /\ socket' = "closing"
  /\ starter' = "none"
  /\ UNCHANGED <<state, heartbeatTimer, intervals, reconnects, parser,
                 written, uncaught>>

\* The remote peer ends an established stream: pipe() ends the parser and
\* the socket ends itself.
RemoteEnd ==
  /\ ~uncaught
  /\ socket = "open" /\ state = "ESTABLISHED"
  /\ socket' = "closing"
  /\ parser' = "ended"
  /\ UNCHANGED <<state, starter, heartbeatTimer, intervals, reconnects,
                 written, uncaught>>

\* What onParserMessage writes back for a message.
Reply(m) ==
  CASE m = "syncRequest"                 -> <<"syncFinished">>
    [] m \in {"syncPartial", "syncFull"} -> <<"syncConfirmed">>
    [] m = "entryUpdate"                 -> <<"ack">>
    [] OTHER                             -> <<>>

\* 'data' on the parser.  Every reply resets the heartbeat timer.
OnParserMessage(m) ==
  /\ ~uncaught
  /\ socket = "open" /\ state = "ESTABLISHED" /\ parser = "piped"
  /\ Len(written) < MaxWritten
  /\ Write(Reply(m))
  /\ intervals' = IF Reply(m) = <<>> THEN intervals ELSE ResetHeartbeatTimer
  /\ UNCHANGED <<state, socket, starter, heartbeatTimer, reconnects, parser,
                 uncaught>>

\* 'error' on the parser: the stream is not one it understands, or a
\* listener of one of its messages threw.
ParserError ==
  /\ ~uncaught
  /\ socket = "open" /\ state = "ESTABLISHED" /\ parser = "piped"
  /\ socket' = "closing"
  /\ parser' = "ended"
  /\ UNCHANGED <<state, starter, heartbeatTimer, intervals, reconnects,
                 written, uncaught>>

\* A live interval fires.  The callback writes to this.socket, whichever
\* socket that is by now.
SendHeartbeat ==
  /\ ~uncaught
  /\ intervals > 0
  /\ socket \in {"connecting", "open"}
  /\ Len(written) < MaxWritten
  /\ Write(<<"heartbeat">>)
  /\ UNCHANGED <<state, socket, starter, heartbeatTimer, intervals,
                 reconnects, parser, uncaught>>

\* 'close' on the socket.  The state is left as it is until the reconnect.
SocketClose ==
  /\ ~uncaught
  /\ socket = "closing"
  /\ socket' = "closed"
  /\ intervals' = ClearHeartbeat
  /\ heartbeatTimer' = FALSE
  /\ reconnects' = reconnects + 1
  /\ UNCHANGED <<state, starter, parser, written, uncaught>>

TimersLeft_Repeating     == reconnects      \* setInterval for setTimeout
StateOnReconnect_Kept    == state
ParserOnReconnect_Reused == parser

\* What the reconnect callback does to the object besides connecting.
TimersLeft        == reconnects - 1
StateOnReconnect  == "NOT_STARTED"
ParserOnReconnect == "fresh"

Reconnect ==
  /\ ~uncaught
  /\ reconnects > 0
  /\ reconnects' = TimersLeft
  /\ state' = StateOnReconnect
  /\ parser' = ParserOnReconnect
  /\ socket' = "connecting"
  /\ starter' = "none"
  /\ written' = <<>>
  /\ UNCHANGED <<heartbeatTimer, intervals, uncaught>>

\* Nothing runs after an uncaught exception.
Exited == uncaught /\ UNCHANGED vars

Outage == SocketError \/ RemoteEnd \/ StatusRejected \/ ParserError

Next ==
  \/ Ready \/ CallStart
  \/ StatusAccepted \/ StatusIncomplete
  \/ \E m \in Messages : OnParserMessage(m)
  \/ Outage
  \/ SendHeartbeat
  \/ SocketClose \/ Reconnect
  \/ Exited

Spec == Init /\ [][Next]_vars

\* The event loop delivers 'close' and fires due timers, and the operating
\* system completes or fails a connection attempt.
LocalFairness ==
  /\ WF_vars(SocketClose) /\ WF_vars(Reconnect)
  /\ WF_vars(Ready \/ (socket = "connecting" /\ SocketError))

\* A remote peer that answers: a hello it receives is accepted in the end.
RemoteFairness == WF_vars(StatusAccepted)

FairSpec       == Spec /\ LocalFairness
FairRemoteSpec == FairSpec /\ RemoteFairness

-----------------------------------------------------------------------------
\* Type invariant of the object's fields and of the runtime's handles.
TypeOK ==
  /\ state \in States
  /\ socket \in Phases
  /\ starter \in {"none", "auto", "manual"}
  /\ heartbeatTimer \in BOOLEAN
  /\ intervals \in Nat
  /\ reconnects \in Nat
  /\ parser \in {"fresh", "piped", "ended"}
  /\ written \in Seq(Outgoing)
  /\ uncaught \in BOOLEAN

\* No heartbeat interval outlives the field that can clear it: over any
\* number of sessions, resets and closes there is one live interval when
\* heartbeatTimer is set and none otherwise.
HeartbeatOwned == intervals = IF heartbeatTimer THEN 1 ELSE 0

\* The object always has exactly one way forward: a socket that will still
\* emit 'close', or one pending reconnect.  Two would make two connections
\* that share the object's fields; none would leave it dead for good.
OneLifeline == reconnects = IF socket = "closed" THEN 1 ELSE 0

\* On every socket the hello comes first and once, and nothing follows it
\* before the peer has accepted it: neither a heartbeat of an older session
\* nor a second start() gets in between.
HelloFirst ==
  /\ written # <<>> => written[1] = "hello"
  /\ \A i \in 2..Len(written) : written[i] # "hello"
  /\ Len(written) > 1 => state = "ESTABLISHED"

\* A session begins with a parser no byte of an earlier connection went
\* through (the table definition, update id and dictionary it remembers are
\* those of one connection), on a socket that is still there.
FreshParserPerSession ==
  [][state # "ESTABLISHED" /\ state' = "ESTABLISHED"
       => parser = "fresh" /\ parser' = "piped" /\ socket' = "open"]_vars

\* How the fields fit together between callbacks, which the code relies on and
\* never checks: a timer runs exactly through a session's socket, a start()
\* is pending exactly while an answer may come, and the parser is unused
\* exactly until the session begins.
FieldsAgree ==
  /\ heartbeatTimer <=> state = "ESTABLISHED" /\ socket \in {"open", "closing"}
  /\ starter # "none" <=> /\ state = "AWAITING_HANDSHAKE_REPLY"
                          /\ socket \in {"connecting", "open"}
  /\ parser = "fresh" <=> state # "ESTABLISHED"
  /\ socket = "connecting" => state # "ESTABLISHED"
  /\ socket = "open" => state # "NOT_STARTED"
  /\ state = "NOT_STARTED" => written = <<>>
  /\ starter # "none" => written = <<"hello">>
  /\ state = "ESTABLISHED" => Len(written) > 0

InSession == state = "ESTABLISHED" /\ socket = "open"

\* If outages stop, an answering peer is in the end connected for good,
\* whatever the object went through before and whenever start() was called.
Recovers == <>[][~Outage]_vars => <>[](InSession \/ uncaught)

\* What the error paths of readStatus and start intend: a handshake that
\* fails is a rejected promise and an 'error' event, never an exception
\* that leaves a listener.
HandshakeErrorsAreRejections == ~uncaught

\* What the 'timeout' listener intends: a peer that does not answer the
\* hello does not keep the connection waiting for ever.
HandshakeSettles ==
  (state = "AWAITING_HANDSHAKE_REPLY" /\ socket = "open")
    ~> (state = "ESTABLISHED" \/ socket # "open" \/ uncaught)
=============================================================================
