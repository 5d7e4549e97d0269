------------------------ MODULE PeerConnectionProofs ------------------------
(***************************************************************************)
(* Safety of PeerConnection for every bound MaxWritten.                    *)
(*                                                                         *)
(* None of the four invariants is inductive alone.  That intervals counts  *)
(* one handle per set timer is kept by StatusAccepted only if no timer is  *)
(* set when a session begins, and that nothing precedes the hello only if  *)
(* an object that may still start has written nothing; FieldsAgree has     *)
(* both.  IInv is the conjunction.                                         *)
(***************************************************************************)
EXTENDS PeerConnection, TLAPS

IInv == /\ TypeOK
        /\ FieldsAgree
        /\ HeartbeatOwned
        /\ OneLifeline
        /\ HelloFirst

\* The logs of zero and of one message.
LEMMA ShortLogs ==
  /\ <<>> \in Seq(Outgoing) /\ Len(<<>>) = 0
  /\ \A x \in Outgoing : /\ <<x>> \in Seq(Outgoing)
                         /\ Len(<<x>>) = 1 /\ <<x>>[1] = x
                         /\ <<>> \o <<x>> = <<x>>
<1>1. <<>> \in Seq(Outgoing) /\ Len(<<>>) = 0
  OBVIOUS
<1>2. ASSUME NEW x \in Outgoing
      PROVE  /\ <<x>> \in Seq(Outgoing)
             /\ Len(<<x>>) = 1 /\ <<x>>[1] = x
             /\ <<>> \o <<x>> = <<x>>
  OBVIOUS
<1> QED BY <1>1, <1>2

\* A socket's log stays a log of outgoing messages, whatever is written.
LEMMA WriteType ==
  ASSUME TypeOK, NEW msgs \in Seq(Outgoing), Write(msgs)
  PROVE  written' \in Seq(Outgoing)
BY DEF TypeOK, Write

\* A reply is a sequence of at most one message and never a hello.
LEMMA ReplyShape ==
  ASSUME NEW m \in Messages
  PROVE  /\ Reply(m) \in Seq(Outgoing)
         /\ \A i \in 1..Len(Reply(m)) : Reply(m)[i] # "hello"
<1>1. \/ Reply(m) = <<>>
      \/ \E x \in Outgoing : x # "hello" /\ Reply(m) = <<x>>
  BY DEF Reply, Messages, Outgoing
<1>2. CASE Reply(m) = <<>>
  BY <1>2, ShortLogs
<1>3. ASSUME NEW x \in Outgoing, x # "hello", Reply(m) = <<x>>
      PROVE  /\ Reply(m) \in Seq(Outgoing)
             /\ \A i \in 1..Len(Reply(m)) : Reply(m)[i] # "hello"
  <2>1. Len(Reply(m)) = 1 /\ Reply(m)[1] = x
    BY <1>3, ShortLogs
  <2> QED BY <1>3, <2>1, ShortLogs
<1> QED BY <1>1, <1>2, <1>3

\* Appending messages other than a hello to the log of an established
\* session keeps the hello first and alone.
LEMMA AppendKeepsHello ==
  ASSUME TypeOK, FieldsAgree, HelloFirst,
         state = "ESTABLISHED", state' = state,
         NEW msgs \in Seq(Outgoing),
         \A i \in 1..Len(msgs) : msgs[i] # "hello",
         Write(msgs)
  PROVE  HelloFirst' /\ Len(written') > 0
<1>1. written \in Seq(Outgoing) /\ Len(written) > 0
  BY DEF TypeOK, FieldsAgree
<1>2. CASE written' = written
  BY <1>1, <1>2 DEF HelloFirst
<1>3. CASE written' = written \o msgs
  <2>1. /\ Len(written \o msgs) = Len(written) + Len(msgs)
        /\ \A i \in 1..(Len(written) + Len(msgs)) :
             (written \o msgs)[i] = IF i <= Len(written)
                                    THEN written[i] ELSE msgs[i - Len(written)]
    BY <1>1
  <2>2. written'[1] = "hello" /\ Len(written') > 0
    BY <1>1, <1>3, <2>1 DEF HelloFirst
  <2>3. \A i \in 2..Len(written') : written'[i] # "hello"
    <3> TAKE i \in 2..Len(written')
    <3>1. CASE i <= Len(written)
      BY <1>1, <1>3, <2>1, <3>1 DEF HelloFirst
    <3>2. CASE i > Len(written)
      <4>1. i - Len(written) \in 1..Len(msgs)
        BY <1>1, <1>3, <2>1, <3>2
      <4>2. written'[i] = msgs[i - Len(written)]
        BY <1>1, <1>3, <2>1, <3>2
      <4> QED BY <4>1, <4>2
    <3> QED BY <1>1, <3>1, <3>2
  <2> QED BY <2>2, <2>3 DEF HelloFirst
<1> QED BY <1>2, <1>3 DEF Write

-----------------------------------------------------------------------------
\* The first state satisfies the inductive invariant.
LEMMA InitIInv == Init => IInv
<1> SUFFICES ASSUME Init PROVE IInv
  OBVIOUS
<1>1. TypeOK
  BY ShortLogs DEF Init, TypeOK, States, Phases
<1>2. written = <<>> /\ Len(written) = 0
  BY DEF Init
<1>3. FieldsAgree /\ HelloFirst
  BY <1>2 DEF Init, FieldsAgree, HelloFirst
<1>4. HeartbeatOwned /\ OneLifeline
  BY DEF Init, HeartbeatOwned, OneLifeline
<1> QED BY <1>1, <1>3, <1>4 DEF IInv

\* Every callback preserves it.
LEMMA StepIInv == IInv /\ [Next]_vars => IInv'
<1> SUFFICES ASSUME IInv, [Next]_vars PROVE IInv'
  OBVIOUS
<1> USE DEF IInv, States, Phases
<1>1. CASE Ready
  <2>1. \/ /\ state = "NOT_STARTED" /\ state' = "AWAITING_HANDSHAKE_REPLY"
           /\ written' = <<"hello">> /\ starter' = "auto"
        \/ /\ state = "AWAITING_HANDSHAKE_REPLY"
           /\ UNCHANGED <<state, starter, written>>
    BY <1>1, ShortLogs DEF Ready, Start, Write, TypeOK, FieldsAgree, Outgoing
  <2>2. TypeOK' /\ FieldsAgree'
    BY <1>1, <2>1, ShortLogs DEF Ready, TypeOK, FieldsAgree, Outgoing
  <2>3. HelloFirst'
    BY <2>1, ShortLogs DEF HelloFirst, Outgoing
  <2>4. HeartbeatOwned' /\ OneLifeline'
    BY <1>1 DEF Ready, HeartbeatOwned, OneLifeline
  <2> QED BY <2>2, <2>3, <2>4
<1>2. CASE CallStart
  <2>1. \/ /\ socket \in {"connecting", "open"}
           /\ written' = <<"hello">> /\ starter' = "manual"
        \/ /\ socket \in {"closing", "closed"}
           /\ written' = <<>> /\ starter' = "none"
    BY <1>2, ShortLogs DEF CallStart, Start, Write, TypeOK, FieldsAgree, Outgoing
  <2>2. TypeOK' /\ FieldsAgree'
    BY <1>2, <2>1, ShortLogs
    DEF CallStart, Start, TypeOK, FieldsAgree, Outgoing
  <2>4. HelloFirst'
    <3>1. CASE written' = <<"hello">>
      BY <3>1, ShortLogs DEF HelloFirst, Outgoing
    <3>2. CASE written' = <<>>
      BY <3>2, ShortLogs DEF HelloFirst
    <3> QED BY <2>1, <3>1, <3>2
  <2>3. HeartbeatOwned' /\ OneLifeline'
    BY <1>2 DEF CallStart, HeartbeatOwned, OneLifeline
  <2> QED BY <2>2, <2>3, <2>4
<1>3. CASE StatusAccepted
  <2>1. /\ written = <<"hello">>
        /\ \/ written' = written \o <<"syncRequest">>
           \/ written' = written \o <<>>
    BY <1>3 DEF StatusAccepted, Write, TypeOK, FieldsAgree
  <2>2. written' \in {<<"hello">>, <<"hello", "syncRequest">>}
    BY <2>1
  <2>4. /\ written' \in Seq(Outgoing) /\ Len(written') \in 1..2
        /\ written'[1] = "hello"
        /\ Len(written') = 2 => written'[2] = "syncRequest"
    <3>1. CASE written' = <<"hello">>
      BY <3>1, ShortLogs DEF Outgoing
    <3>2. CASE written' = <<"hello", "syncRequest">>
      BY <3>2 DEF Outgoing
    <3> QED BY <2>2, <3>1, <3>2
  <2>5. TypeOK' /\ FieldsAgree'
    BY <1>3, <2>4 DEF StatusAccepted, TypeOK, FieldsAgree
  <2>6. HelloFirst'
    BY <1>3, <2>4 DEF StatusAccepted, HelloFirst
  <2>3. HeartbeatOwned' /\ OneLifeline'
    BY <1>3 DEF StatusAccepted, TypeOK, FieldsAgree, HeartbeatOwned,
                OneLifeline
  <2> QED BY <2>3, <2>5, <2>6
<1>4. CASE StatusIncomplete
  BY <1>4 DEF StatusIncomplete, TypeOK, FieldsAgree, HeartbeatOwned,
              OneLifeline, HelloFirst
<1>5. ASSUME NEW m \in Messages, OnParserMessage(m) PROVE IInv'
  <2>1. TypeOK'
    BY <1>5, WriteType, ReplyShape
    DEF OnParserMessage, ResetHeartbeatTimer, TypeOK, HeartbeatOwned
  <2>2. HelloFirst' /\ Len(written') > 0
    BY <1>5, ReplyShape, AppendKeepsHello DEF OnParserMessage
  <2>3. FieldsAgree' /\ OneLifeline'
    BY <1>5, <2>2 DEF OnParserMessage, TypeOK, FieldsAgree, OneLifeline
  <2>4. HeartbeatOwned'
    BY <1>5 DEF OnParserMessage, ResetHeartbeatTimer, TypeOK, HeartbeatOwned
  <2> QED BY <2>1, <2>2, <2>3, <2>4
<1>6. CASE Outage
  BY <1>6 DEF Outage, SocketError, RemoteEnd, StatusRejected, ParserError,
              TypeOK, FieldsAgree, HeartbeatOwned, OneLifeline, HelloFirst
<1>7. CASE SendHeartbeat
  <2>1. state = "ESTABLISHED"
    BY <1>7 DEF SendHeartbeat, TypeOK, FieldsAgree, HeartbeatOwned
  <2>2. /\ <<"heartbeat">> \in Seq(Outgoing)
        /\ \A i \in 1..Len(<<"heartbeat">>) : <<"heartbeat">>[i] # "hello"
    BY ShortLogs DEF Outgoing
  <2>3. TypeOK'
    BY <1>7, <2>2, WriteType DEF SendHeartbeat, TypeOK
  <2>4. HelloFirst' /\ Len(written') > 0
    BY <1>7, <2>1, <2>2, AppendKeepsHello DEF SendHeartbeat
  <2>5. FieldsAgree' /\ HeartbeatOwned' /\ OneLifeline'
    BY <1>7, <2>1, <2>4
    DEF SendHeartbeat, TypeOK, FieldsAgree, HeartbeatOwned, OneLifeline
  <2> QED BY <2>3, <2>4, <2>5
<1>8. CASE SocketClose
  <2>1. intervals' = 0
    BY <1>8 DEF SocketClose, ClearHeartbeat, TypeOK, HeartbeatOwned
  <2>2. reconnects' = 1
    BY <1>8 DEF SocketClose, OneLifeline
  <2>3. TypeOK' /\ FieldsAgree'
    <3>1. /\ starter = "none" /\ socket' = "closed" /\ heartbeatTimer' = FALSE
          /\ UNCHANGED <<state, starter, parser, written, uncaught>>
      BY <1>8 DEF SocketClose, TypeOK, FieldsAgree
    <3>2. TypeOK'
      BY <2>1, <2>2, <3>1 DEF TypeOK
    <3>3. FieldsAgree'
      BY <3>1 DEF FieldsAgree
    <3> QED BY <3>2, <3>3
  <2>4. HeartbeatOwned' /\ OneLifeline' /\ HelloFirst'
    BY <1>8, <2>1, <2>2
    DEF SocketClose, HeartbeatOwned, OneLifeline, HelloFirst
  <2> QED BY <2>3, <2>4
<1>9. CASE Reconnect
  BY <1>9 DEF Reconnect, TimersLeft, StateOnReconnect, ParserOnReconnect,
              TypeOK, FieldsAgree, HeartbeatOwned, OneLifeline, HelloFirst
<1>10. CASE UNCHANGED vars
  BY <1>10 DEF vars, TypeOK, FieldsAgree, HeartbeatOwned, OneLifeline,
               HelloFirst
<1> QED
  BY <1>1, <1>2, <1>3, <1>4, <1>5, <1>6, <1>7, <1>8, <1>9, <1>10
  DEF Next, Exited

\* The fields are well typed and agree, in every state of every run.
THEOREM Invariance == Spec => []IInv
BY InitIInv, StepIInv, PTL DEF Spec

\* The fields keep their types.
THEOREM TypeCorrect == Spec => []TypeOK
<1>1. IInv => TypeOK
  BY DEF IInv
<1> QED BY <1>1, Invariance, PTL

\* The fields agree: the assumptions the callbacks make of each other.
THEOREM FieldsConsistent == Spec => []FieldsAgree
<1>1. IInv => FieldsAgree
  BY DEF IInv
<1> QED BY <1>1, Invariance, PTL

\* Every heartbeat interval that is alive is the one the object can clear:
\* close and reconnect leak no timer and clear none twice.
THEOREM NoLeakedHeartbeat == Spec => []HeartbeatOwned
<1>1. IInv => HeartbeatOwned
  BY DEF IInv
<1> QED BY <1>1, Invariance, PTL

\* There is one reconnect pending when the socket is closed and none when it
\* is not: the object never dies and never runs two connections.
THEOREM SingleLifeline == Spec => []OneLifeline
<1>1. IInv => OneLifeline
  BY DEF IInv
<1> QED BY <1>1, Invariance, PTL

\* What a peer reads on a connection begins with the one hello.
THEOREM HelloComesFirst == Spec => []HelloFirst
<1>1. IInv => HelloFirst
  BY DEF IInv
<1> QED BY <1>1, Invariance, PTL

\* A session begins on a live socket with a parser that has read nothing.
THEOREM SessionParserIsFresh == Spec => FreshParserPerSession
<1>1. ASSUME IInv, [Next]_vars
      PROVE  [state # "ESTABLISHED" /\ state' = "ESTABLISHED"
                => parser = "fresh" /\ parser' = "piped" /\ socket' = "open"]_vars
  <2> SUFFICES ASSUME Next, state # "ESTABLISHED", state' = "ESTABLISHED"
               PROVE  parser = "fresh" /\ parser' = "piped" /\ socket' = "open"
    BY <1>1
  <2>1. StatusAccepted
    BY DEF Next, Ready, CallStart, Start, StatusIncomplete, OnParserMessage,
           Outage, SocketError, RemoteEnd, StatusRejected, ParserError,
           SendHeartbeat, SocketClose, Reconnect, StateOnReconnect, Exited,
           vars
  <2> QED BY <1>1, <2>1 DEF StatusAccepted, IInv, FieldsAgree
<1> QED BY <1>1, Invariance, PTL DEF Spec, FreshParserPerSession
=============================================================================
