-------------------------- MODULE PeerServerProofs ---------------------------
(***************************************************************************)
(* Theorems of PeerServer: the invariants that its runs check, and that what *)
(* it does to its store is what StickTableStore specifies.                 *)
(*                                                                         *)
(* IInv at the end is the inductive invariant.  MidLesson and LessonsRead  *)
(* say how far a lesson is, Greeted ties the phase of a connection to what is *)
(* written to it, and WordsKept ties its dictionary to the entries.        *)
(***************************************************************************)
EXTENDS PeerServerLessons

(* The greeting. *)

\* The status, and what may follow it.
Greeted(c) ==
  /\ phase[c] \in {"none", "hello"} => written[c] = <<>>
  /\ phase[c] \in {"greeting", "established"} =>
       Len(written[c]) > 0 /\ written[c][1].code = Success
  /\ Len(written[c]) > 1 => written[c][1].code = Success
  /\ \A i \in DOMAIN written[c] : written[c][i].kind = "status" <=> i = 1

\* What a step says, and on what connection.
LEMMA Said ==
  ASSUME Types, MidLesson, [Next]_vars
  PROVE  \/ UNCHANGED written
         \/ \E c \in Conns : \E m :
              /\ Write(c, m) /\ m.kind # "status"
              /\ UNCHANGED phase /\ phase[c] \in {"greeting", "established"}
         \/ \E c \in Conns : Greets(c)
<1>1. ASSUME NEW c \in Conns,
             Heartbeat(c) \/ OnSynchronizationDone(c)
      PROVE  \E m : /\ Write(c, m) /\ m.kind # "status"
                    /\ UNCHANGED phase /\ phase[c] \in {"greeting", "established"}
  <2>1. \E type \in ControlTypes : Write(c, Control(type))
    BY <1>1 DEF Heartbeat, OnSynchronizationDone, ControlTypes
  <2>2. UNCHANGED phase /\ phase[c] \in {"greeting", "established"}
    BY <1>1 DEF Heartbeat, OnSynchronizationDone, Receiving
  <2> QED
    BY <2>1, <2>2 DEF Control, ControlTypes
<1>2. ASSUME NEW c \in Conns, NEW u \in Updates, OnEntryUpdate(c, u) \/ MergeThrows(c, u)
      PROVE  \E m : /\ Write(c, m) /\ m.kind # "status"
                    /\ UNCHANGED phase /\ phase[c] \in {"greeting", "established"}
  <2>1. /\ Write(c, Ack(table[c], u))
        /\ UNCHANGED phase /\ phase[c] \in {"greeting", "established"}
    BY <1>2, UpdateStep DEF OnEntryUpdate, MergeThrows
  <2> QED
    BY <2>1 DEF Ack
<1>3. ASSUME NEW c \in Conns,
             \/ \E d \in Definitions : OnTableDefinition(c, d)
             \/ Teach(c) \/ TeachThrows(c)
      PROVE  UNCHANGED written
  BY <1>3 DEF OnTableDefinition, Teach, TeachThrows, BrokenOff
<1>4. ASSUME NEW c \in Conns, TeachTable(c) \/ TeachEntry(c) \/ TeachEnd(c)
      PROVE  \E m : /\ Write(c, m) /\ m.kind # "status"
                    /\ UNCHANGED phase /\ phase[c] \in {"greeting", "established"}
  <2>1. InLesson(c) /\ UNCHANGED phase
    BY <1>4 DEF TeachTable, TeachEntry, TeachEnd
  <2>2. phase[c] \in {"greeting", "established"}
    BY <2>1, InLessonIs
  <2>3. CASE TeachTable(c)
    <3>1. PICK n \in teaching.tables : Write(c, Definition(definitions[n]))
      BY <2>3 DEF TeachTable, TellDefinition
    <3> QED
      BY <2>1, <2>2, <3>1 DEF Definition
  <2>4. CASE TeachEntry(c)
    <3>1. PICK k \in teaching.keys : Write(c, InCode(known[c], Encoded(teaching.name, k)))
      BY <2>4 DEF TeachEntry
    <3>2. known[c] \in Seq(Words)
      BY DEF Types
    <3>3. InCode(known[c], Encoded(teaching.name, k)).kind = "entry"
      BY <2>1, <3>2, InLessonIs, EntryInCode
    <3> QED
      BY <2>1, <2>2, <3>1, <3>3
  <2>5. CASE TeachEnd(c)
    <3>1. Write(c, Control("syncPartial"))
      BY <2>5 DEF TeachEnd, TellEnd
    <3> QED
      BY <2>1, <2>2, <3>1 DEF Control
  <2> QED
    BY <1>4, <2>3, <2>4, <2>5
<1>5. Unsaid => UNCHANGED written
  BY DEF Unsaid
<1> QED
  BY <1>1, <1>2, <1>3, <1>4, <1>5, Steps DEF Teaches

\* The phases that connections leave without a word.
LEMMA Leaves ==
  ASSUME Types, [Next]_vars, NEW c \in Conns
  PROVE  \/ phase'[c] = phase[c]
         \/ phase[c] = "none" /\ phase'[c] = "hello"
         \/ Greets(c)
         \/ phase[c] = "greeting" /\ phase'[c] = "established"
         \/ phase'[c] \in {"ending", "destroyed", "closed"}
<1>1. CASE UNCHANGED phase
  BY <1>1
<1>2. ASSUME NEW o \in Conns,
             \/ Greets(o) \/ Accept(o) \/ Established(o)
             \/ ParserError(o) \/ HeartbeatAfterEnd(o) \/ RemoteEnd(o)
             \/ SocketError(o) \/ SocketClose(o)
      PROVE  \E p : /\ phase' = [phase EXCEPT ![o] = p]
                    /\ \/ phase[o] = "none" /\ p = "hello"
                       \/ Greets(o)
                       \/ phase[o] = "greeting" /\ p = "established"
                       \/ p \in {"ending", "destroyed", "closed"}
  <2>1. CASE Accept(o) \/ Established(o)
    BY <2>1 DEF Accept, Established
  <2>2. CASE Greets(o)
    BY <2>2 DEF Greets, HelloAccepted, HelloRejected
  <2>3. CASE ParserError(o) \/ HeartbeatAfterEnd(o) \/ RemoteEnd(o)
             \/ SocketError(o) \/ SocketClose(o)
    BY <2>3 DEF ParserError, PhaseAfterError, HeartbeatAfterEnd, RemoteEnd, SocketError,
      SocketClose
  <2> QED
    BY <1>2, <2>1, <2>2, <2>3
<1>3. CASE \E o \in Conns :
             \/ Greets(o) \/ Accept(o) \/ Established(o)
             \/ ParserError(o) \/ HeartbeatAfterEnd(o) \/ RemoteEnd(o)
             \/ SocketError(o) \/ SocketClose(o)
  <2>1. PICK o \in Conns : \E p :
                 /\ phase' = [phase EXCEPT ![o] = p]
                 /\ \/ phase[o] = "none" /\ p = "hello"
                    \/ Greets(o)
                    \/ phase[o] = "greeting" /\ p = "established"
                    \/ p \in {"ending", "destroyed", "closed"}
    BY <1>2, <1>3
  <2>2. c = o \/ phase'[c] = phase[c]
    BY <2>1 DEF Types
  <2> QED
    BY <2>1, <2>2 DEF Types
<1>4. ASSUME NEW o \in Conns,
             OnParserMessage(o) \/ ParseFails(o) \/ AckReceived(o) \/ Heartbeat(o)
      PROVE  UNCHANGED phase
  BY <1>4 DEF OnParserMessage, OnTableDefinition, OnEntryUpdate, UpdateReceived,
    MergeThrows, Teach, OnSynchronizationDone, ParseFails, AckReceived, Heartbeat
<1>5. ASSUME NEW o \in Conns, Teaches(o)
      PROVE  UNCHANGED phase
  BY <1>5 DEF Teaches, TeachTable, TeachEntry, TeachThrows, TeachEnd
<1>6. CASE Listen \/ Close \/ Finished \/ UNCHANGED vars
  BY <1>1, <1>6 DEF Listen, Close, Finished, vars
<1> QED
  BY <1>1, <1>3, <1>4, <1>5, <1>6 DEF Next, Greets

\* Every step keeps the order of the greeting.
LEMMA GreetedStep ==
  ASSUME Types, MidLesson, \A c \in Conns : Greeted(c), [Next]_vars
  PROVE  \A c \in Conns : Greeted(c)'
<1> SUFFICES ASSUME NEW c \in Conns PROVE Greeted(c)'
  OBVIOUS
<1>1. CASE written'[c] = written[c] /\ ~Greets(c)
  BY <1>1, Leaves DEF Greeted
<1>2. CASE Greets(c)
  <2>1. PICK code \in Rejections \cup {Success} :
          /\ Write(c, Status(code))
          /\ phase[c] = "hello"
          /\ phase'[c] \in {"greeting", "destroyed"}
          /\ phase'[c] = "greeting" => code = Success
    BY <1>2 DEF Greets, HelloAccepted, HelloRejected, Types
  <2>2. written[c] = <<>>
    BY <2>1 DEF Greeted
  <2>3. Len(written[c]) = 0
    BY <2>2
  <2>4. /\ DOMAIN written'[c] = 1..(Len(written[c]) + 1)
        /\ Len(written'[c]) = Len(written[c]) + 1
        /\ written'[c][Len(written[c]) + 1] = Status(code)
    BY <2>1, WriteStep
  <2>5. /\ DOMAIN written'[c] = 1..1 /\ Len(written'[c]) = 1
        /\ written'[c][1] = Status(code)
    BY <2>3, <2>4
  <2> QED
    BY <2>1, <2>5 DEF Greeted, Status
<1>3. ASSUME NEW m, Write(c, m), m.kind # "status",
             UNCHANGED phase, phase[c] \in {"greeting", "established"}
      PROVE  Greeted(c)'
  <2>1. /\ Len(written[c]) \in Nat /\ DOMAIN written[c] = 1..Len(written[c])
        /\ Len(written'[c]) = Len(written[c]) + 1
        /\ DOMAIN written'[c] = 1..(Len(written[c]) + 1)
        /\ \A i \in 1..Len(written[c]) : written'[c][i] = written[c][i]
        /\ written'[c][Len(written[c]) + 1] = m
    BY <1>3, WriteStep
  <2>2. Len(written[c]) > 0 /\ written[c][1].code = Success
    BY <1>3 DEF Greeted
  <2>3. written'[c][1].code = Success
    BY <2>1, <2>2
  <2>4. \A i \in DOMAIN written[c] : written[c][i].kind = "status" <=> i = 1
    BY DEF Greeted
  <2>5. \A i \in DOMAIN written'[c] : written'[c][i].kind = "status" <=> i = 1
    BY <1>3, <2>1, <2>2, <2>4
  <2> QED
    BY <1>3, <2>1, <2>2, <2>3, <2>5 DEF Greeted
<1>4. ASSUME NEW o \in Conns, o # c, NEW m, Write(o, m)
      PROVE  written'[c] = written[c]
  BY <1>4, WriteStep
<1>5. ASSUME NEW o \in Conns, Greets(o)
      PROVE  \E m : Write(o, m)
  BY <1>5 DEF Greets, HelloAccepted, HelloRejected
<1> QED
  BY <1>1, <1>2, <1>3, <1>4, <1>5, Said

\* The order of the greeting is what StatusFirst says.
LEMMA GreetedImplies == Types /\ (\A c \in Conns : Greeted(c)) => StatusFirst
<1> SUFFICES ASSUME Types, \A c \in Conns : Greeted(c), NEW c \in Conns
             PROVE  /\ \A i \in DOMAIN written[c] : written[c][i].kind = "status" <=> i = 1
                    /\ phase[c] = "hello" => written[c] = <<>>
                    /\ Len(written[c]) > 1 \/ phase[c] = "established" =>
                         written[c][1].code = Success
  BY DEF StatusFirst
<1> QED
  BY DEF Greeted

-----------------------------------------------------------------------------
(* Places in sequences. *)

\* Places are finitely many.
LEMMA FinitePlaces ==
  ASSUME NEW n \in Nat, NEW S, S \subseteq 1..n
  PROVE  IsFiniteSet(S) /\ Cardinality(S) \in Nat
BY FS_Interval, FS_Subset, FS_CardinalityType, 1 \in Int, n \in Int

\* A place behind all others comes last, and changes the rank of none.
LEMMA RankGrows ==
  ASSUME NEW n \in Nat, NEW S, S \subseteq 1..n
  PROVE  /\ Cardinality(S \cup {n + 1}) = Cardinality(S) + 1
         /\ \A i \in S : /\ Rank(S \cup {n + 1}, i) = Rank(S, i)
                         /\ Rank(S, i) \in Nat /\ Rank(S, i) <= Cardinality(S)
         /\ Rank(S \cup {n + 1}, n + 1) = Cardinality(S) + 1
<1>1. IsFiniteSet(S) /\ Cardinality(S) \in Nat
  BY FinitePlaces
<1>2. n + 1 \notin S
  OBVIOUS
<1>3. Cardinality(S \cup {n + 1}) = Cardinality(S) + 1
  BY <1>1, <1>2, FS_AddElement
<1>4. ASSUME NEW i \in S
      PROVE  /\ Rank(S \cup {n + 1}, i) = Rank(S, i)
             /\ Rank(S, i) \in Nat /\ Rank(S, i) <= Cardinality(S)
  <2>1. {j \in S \cup {n + 1} : j <= i} = {j \in S : j <= i}
    OBVIOUS
  <2>2. {j \in S : j <= i} \in SUBSET S
    OBVIOUS
  <2>3. IsFiniteSet({j \in S : j <= i}) /\ Cardinality({j \in S : j <= i}) <= Cardinality(S)
    BY <1>1, <2>2, FS_Subset
  <2> QED
    BY <2>1, <2>3, FS_CardinalityType DEF Rank
<1>5. Rank(S \cup {n + 1}, n + 1) = Cardinality(S) + 1
  <2>1. \A j \in S \cup {n + 1} : j <= n + 1
    OBVIOUS
  <2>2. {j \in S \cup {n + 1} : j <= n + 1} = S \cup {n + 1}
    BY <2>1
  <2> QED
    BY <1>3, <2>2 DEF Rank
<1> QED
  BY <1>1, <1>3, <1>4, <1>5

-----------------------------------------------------------------------------
(* Acknowledgements and the updates that they are for. *)

IsAckFor(m, n, k) == m.kind = "ack" /\ m.name = n /\ m.update.key = k

AcksIn(said, n, k)  == {i \in DOMAIN said : IsAckFor(said[i], n, k)}
AppliedIn(made, c) == {i \in DOMAIN made : made[i].peer = c}

\* AckedIsApplied of one connection and one entry: what was said, and what the
\* entry was made of.
Acked(said, made, c, n, k, failed) ==
  LET acks    == AcksIn(said, n, k)
      applied == AppliedIn(made, c)
  IN /\ Cardinality(applied) <= Cardinality(acks)
     /\ Cardinality(acks) <= Cardinality(applied) + (IF failed THEN 1 ELSE 0)
     /\ \A i \in acks, j \in applied :
          Rank(acks, i) = Rank(applied, j) => made[j].values = said[i].update.values

AllAcked ==
  store => \A c \in Conns, n \in Names, k \in Keys :
    Acked(written[c], history[n][k], c, n, k, parser[c] = "merge")

\* AckedIsApplied, connection by connection and entry by entry.
LEMMA AllAckedIs == AllAcked <=> AckedIsApplied
<1>1. ASSUME NEW c \in Conns, NEW n \in Names, NEW k \in Keys
      PROVE  /\ AcksFor(c, n, k) = AcksIn(written[c], n, k)
             /\ AppliedFor(c, n, k) = AppliedIn(history[n][k], c)
  BY DEF AcksFor, AcksIn, IsAckFor, AppliedFor, AppliedIn
<1> QED
  BY <1>1 DEF AllAcked, AckedIsApplied, Acked

\* The places when one more message is written, or one more update applied.
LEMMA PlacesAppended ==
  ASSUME NEW said, IsSequence(said), NEW m
  PROVE  /\ \A n, k : AcksIn(Append(said, m), n, k) =
              IF IsAckFor(m, n, k) THEN AcksIn(said, n, k) \cup {Len(said) + 1}
                                   ELSE AcksIn(said, n, k)
         /\ \A c : AppliedIn(Append(said, m), c) =
              IF m.peer = c THEN AppliedIn(said, c) \cup {Len(said) + 1}
                            ELSE AppliedIn(said, c)
         /\ \A n, k : AcksIn(said, n, k) \subseteq 1..Len(said)
         /\ \A c : AppliedIn(said, c) \subseteq 1..Len(said)
         /\ Len(said) \in Nat
<1>1. /\ Len(said) \in Nat /\ DOMAIN said = 1..Len(said)
      /\ DOMAIN Append(said, m) = 1..(Len(said) + 1)
      /\ \A i \in 1..Len(said) : Append(said, m)[i] = said[i]
      /\ Append(said, m)[Len(said) + 1] = m
  BY Appended
<1> DEFINE more == Append(said, m)
<1> HIDE DEF more
<1>2. DOMAIN more = DOMAIN said \cup {Len(said) + 1}
  BY <1>1 DEF more
<1>3. \A i \in DOMAIN said : more[i] = said[i]
  BY <1>1 DEF more
<1>4. more[Len(said) + 1] = m
  BY <1>1 DEF more
<1>5. ASSUME NEW n, NEW k
      PROVE  AcksIn(more, n, k) =
               IF IsAckFor(m, n, k) THEN AcksIn(said, n, k) \cup {Len(said) + 1}
                                    ELSE AcksIn(said, n, k)
  BY <1>2, <1>3, <1>4 DEF AcksIn
<1>6. ASSUME NEW c
      PROVE  AppliedIn(more, c) =
               IF m.peer = c THEN AppliedIn(said, c) \cup {Len(said) + 1}
                             ELSE AppliedIn(said, c)
  BY <1>2, <1>3, <1>4 DEF AppliedIn
<1> QED
  BY <1>1, <1>5, <1>6 DEF more, AcksIn, AppliedIn

\* Another message leaves the acknowledgements as they are, and another peer's
\* update the updates.
LEMMA AckedAndOther ==
  ASSUME NEW said, IsSequence(said), NEW m, NEW made, NEW c, NEW n, NEW k,
         NEW failed \in BOOLEAN, Acked(said, made, c, n, k, failed), ~IsAckFor(m, n, k)
  PROVE  Acked(Append(said, m), made, c, n, k, failed)
<1>1. AcksIn(Append(said, m), n, k) = AcksIn(said, n, k)
  BY PlacesAppended
<1>2. \A i \in AcksIn(said, n, k) : Append(said, m)[i] = said[i]
  BY Appended DEF AcksIn
<1> QED
  BY <1>1, <1>2 DEF Acked

\* So does another peer's update the updates.
LEMMA AckedAmongOthers ==
  ASSUME NEW said, NEW made, IsSequence(made), NEW u, NEW c, NEW n, NEW k,
         NEW failed \in BOOLEAN, Acked(said, made, c, n, k, failed), u.peer # c
  PROVE  Acked(said, Append(made, u), c, n, k, failed)
<1>1. AppliedIn(Append(made, u), c) = AppliedIn(made, c)
  BY PlacesAppended
<1>2. \A i \in AppliedIn(made, c) : Append(made, u)[i] = made[i]
  BY Appended DEF AppliedIn
<1> QED
  BY <1>1, <1>2 DEF Acked

\* Acknowledged and applied: the update gets the same rank on both sides.
LEMMA AckedAndApplied ==
  ASSUME NEW said, IsSequence(said), NEW m, NEW made, IsSequence(made), NEW u,
         NEW c, NEW n, NEW k, NEW failed \in BOOLEAN,
         Acked(said, made, c, n, k, FALSE),
         IsAckFor(m, n, k), u.peer = c, u.values = m.update.values
  PROVE  Acked(Append(said, m), Append(made, u), c, n, k, failed)
<1> DEFINE S == AcksIn(said, n, k)
           T == AppliedIn(made, c)
           s == Len(said) + 1
           t == Len(made) + 1
           more == Append(said, m)
           grown == Append(made, u)
<1>1. /\ AcksIn(more, n, k) = S \cup {s} /\ S \subseteq 1..Len(said) /\ Len(said) \in Nat
      /\ AppliedIn(grown, c) = T \cup {t} /\ T \subseteq 1..Len(made) /\ Len(made) \in Nat
  BY PlacesAppended
<1>2. /\ \A i \in S : more[i] = said[i]
      /\ more[s] = m
      /\ \A j \in T : grown[j] = made[j]
      /\ grown[t] = u
  BY Appended DEF AcksIn, AppliedIn
<1>3. /\ Cardinality(S \cup {s}) = Cardinality(S) + 1
      /\ \A i \in S : /\ Rank(S \cup {s}, i) = Rank(S, i)
                      /\ Rank(S, i) \in Nat /\ Rank(S, i) <= Cardinality(S)
      /\ Rank(S \cup {s}, s) = Cardinality(S) + 1
      /\ Cardinality(S) \in Nat
  BY <1>1, RankGrows, FinitePlaces
<1>4. /\ Cardinality(T \cup {t}) = Cardinality(T) + 1
      /\ \A j \in T : /\ Rank(T \cup {t}, j) = Rank(T, j)
                      /\ Rank(T, j) \in Nat /\ Rank(T, j) <= Cardinality(T)
      /\ Rank(T \cup {t}, t) = Cardinality(T) + 1
      /\ Cardinality(T) \in Nat
  BY <1>1, RankGrows, FinitePlaces
<1>5. /\ Cardinality(S) = Cardinality(T)
      /\ \A i \in S, j \in T : Rank(S, i) = Rank(T, j) => made[j].values = said[i].update.values
  BY <1>3, <1>4 DEF Acked
<1> HIDE DEF S, T, s, t, more, grown
<1>6. ASSUME NEW i \in S \cup {s}, NEW j \in T \cup {t},
             Rank(S \cup {s}, i) = Rank(T \cup {t}, j)
      PROVE  grown[j].values = more[i].update.values
  <2>1. CASE i \in S /\ j \in T
    BY <1>2, <1>3, <1>4, <1>5, <1>6, <2>1
  <2>2. ASSUME i \in S, j = t
        PROVE  FALSE
    <3>1. /\ Rank(S \cup {s}, i) = Rank(S, i)
          /\ Rank(S, i) \in Nat /\ Rank(S, i) <= Cardinality(S)
      BY <1>3, <2>2
    <3>2. Rank(T \cup {t}, j) = Cardinality(S) + 1 /\ Cardinality(S) \in Nat
      BY <1>3, <1>4, <1>5, <2>2
    <3>3. Rank(S, i) = Cardinality(S) + 1
      BY <1>6, <3>1, <3>2, Zenon
    <3> QED
      BY <3>1, <3>2, <3>3
  <2>3. ASSUME i = s, j \in T
        PROVE  FALSE
    <3>1. /\ Rank(T \cup {t}, j) = Rank(T, j)
          /\ Rank(T, j) \in Nat /\ Rank(T, j) <= Cardinality(T)
      BY <1>4, <2>3
    <3>2. Rank(S \cup {s}, i) = Cardinality(T) + 1 /\ Cardinality(T) \in Nat
      BY <1>3, <1>4, <1>5, <2>3
    <3>3. Rank(T, j) = Cardinality(T) + 1
      BY <1>6, <3>1, <3>2, Zenon
    <3> QED
      BY <3>1, <3>2, <3>3
  <2>4. CASE i = s /\ j = t
    BY <1>2, <2>4
  <2> QED
    BY <2>1, <2>2, <2>3, <2>4
<1>7. /\ Cardinality(T \cup {t}) <= Cardinality(S \cup {s})
      /\ Cardinality(S \cup {s}) <= Cardinality(T \cup {t}) + (IF failed THEN 1 ELSE 0)
  BY <1>3, <1>4, <1>5
<1>8. Acked(more, grown, c, n, k, failed)
  BY <1>1, <1>6, <1>7 DEF Acked
<1> QED
  BY <1>8 DEF more, grown

\* Acknowledged and not applied: the last acknowledgement has no counterpart.
LEMMA AckedNotApplied ==
  ASSUME NEW said, IsSequence(said), NEW m, NEW made, IsSequence(made),
         NEW c, NEW n, NEW k, Acked(said, made, c, n, k, FALSE)
  PROVE  Acked(Append(said, m), made, c, n, k, TRUE)
<1>1. CASE ~IsAckFor(m, n, k)
  <2>1. Acked(said, made, c, n, k, TRUE)
    BY FinitePlaces, PlacesAppended DEF Acked
  <2> QED
    BY <1>1, <2>1, AckedAndOther
<1>2. CASE IsAckFor(m, n, k)
  <2> DEFINE S == AcksIn(said, n, k)
             T == AppliedIn(made, c)
             s == Len(said) + 1
             more == Append(said, m)
  <2>1. /\ AcksIn(more, n, k) = S \cup {s} /\ S \subseteq 1..Len(said) /\ Len(said) \in Nat
        /\ T \subseteq 1..Len(made) /\ Len(made) \in Nat
    BY <1>2, PlacesAppended
  <2>2. \A i \in S : more[i] = said[i]
    BY Appended DEF AcksIn
  <2>3. /\ Cardinality(S \cup {s}) = Cardinality(S) + 1
        /\ \A i \in S : Rank(S \cup {s}, i) = Rank(S, i)
        /\ Rank(S \cup {s}, s) = Cardinality(S) + 1
        /\ Cardinality(S) \in Nat
    <3>1. S \subseteq 1..Len(said) /\ Len(said) \in Nat
      BY <2>1
    <3> HIDE DEF S
    <3> QED
      BY <3>1, RankGrows, FinitePlaces
  <2>4. \A j \in T : Rank(T, j) \in Nat /\ Rank(T, j) <= Cardinality(T)
    BY <2>1, RankGrows
  <2>5. Cardinality(T) \in Nat
    BY <2>1, FinitePlaces
  <2>6. /\ Cardinality(S) = Cardinality(T)
        /\ \A i \in S, j \in T :
             Rank(S, i) = Rank(T, j) => made[j].values = said[i].update.values
    BY <2>3, <2>5 DEF Acked
  <2> HIDE DEF S, s, more
  <2>7. ASSUME NEW i \in S \cup {s}, NEW j \in T, Rank(S \cup {s}, i) = Rank(T, j)
        PROVE  made[j].values = more[i].update.values
    <3>1. CASE i \in S
      BY <2>2, <2>3, <2>6, <2>7, <3>1
    <3>2. CASE i = s
      BY <2>3, <2>4, <2>5, <2>6, <2>7, <3>2
    <3> QED
      BY <3>1, <3>2
  <2>8. /\ Cardinality(T) <= Cardinality(S \cup {s})
        /\ Cardinality(S \cup {s}) <= Cardinality(T) + 1
    BY <2>3, <2>5, <2>6
  <2>9. Acked(more, made, c, n, k, TRUE)
    BY <2>1, <2>7, <2>8 DEF Acked
  <2> QED
    BY <2>9 DEF more
<1> QED
  BY <1>1, <1>2

-----------------------------------------------------------------------------
\* What acknowledges, and what the store makes of it.
LEMMA Makes ==
  ASSUME Types, MidLesson, [Next]_vars
  PROVE  \/ /\ UNCHANGED history
            /\ \/ UNCHANGED written
               \/ \E c \in Conns : \E m : Write(c, m) /\ m.kind # "ack"
         \/ \E c \in Conns, u \in Updates :
              /\ UpdateReceived(c, u)
              /\ \/ /\ UNCHANGED history
                    /\ store => parser' = [parser EXCEPT ![c] = "merge"]
                 \/ store /\ Store!ApplyUpdate(c, table[c], u)
<1> DEFINE Other == /\ UNCHANGED history
                    /\ \/ UNCHANGED written
                       \/ \E c \in Conns : \E m : Write(c, m) /\ m.kind # "ack"
<1>1. CASE Unsaid
  BY <1>1 DEF Unsaid, storeVars
<1>2. ASSUME NEW c \in Conns, Greets(c)
      PROVE  Other
  <2>1. UNCHANGED history /\ \E code : Write(c, Status(code))
    BY <1>2 DEF Greets, HelloAccepted, HelloRejected, storeVars
  <2> QED
    BY <2>1 DEF Status
<1>3. ASSUME NEW c \in Conns,
             \/ Heartbeat(c) \/ OnSynchronizationDone(c) \/ Teach(c)
             \/ TeachTable(c) \/ TeachThrows(c) \/ TeachEnd(c)
      PROVE  Other
  <2>1. UNCHANGED history
    BY <1>3 DEF Heartbeat, OnSynchronizationDone, Teach, TeachTable, TeachThrows,
      TeachEnd, storeVars
  <2>2. \/ UNCHANGED written
        \/ \E type \in ControlTypes : Write(c, Control(type))
        \/ \E d : Write(c, Definition(d))
    BY <1>3 DEF Heartbeat, OnSynchronizationDone, Teach, TeachTable, TeachThrows,
      TeachEnd, TellDefinition, BrokenOff, TellEnd, ControlTypes
  <2>3. /\ \A type \in ControlTypes : Control(type).kind # "ack"
        /\ \A d : Definition(d).kind # "ack"
    BY DEF Control, ControlTypes, Definition
  <2> QED
    BY <2>1, <2>2, <2>3
<1>4. ASSUME NEW c \in Conns, TeachEntry(c)
      PROVE  Other
  <2>1. UNCHANGED history
    BY <1>4 DEF TeachEntry, storeVars
  <2>2. PICK m, after : Taught(c, m, after)
    BY <1>4, TaughtEntry
  <2> QED
    BY <2>1, <2>2 DEF Taught
<1>5. ASSUME NEW c \in Conns, NEW d \in Definitions, OnTableDefinition(c, d)
      PROVE  UNCHANGED <<history, written>>
  BY <1>5 DEF OnTableDefinition, Store!ApplyDefinition, storeVars
<1>6. ASSUME NEW c \in Conns, NEW u \in Updates, OnEntryUpdate(c, u)
      PROVE  /\ UpdateReceived(c, u)
             /\ \/ UNCHANGED history /\ ~store
                \/ store /\ Store!ApplyUpdate(c, table[c], u)
  BY <1>6 DEF OnEntryUpdate, Apply, TableOf, storeVars
<1>7. ASSUME NEW c \in Conns, NEW u \in Updates, MergeThrows(c, u)
      PROVE  /\ UpdateReceived(c, u) /\ UNCHANGED history
             /\ parser' = [parser EXCEPT ![c] = "merge"]
  BY <1>7 DEF MergeThrows, Store!ApplyDefinition, Failing
<1> QED
  BY <1>1, <1>2, <1>3, <1>4, <1>5, <1>6, <1>7, Steps DEF Teaches

\* An update that is applied grows the history of its entry, of its table.
LEMMA HistoryGrows ==
  ASSUME Types, NEW c \in Conns, NEW u \in Updates, UpdateReceived(c, u),
         Store!ApplyUpdate(c, table[c], u), NEW n \in Names, NEW k \in Keys
  PROVE  /\ IsSequence(history[n][k])
         /\ \E made :
              /\ history'[n][k] = IF n = table[c].name /\ k = u.key
                                  THEN Append(history[n][k], made) ELSE history[n][k]
              /\ made.peer = c /\ made.values = u.values
              /\ made.types = DOMAIN made.values
<1> DEFINE made == [peer |-> c, types |-> table[c].types, values |-> u.values]
<1>1. /\ history' = [history EXCEPT ![table[c].name][u.key] = Append(@, made)]
      /\ Fits(u, table[c])
  BY DEF Store!ApplyUpdate, UpdateReceived
<1>2. /\ DOMAIN history = Names /\ DOMAIN history[n] = Keys
      /\ history[n][k] \in Seq(Store!AppliedUpdates)
  BY StoreTypes
<1>3. IsSequence(history[n][k])
  <2> DEFINE h == history[n][k]
  <2>1. \A i \in 1..Len(h) : h[i] \in Range(h)
    BY <1>2 DEF Range
  <2> QED
    BY <1>2, <2>1 DEF IsSequence
<1>4. made.peer = c /\ made.values = u.values /\ made.types = DOMAIN made.values
  BY <1>1 DEF Fits
<1> HIDE DEF made
<1>5. history'[n][k] = IF n = table[c].name /\ k = u.key
                       THEN Append(history[n][k], made) ELSE history[n][k]
  BY <1>1, <1>2
<1> QED
  BY <1>3, <1>4, <1>5

\* What is applied fits the definition it is applied under.
LEMMA OwnTableStep ==
  ASSUME Types, MidLesson, UpdatesUnderOwnTable, [Next]_vars
  PROVE  UpdatesUnderOwnTable'
<1>1. CASE UNCHANGED history
  BY <1>1 DEF UpdatesUnderOwnTable
<1>2. ASSUME NEW c \in Conns, NEW u \in Updates, UpdateReceived(c, u),
             Store!ApplyUpdate(c, table[c], u), NEW n \in Names, NEW k \in Keys
      PROVE  \A i \in DOMAIN history'[n][k] :
               history'[n][k][i].types = DOMAIN history'[n][k][i].values
  <2> DEFINE h == history[n][k]
  <2>1. PICK made :
          /\ IsSequence(h)
          /\ history'[n][k] = IF n = table[c].name /\ k = u.key
                              THEN Append(h, made) ELSE h
          /\ made.types = DOMAIN made.values
    BY <1>2, HistoryGrows
  <2>2. \A i \in DOMAIN h : h[i].types = DOMAIN h[i].values
    BY DEF UpdatesUnderOwnTable
  <2> HIDE DEF h
  <2>3. \A i \in DOMAIN Append(h, made) :
          Append(h, made)[i].types = DOMAIN Append(h, made)[i].values
    <3> DEFINE more == Append(h, made)
    <3>1. /\ DOMAIN h = 1..Len(h) /\ Len(h) \in Nat
          /\ DOMAIN more = 1..(Len(h) + 1)
          /\ \A i \in 1..Len(h) : more[i] = h[i]
          /\ more[Len(h) + 1] = made
      BY <2>1, Appended
    <3> HIDE DEF more
    <3>2. \A i \in DOMAIN more : more[i].types = DOMAIN more[i].values
      BY <2>1, <2>2, <3>1
    <3> QED
      BY <3>2 DEF more
  <2> QED
    BY <2>1, <2>2, <2>3 DEF h
<1> QED
  BY <1>1, <1>2, Makes DEF UpdatesUnderOwnTable

\* A parser that failed in a merge stays so.
LEMMA FailedMerge ==
  ASSUME Types, MidLesson, [Next]_vars, NEW c \in Conns, parser[c] = "merge"
  PROVE  parser'[c] = "merge"
<1>1. \A o \in Conns : TeachThrows(o) =>
        /\ parser' = [parser EXCEPT ![o] = "teach"]
        /\ parser[o] = "ok"
  BY InLessonIs DEF TeachThrows, Failing
<1>2. UNCHANGED parser \/ \E o \in Conns, fault \in Faults :
        parser' = [parser EXCEPT ![o] = fault] /\ parser[o] = "ok"
  BY <1>1, ParserStep DEF Faults
<1> QED
  BY <1>2 DEF Types

\* Every step keeps acknowledgements and updates in step.
LEMMA AckedStep ==
  ASSUME Types, MidLesson, AllAcked, [Next]_vars
  PROVE  AllAcked'
<1> SUFFICES ASSUME store', NEW c \in Conns, NEW n \in Names, NEW k \in Keys
             PROVE  Acked(written'[c], history'[n][k], c, n, k, parser'[c] = "merge")
  BY DEF AllAcked
<1>1. store /\ Acked(written[c], history[n][k], c, n, k, parser[c] = "merge")
  BY ServerStep DEF AllAcked
<1>2. IsSequence(written[c]) /\ DOMAIN written = Conns
  BY DEF Types
<1>3. Acked(written[c], history[n][k], c, n, k, parser'[c] = "merge")
  <2>1. CASE parser[c] # "merge" /\ parser'[c] = "merge"
    <3>1. Cardinality(AppliedIn(history[n][k], c)) \in Nat
      <4>1. history[n][k] \in Seq(Store!AppliedUpdates)
        BY StoreTypes
      <4>2. IsSequence(history[n][k])
        <5> DEFINE h == history[n][k]
        <5>1. \A i \in 1..Len(h) : h[i] \in Range(h)
          BY <4>1 DEF Range
        <5> QED
          BY <4>1, <5>1 DEF IsSequence
      <4> QED
        BY <4>2, PlacesAppended, FinitePlaces
    <3>2. Cardinality(AcksIn(written[c], n, k)) \in Nat
      BY <1>2, PlacesAppended, FinitePlaces
    <3> QED
      BY <1>1, <2>1, <3>1, <3>2 DEF Acked
  <2> QED
    BY <1>1, <2>1, FailedMerge
<1>4. CASE /\ UNCHANGED history
           /\ \/ UNCHANGED written
              \/ \E o \in Conns : \E m : Write(o, m) /\ m.kind # "ack"
  <2>1. CASE written'[c] = written[c]
    BY <1>3, <1>4, <2>1
  <2>2. ASSUME NEW m, m.kind # "ack", written'[c] = Append(written[c], m)
        PROVE  Acked(written'[c], history'[n][k], c, n, k, parser'[c] = "merge")
    <3>1. ~IsAckFor(m, n, k)
      BY <2>2 DEF IsAckFor
    <3>2. Acked(Append(written[c], m), history[n][k], c, n, k, parser'[c] = "merge")
      BY <1>2, <1>3, <3>1, AckedAndOther
    <3> QED
      BY <1>4, <2>2, <3>2
  <2>3. \/ written'[c] = written[c]
        \/ \E m : m.kind # "ack" /\ written'[c] = Append(written[c], m)
    BY <1>2, <1>4 DEF Write
  <2> QED
    BY <2>1, <2>2, <2>3
<1>5. ASSUME NEW o \in Conns, NEW u \in Updates, UpdateReceived(o, u),
             UNCHANGED history, parser' = [parser EXCEPT ![o] = "merge"]
      PROVE  Acked(written'[c], history'[n][k], c, n, k, parser'[c] = "merge")
  <2>1. Write(o, Ack(table[o], u)) /\ parser[o] = "ok"
    BY <1>5, UpdateStep
  <2>2. CASE o # c
    BY <1>2, <1>3, <1>5, <2>1, <2>2 DEF Write
  <2>3. CASE o = c
    <3> DEFINE m == Ack(table[o], u)
    <3>1. written'[c] = Append(written[c], m) /\ parser'[c] = "merge"
      BY <1>2, <1>5, <2>1, <2>3 DEF Write, Types
    <3>2. IsSequence(history[n][k])
      <4> DEFINE h == history[n][k]
      <4>1. h \in Seq(Store!AppliedUpdates)
        BY StoreTypes
      <4>2. \A i \in 1..Len(h) : h[i] \in Range(h)
        BY <4>1 DEF Range
      <4> QED
        BY <4>1, <4>2 DEF IsSequence
    <3> HIDE DEF m
    <3>3. Acked(written[c], history[n][k], c, n, k, FALSE)
      <4>1. (parser[c] = "merge") = FALSE
        BY <2>1, <2>3
      <4> QED
        BY <1>1, <4>1
    <3>4. Acked(Append(written[c], m), history[n][k], c, n, k, TRUE)
      BY <1>2, <3>2, <3>3, AckedNotApplied
    <3> QED
      BY <1>5, <3>1, <3>4 DEF Acked
  <2> QED
    BY <2>2, <2>3
<1>6. ASSUME NEW o \in Conns, NEW u \in Updates, UpdateReceived(o, u),
             Store!ApplyUpdate(o, table[o], u)
      PROVE  Acked(written'[c], history'[n][k], c, n, k, parser'[c] = "merge")
  <2> DEFINE m    == Ack(table[o], u)
             here == n = table[o].name /\ k = u.key
  <2>1. PICK made :
          /\ IsSequence(history[n][k])
          /\ history'[n][k] = IF here THEN Append(history[n][k], made) ELSE history[n][k]
          /\ made.peer = o /\ made.values = u.values
    BY <1>6, HistoryGrows
  <2>2. /\ Write(o, m) /\ parser[o] = "ok"
        /\ IsAckFor(m, n, k) <=> here
        /\ made.peer = o /\ made.values = m.update.values
    BY <1>6, <2>1, UpdateStep DEF IsAckFor, Ack
  <2> HIDE DEF m, here
  <2>3. CASE o # c
    <3>1. written'[c] = written[c]
      BY <1>2, <2>2, <2>3 DEF Write
    <3>2. Acked(written[c], Append(history[n][k], made), c, n, k, parser'[c] = "merge")
      BY <1>3, <2>1, <2>2, <2>3, AckedAmongOthers
    <3> QED
      BY <1>3, <2>1, <3>1, <3>2
  <2>4. CASE o = c
    <3>1. written'[c] = Append(written[c], m)
      BY <1>2, <2>2, <2>4 DEF Write
    <3>2. CASE ~here
      <4>1. Acked(Append(written[c], m), history[n][k], c, n, k, parser'[c] = "merge")
        BY <1>2, <1>3, <2>2, <3>2, AckedAndOther
      <4> QED
        BY <2>1, <3>1, <3>2, <4>1
    <3>3. CASE here
      <4>1. Acked(written[c], history[n][k], c, n, k, FALSE)
        <5>1. (parser[c] = "merge") = FALSE
          BY <2>2, <2>4
        <5> QED
          BY <1>1, <5>1
      <4>2. Acked(Append(written[c], m), Append(history[n][k], made), c, n, k,
                  parser'[c] = "merge")
        BY <1>2, <2>1, <2>2, <2>4, <3>3, <4>1, AckedAndApplied
      <4> QED
        BY <2>1, <3>1, <3>3, <4>2
    <3> QED
      BY <3>2, <3>3
  <2> QED
    BY <2>3, <2>4
<1> QED
  BY <1>1, <1>4, <1>5, <1>6, Makes

-----------------------------------------------------------------------------
(* The messages written are those that TypeOK has. *)

Message(m) ==
  \/ m \in WrittenMessages
  \/ /\ m.kind = "entry" /\ m.name \in Names /\ m.key \in Keys
     /\ Store!IsAssignment(m.values)

Messages == \A c \in Conns : \A i \in DOMAIN written[c] : Message(written[c][i])

\* Every step writes messages of these kinds.
LEMMA MessagesStep ==
  ASSUME Types, MidLesson, Messages, [Next]_vars
  PROVE  Messages'
<1>1. ASSUME NEW c \in Conns, NEW m, Write(c, m), Message(m)
      PROVE  Messages'
  <2>1. /\ DOMAIN written[c] = 1..Len(written[c])
        /\ DOMAIN written'[c] = 1..(Len(written[c]) + 1) /\ Len(written[c]) \in Nat
        /\ \A i \in 1..Len(written[c]) : written'[c][i] = written[c][i]
        /\ written'[c][Len(written[c]) + 1] = m
        /\ \A o \in Conns \ {c} : written'[o] = written[o]
    BY <1>1, WriteStep
  <2>2. \A i \in DOMAIN written'[c] : Message(written'[c][i])
    BY <1>1, <2>1 DEF Messages
  <2>3. \A o \in Conns \ {c} : \A i \in DOMAIN written'[o] : Message(written'[o][i])
    BY <2>1 DEF Messages
  <2> QED
    BY <2>2, <2>3 DEF Messages
<1>2. CASE UNCHANGED written
  BY <1>2 DEF Messages
<1>3. ASSUME NEW c \in Conns, TeachTable(c)
      PROVE  Messages'
  <2>1. PICK n \in teaching.tables : Write(c, Definition(definitions[n]))
    BY <1>3 DEF TeachTable, TellDefinition
  <2>2. definitions[n] \in Definitions
    BY <1>3, InLessonIs, StoreTypes DEF TeachTable, Store!TypeOK
  <2>3. Message(Definition(definitions[n]))
    BY <2>2 DEF Message, WrittenMessages
  <2> QED
    BY <1>1, <2>1, <2>3
<1>4. ASSUME NEW c \in Conns, TeachEntry(c)
      PROVE  Messages'
  <2>1. PICK m, after : Taught(c, m, after)
    BY <1>4, TaughtEntry
  <2>2. teaching.name \in Names
    BY <2>1, StoreTypes DEF Taught, Store!TypeOK
  <2>3. Message(m)
    BY <2>1, <2>2 DEF Message, Taught
  <2> QED
    BY <1>1, <2>1, <2>3 DEF Taught
<1>5. ASSUME NEW c \in Conns, TeachThrows(c)
      PROVE  UNCHANGED written
  BY <1>5 DEF TeachThrows, BrokenOff
<1>6. CASE \E c \in Conns, m \in WrittenMessages :
              Write(c, m) /\ m.kind \notin {"entry", "definition"} /\ UNCHANGED known
  BY <1>1, <1>6 DEF Message
<1> QED
  BY <1>2, <1>3, <1>4, <1>5, <1>6, Tells

-----------------------------------------------------------------------------
IInv ==
  /\ Types /\ MidLesson /\ Messages
  /\ TimersEnd
  /\ \A c \in Conns : Greeted(c)
  /\ UpdatesUnderOwnTable /\ AllAcked
  /\ LessonsRead
  /\ \A c \in Conns : WordsKept(c)

\* The types at the start.
LEMMA InitTypes ==
  ASSUME Init
  PROVE  Types /\ MidLesson /\ TimersEnd
<1>1. SP!IInv
  <2>1. SP!Init
    BY SameState DEF Init
  <2> QED
    BY <2>1, SP!InitIInv, SameAssumptions DEF SP!DataTypesAssumption, SP!InputsAssumption
<1>2. IsSequence(<<>>)
  BY EmptySequence
<1>3. <<>> \in Seq(Words)
  OBVIOUS
<1>4. DOMAIN written = Conns /\ \A c \in Conns : written[c] = <<>>
  BY DEF Init
<1>5. Types
  BY <1>1, <1>2, <1>3, <1>4 DEF Init, Types, Phases, Faults
<1> QED
  BY <1>5 DEF Init, MidLesson, TimersEnd

\* The inductive invariant at the start, ...
LEMMA InitHolds == Init => IInv
<1> SUFFICES ASSUME Init PROVE IInv
  OBVIOUS
<1>1. Types /\ MidLesson /\ TimersEnd
  BY InitTypes
<1>2. \A c \in Conns : /\ phase[c] = "none" /\ written[c] = <<>> /\ known[c] = <<>>
                       /\ DOMAIN written[c] = {} /\ Len(written[c]) = 0
                       /\ DOMAIN known[c] = {}
  BY EmptySequence DEF Init
<1>3. \A c \in Conns : Greeted(c)
  BY <1>2 DEF Greeted
<1>4. \A c \in Conns : WordsKept(c)
  BY <1>2 DEF WordsKept, Coded, AllIntroduced
<1>5. LessonsRead /\ Messages
  <2>1. DOMAIN definitions = {} /\ teaching = None
    BY EmptySequence DEF Init, Store!Init
  <2> QED
    BY <1>2, <2>1 DEF LessonsRead, OwnNames, Messages
<1>6. \A n \in Names, k \in Keys : history[n][k] = <<>> /\ DOMAIN history[n][k] = {}
  BY EmptySequence DEF Init, Store!Init
<1>7. UpdatesUnderOwnTable
  BY <1>6 DEF UpdatesUnderOwnTable
<1>8. AllAcked
  <2>1. ASSUME NEW c \in Conns, NEW n \in Names, NEW k \in Keys
        PROVE  AcksIn(written[c], n, k) = {} /\ AppliedIn(history[n][k], c) = {}
    BY <1>2, <1>6 DEF AcksIn, AppliedIn
  <2>2. Cardinality({}) = 0
    BY FS_EmptySet
  <2> QED
    BY <2>1, <2>2 DEF AllAcked, Acked
<1> QED
  BY <1>1, <1>3, <1>4, <1>5, <1>7, <1>8 DEF IInv

\* ... and after every step.
LEMMA StepHolds == IInv /\ [Next]_vars => IInv'
<1> SUFFICES ASSUME IInv, [Next]_vars PROVE IInv'
  OBVIOUS
<1>1. Types' /\ TimersEnd'
  BY TypesStep DEF IInv
<1>2. MidLesson' /\ Messages'
  BY MidLessonStep, MessagesStep DEF IInv
<1>3. \A c \in Conns : Greeted(c)'
  BY GreetedStep DEF IInv
<1>4. UpdatesUnderOwnTable' /\ AllAcked'
  BY OwnTableStep, AckedStep DEF IInv
<1>5. LessonsRead'
  BY LessonsReadStep DEF IInv
<1>6. \A c \in Conns : WordsKept(c)'
  BY WordsKeptStep DEF IInv
<1> QED
  BY <1>1, <1>2, <1>3, <1>4, <1>5, <1>6 DEF IInv

\* The inductive invariant holds in every state, for every number of connections
\* and every set of definitions and updates that peers may send.
THEOREM Invariance == Spec => []IInv
BY InitHolds, StepHolds, PTL DEF Spec

\* TypeOK is part of it: what is coded is an id in use, with its own word or none.
LEMMA IInvTypeOK == IInv => TypeOK
<1> SUFFICES ASSUME IInv PROVE TypeOK
  OBVIOUS
<1>1. Types /\ MidLesson /\ Messages /\ Store!TypeOK
  BY StoreTypes DEF IInv
<1>2. ASSUME NEW c \in Conns, NEW i \in DOMAIN written[c]
      PROVE  \/ written[c][i] \in WrittenMessages
             \/ /\ written[c][i].kind = "entry"
                /\ written[c][i].name \in Names /\ written[c][i].key \in Keys
                /\ Store!IsAssignment(written[c][i].values)
                /\ written[c][i].coded \in
                     {<<>>, <<0>>} \cup {<<id>> : id \in DOMAIN known[c]}
                       \cup {<<id, known[c][id]>> : id \in DOMAIN known[c]}
  <2>1. Message(written[c][i])
    BY <1>1 DEF Messages
  <2>2. ASSUME written[c][i].kind = "entry"
        PROVE  written[c][i].coded \in
                 {<<>>, <<0>>} \cup {<<id>> : id \in DOMAIN known[c]}
                   \cup {<<id, known[c][id]>> : id \in DOMAIN known[c]}
    <3>1. CodedWord(written[c], known[c], i)
      BY <2>2 DEF IInv, WordsKept, Coded
    <3> QED
      BY <3>1, Zenon DEF CodedWord
  <2> QED
    BY <2>1, <2>2 DEF Message
<1> QED
  BY <1>1, <1>2 DEF TypeOK, Types, Lessons, MidLesson

\* The variables and the messages written have their types: in particular no id
\* is ever written that the connection's dictionary does not hold, and a lesson
\* under way finds its tables and entries in the store until it has told them.
THEOREM TypeInvariant == Spec => []TypeOK
BY Invariance, IInvTypeOK, PTL

\* However much a peer sends behind its hello, the status is the first message on
\* its connection, the only one, and the last unless it says success.
THEOREM StatusComesFirst == Spec => []StatusFirst
<1>1. IInv => StatusFirst
  BY GreetedImplies DEF IInv
<1> QED
  BY <1>1, Invariance, PTL

\* However connections end, an established one has its heartbeat timer and a
\* closed one has none.
THEOREM TimersEndWithConnections == Spec => []TimersEnd
<1>1. IInv => TimersEnd
  BY DEF IInv
<1> QED
  BY <1>1, Invariance, PTL

\* However connections interleave, an update is applied under the definition that
\* its own peer announced.
THEOREM AppliedUnderOwnTable == Spec => []UpdatesUnderOwnTable
<1>1. IInv => UpdatesUnderOwnTable
  BY DEF IInv
<1> QED
  BY <1>1, Invariance, PTL

\* However connections interleave, what each has acknowledged is in the store,
\* update by update and in order, but for the last update of a connection whose
\* merge threw.
THEOREM AcknowledgedIsApplied == Spec => []AckedIsApplied
<1>1. IInv => AckedIsApplied
  BY AllAckedIs DEF IInv
<1> QED
  BY <1>1, Invariance, PTL

\* However the store changes between lessons and wherever they break off, a peer
\* reads each entry under the table it belongs to and with all of its types.
THEOREM LessonsAreReadable == Spec => []LessonsReadable
<1>1. IInv => LessonsReadable
  BY LessonsReadImplies DEF IInv
<1> QED
  BY <1>1, Invariance, PTL

\* A peer reads each word it is taught as it is in the store, whatever earlier
\* lessons made of the dictionary.
THEOREM LessonsGetResolved == Spec => []LessonsResolve
<1>1. IInv => LessonsResolve
  BY WordsKeptImplies DEF IInv
<1> QED
  BY <1>1, Invariance, PTL

\* The server with all its connections implements the store: whatever they do to
\* it is a behaviour of StickTableStore, with the connections as its peers.
THEOREM KeepsAStore == Spec => Store!Spec
<1>1. Init => Store!Init
  BY DEF Init
<1>2. IInv /\ [Next]_vars => [Store!Next]_Store!vars
  BY StoreStep DEF IInv
<1> QED
  BY <1>1, <1>2, Invariance, PTL DEF Spec, Store!Spec

\* Going forward is the same in both instances of the store.
LEMMA SameOrder == SP!Forward <=> Store!Forward
BY Zenon DEF SP!Forward, Store!Forward, SP!NotBehind, Store!NotBehind

\* So no connection makes an entry go backwards, ...
THEOREM StoreNeverBackwards == Spec => Store!NeverBackwards
<1>1. IInv /\ [Next]_vars => [Store!Forward]_Store!vars
  <2> SUFFICES ASSUME IInv, [Next]_vars PROVE [Store!Forward]_Store!vars
    OBVIOUS
  <2>1. SP!IInv /\ [SP!Next]_SP!vars
    BY StoreStep, SameNext DEF IInv, Types
  <2>2. SP!Forward
    BY <2>1, SP!StepForward, SameAssumptions DEF SP!DataTypesAssumption, SP!InputsAssumption
  <2> QED
    BY <2>2, SameOrder
<1> QED
  BY <1>1, Invariance, PTL DEF Spec, Store!NeverBackwards

\* ... and each entry has all the types of all the definitions it was updated
\* under, whichever connections they came from.
THEOREM StoreComplete == Spec => []Store!CompleteForItsUpdates
<1>1. IInv => Store!CompleteForItsUpdates
  BY DEF IInv, Types, SP!IInv, SP!CompleteForItsUpdates, Store!CompleteForItsUpdates
<1> QED
  BY <1>1, Invariance, PTL

\* What an entry should be is the same in both instances.
LEMMA SameAggregates ==
  SP!EntriesAggregateHistory <=> Store!EntriesAggregateHistory
<1>1. \A f : SP!Total(f) = Store!Total(f)
  BY Zenon DEF SP!Total, Store!Total, SP!MapThenSumSet, Store!MapThenSumSet,
    SP!MapThenFoldSet, Store!MapThenFoldSet
<1>2. /\ \A h, t : SP!Samples(h, t) = Store!Samples(h, t)
      /\ \A h, t, i : SP!Value(h, t, i) = Store!Value(h, t, i)
      /\ \A S : SP!LastOf(S) = Store!LastOf(S)
  BY Zenon DEF SP!Samples, Store!Samples, SP!Value, Store!Value, SP!LastOf, Store!LastOf
<1>3. \A S, h, t : SP!SumOver(S, h, t) = Store!SumOver(S, h, t)
  BY <1>1, <1>2, Zenon DEF SP!SumOver, Store!SumOver
<1>4. \A v, S, h, t : SP!RateIs(v, S, h, t) <=> Store!RateIs(v, S, h, t)
  BY <1>1, Zenon DEF SP!RateIs, Store!RateIs, SP!Value, Store!Value
<1>5. \A v, S, h, t : SP!ArrayIs(v, S, h, t) <=> Store!ArrayIs(v, S, h, t)
  BY <1>1, Zenon DEF SP!ArrayIs, Store!ArrayIs, SP!Value, Store!Value
<1>6. \A v, S, h, t : SP!WordIs(v, S, h, t) <=> Store!WordIs(v, S, h, t)
  BY <1>2, Zenon DEF SP!WordIs, Store!WordIs
<1>7. \A v, S, h, t : SP!LatestIs(v, S, h, t) <=> Store!LatestIs(v, S, h, t)
  BY <1>2, Zenon DEF SP!LatestIs, Store!LatestIs
<1>8. \A v, h, t : SP!Aggregates(v, h, t) <=> Store!Aggregates(v, h, t)
  BY <1>2, <1>3, <1>4, <1>5, <1>6, <1>7 DEF SP!Aggregates, Store!Aggregates
<1> QED
  BY <1>8, Zenon DEF SP!EntriesAggregateHistory, Store!EntriesAggregateHistory

\* ... and each entry is the aggregate of the updates that all connections
\* together applied to it, in the order in which they did.
THEOREM StoreAggregates == Spec => []Store!EntriesAggregateHistory
<1> USE SameAssumptions DEF SP!DataTypesAssumption, SP!InputsAssumption
<1>1. Init => SP!EntriesAggregateHistory
  BY SameState, SP!InitAggregates DEF Init
<1>2. IInv /\ SP!EntriesAggregateHistory /\ [Next]_vars => SP!EntriesAggregateHistory'
  <2> SUFFICES ASSUME IInv, SP!EntriesAggregateHistory, [Next]_vars
               PROVE  SP!EntriesAggregateHistory'
    OBVIOUS
  <2>1. SP!IInv /\ [SP!Next]_SP!vars
    BY StoreStep, SameNext DEF IInv, Types
  <2> QED
    BY <2>1, SP!StepAggregates
<1>3. SP!EntriesAggregateHistory => Store!EntriesAggregateHistory
  BY SameAggregates
<1> QED
  BY <1>1, <1>2, <1>3, Invariance, PTL DEF Spec
=============================================================================
