-------------------------- MODULE PeerServerLessons --------------------------
(***************************************************************************)
(* What a peer that is taught makes of its lessons: the words it reads, and *)
(* the definitions that it reads entries under.  A sequence of messages is *)
(* looked at first, whichever connection it is written to, then the steps. *)
(***************************************************************************)
EXTENDS PeerServerTypes

(* Words and their ids. *)

\* An entry said at place i gives a word its id.
Introduces(said, words, i, id) ==
  /\ i \in DOMAIN said /\ id \in DOMAIN words
  /\ said[i].kind = "entry" /\ said[i].coded = <<id, words[id]>>

\* An entry's word goes with its id, or the id alone after it went with it.
CodedWord(said, words, i) ==
  \/ WordsOf(said[i]) = {} /\ said[i].coded = <<>>
  \/ WordsOf(said[i]) = {Null} /\ said[i].coded = <<0>>
  \/ \E id \in DOMAIN words :
       /\ WordsOf(said[i]) = {words[id]}
       /\ \/ said[i].coded = <<id, words[id]>>
          \/ said[i].coded = <<id>> /\ \E j \in 1..i : Introduces(said, words, j, id)

\* Words go with their ids once.
Coded(said, words) ==
  /\ \A i \in DOMAIN said : said[i].kind = "entry" => CodedWord(said, words, i)
  /\ \A id \in DOMAIN words : \A i, j \in DOMAIN said :
       Introduces(said, words, i, id) /\ Introduces(said, words, j, id) => i = j

AllIntroduced(said, words) ==
  \A id \in DOMAIN words : \E i \in DOMAIN said : Introduces(said, words, i, id)

\* A broken-off lesson leaves a word that no entry gave its id.
WordsKept(c) ==
  /\ Coded(written[c], known[c])
  /\ parser[c] = "ok" => AllIntroduced(written[c], known[c])

\* Codes of different lengths differ.
LEMMA CodeLengths ==
  ASSUME NEW x, NEW y, NEW z, NEW v
  PROVE  /\ Len(<<>>) = 0 /\ Len(<<x>>) = 1 /\ Len(<<y, z>>) = 2
         /\ <<>> # <<y, z>> /\ <<>> # <<x>> /\ <<x>> # <<y, z>>
         /\ <<x>> = <<y>> => x = y
         /\ <<x, v>> = <<y, z>> => x = y /\ v = z
<1>1. Len(<<>>) = 0 /\ Len(<<x>>) = 1 /\ Len(<<y, z>>) = 2
  OBVIOUS
<1>2. <<>> # <<y, z>> /\ <<>> # <<x>> /\ <<x>> # <<y, z>>
  BY <1>1
<1>3. <<x>> = <<y>> => x = y
  <2>1. <<x>>[1] = x /\ <<y>>[1] = y
    OBVIOUS
  <2> QED
    BY <2>1
<1>4. <<x, v>> = <<y, z>> => x = y /\ v = z
  <2>1. <<x, v>>[1] = x /\ <<x, v>>[2] = v /\ <<y, z>>[1] = y /\ <<y, z>>[2] = z
    OBVIOUS
  <2> QED
    BY <2>1
<1> QED
  BY <1>1, <1>2, <1>3, <1>4

\* What registering a word does.
LEMMA WordAppended ==
  ASSUME NEW words \in Seq(Words), NEW w \in Words
  PROVE  /\ Append(words, w) \in Seq(Words)
         /\ Len(words) \in Nat /\ DOMAIN words = 1..Len(words)
         /\ DOMAIN Append(words, w) = 1..(Len(words) + 1)
         /\ \A id \in DOMAIN words : Append(words, w)[id] = words[id]
         /\ Append(words, w)[Len(words) + 1] = w
OBVIOUS

\* An id that is not in use has not been said.
LEMMA FreshId ==
  ASSUME NEW said, NEW words \in Seq(Words), Coded(said, words),
         NEW i \in DOMAIN said, said[i].kind = "entry", NEW w
  PROVE  said[i].coded # <<Len(words) + 1, w>>
<1>1. CodedWord(said, words, i)
  BY DEF Coded
<1>2. \A id \in DOMAIN words : id # Len(words) + 1
  OBVIOUS
<1> DEFINE fresh == Len(words) + 1
<1> HIDE DEF fresh
<1>3. <<>> # <<fresh, w>> /\ <<0>> # <<fresh, w>>
  BY CodeLengths
<1>4. ASSUME NEW id \in DOMAIN words
      PROVE  <<id>> # <<fresh, w>> /\ <<id, words[id]>> # <<fresh, w>>
  BY <1>2, CodeLengths DEF fresh
<1>5. said[i].coded # <<fresh, w>>
  BY <1>1, <1>3, <1>4 DEF CodedWord
<1> QED
  BY <1>5 DEF fresh

\* A word that is registered but not said changes nothing about what is.
LEMMA CodedWithWord ==
  ASSUME NEW said, NEW words \in Seq(Words), NEW w \in Words, Coded(said, words)
  PROVE  /\ Coded(said, Append(words, w))
         /\ \A i, id : Introduces(said, words, i, id) =>
                         Introduces(said, Append(words, w), i, id)
         /\ \A i \in DOMAIN said :
              ~Introduces(said, Append(words, w), i, Len(words) + 1)
<1> DEFINE more == Append(words, w)
<1>1. /\ Len(words) \in Nat /\ DOMAIN words = 1..Len(words)
      /\ DOMAIN more = 1..(Len(words) + 1)
      /\ \A id \in DOMAIN words : more[id] = words[id]
  BY WordAppended
<1> HIDE DEF more
<1>2. \A i, id : Introduces(said, words, i, id) => Introduces(said, more, i, id)
  BY <1>1 DEF Introduces
<1>3. \A i \in DOMAIN said : ~Introduces(said, more, i, Len(words) + 1)
  BY FreshId DEF Introduces
<1>4. ASSUME NEW i \in DOMAIN said, NEW id \in DOMAIN more, Introduces(said, more, i, id)
      PROVE  id \in DOMAIN words /\ Introduces(said, words, i, id)
  <2>1. id \in DOMAIN words
    BY <1>1, <1>3, <1>4
  <2> QED
    BY <1>1, <1>4, <2>1 DEF Introduces
<1>5. ASSUME NEW i \in DOMAIN said, said[i].kind = "entry"
      PROVE  CodedWord(said, more, i)
  <2>1. CodedWord(said, words, i)
    BY <1>5 DEF Coded
  <2>2. DOMAIN words \subseteq DOMAIN more
    BY <1>1
  <2> QED
    BY <1>1, <1>2, <2>1, <2>2 DEF CodedWord
<1>6. Coded(said, more)
  BY <1>4, <1>5 DEF Coded
<1> QED
  BY <1>2, <1>3, <1>6 DEF more

\* What was said stays as it was when more is said.
LEMMA CodedBefore ==
  ASSUME NEW said, IsSequence(said), NEW m, NEW words
  PROVE  /\ \A i, id : Introduces(said, words, i, id) =>
                         Introduces(Append(said, m), words, i, id)
         /\ \A i \in DOMAIN said : \A id :
              Introduces(Append(said, m), words, i, id) => Introduces(said, words, i, id)
         /\ \A i \in DOMAIN said :
              CodedWord(said, words, i) => CodedWord(Append(said, m), words, i)
<1> DEFINE more == Append(said, m)
<1>1. /\ Len(said) \in Nat /\ DOMAIN said = 1..Len(said)
      /\ DOMAIN more = 1..(Len(said) + 1)
      /\ \A i \in DOMAIN said : i \in DOMAIN more /\ more[i] = said[i]
  BY Appended
<1> HIDE DEF more
<1>2. \A i, id : Introduces(said, words, i, id) => Introduces(more, words, i, id)
  BY <1>1 DEF Introduces
<1>3. \A i \in DOMAIN said : \A id :
        Introduces(more, words, i, id) => Introduces(said, words, i, id)
  BY <1>1 DEF Introduces
<1>4. ASSUME NEW i \in DOMAIN said, CodedWord(said, words, i)
      PROVE  CodedWord(more, words, i)
  BY <1>1, <1>2, <1>4 DEF CodedWord
<1> QED
  BY <1>2, <1>3, <1>4 DEF more

\* A message without words changes nothing about the words.
LEMMA CodedThenOther ==
  ASSUME NEW said, IsSequence(said), NEW m, m.kind # "entry", NEW words,
         Coded(said, words)
  PROVE  /\ Coded(Append(said, m), words)
         /\ AllIntroduced(said, words) => AllIntroduced(Append(said, m), words)
<1> DEFINE more == Append(said, m)
<1>1. /\ Len(said) \in Nat /\ DOMAIN said = 1..Len(said)
      /\ DOMAIN more = 1..(Len(said) + 1)
      /\ \A i \in DOMAIN said : i \in DOMAIN more /\ more[i] = said[i]
      /\ more[Len(said) + 1] = m
  BY Appended
<1>2. /\ \A i, id : Introduces(said, words, i, id) => Introduces(more, words, i, id)
      /\ \A i \in DOMAIN said : \A id :
           Introduces(more, words, i, id) => Introduces(said, words, i, id)
      /\ \A i \in DOMAIN said : CodedWord(said, words, i) => CodedWord(more, words, i)
  BY CodedBefore
<1> HIDE DEF more
<1>3. \A i \in DOMAIN more : more[i].kind = "entry" => i \in DOMAIN said
  BY <1>1
<1>4. \A i, id : Introduces(more, words, i, id) => i \in DOMAIN said
  BY <1>3 DEF Introduces
<1>5. Coded(more, words)
  BY <1>1, <1>2, <1>3, <1>4 DEF Coded
<1>6. AllIntroduced(said, words) => AllIntroduced(more, words)
  BY <1>1, <1>2 DEF AllIntroduced
<1> QED
  BY <1>5, <1>6 DEF more

\* An entry whose word needs no new id.
LEMMA CodedThenKnown ==
  ASSUME NEW said, IsSequence(said), NEW m, m.kind = "entry", NEW words \in Seq(Words),
         Coded(said, words), AllIntroduced(said, words),
         \/ WordsOf(m) = {} /\ m.coded = <<>>
         \/ WordsOf(m) = {Null} /\ m.coded = << 0 >>
         \/ \E id \in DOMAIN words : WordsOf(m) = {words[id]} /\ m.coded = <<id>>
  PROVE  Coded(Append(said, m), words) /\ AllIntroduced(Append(said, m), words)
<1> DEFINE more == Append(said, m)
           last == Len(said) + 1
<1>1. /\ Len(said) \in Nat /\ DOMAIN said = 1..Len(said)
      /\ DOMAIN more = 1..(Len(said) + 1)
      /\ \A i \in DOMAIN said : i \in DOMAIN more /\ more[i] = said[i]
      /\ more[last] = m
  BY Appended
<1>2. /\ \A i, id : Introduces(said, words, i, id) => Introduces(more, words, i, id)
      /\ \A i \in DOMAIN said : \A id :
           Introduces(more, words, i, id) => Introduces(said, words, i, id)
      /\ \A i \in DOMAIN said : CodedWord(said, words, i) => CodedWord(more, words, i)
  BY CodedBefore
<1> HIDE DEF more
<1>3. CodedWord(more, words, last)
  <2>1. ASSUME NEW id \in DOMAIN words
        PROVE  \E j \in 1..last : Introduces(more, words, j, id)
    <3>1. PICK j \in DOMAIN said : Introduces(said, words, j, id)
      BY DEF AllIntroduced
    <3>2. j \in 1..last
      BY <1>1
    <3> QED
      BY <1>2, <3>1, <3>2
  <2>2. CASE WordsOf(m) = {} /\ m.coded = <<>>
    BY <1>1, <2>2 DEF CodedWord
  <2>3. CASE WordsOf(m) = {Null} /\ m.coded = <<0>>
    BY <1>1, <2>3 DEF CodedWord
  <2>4. ASSUME NEW id \in DOMAIN words, WordsOf(m) = {words[id]}, m.coded = <<id>>
        PROVE  CodedWord(more, words, last)
    BY <1>1, <2>1, <2>4 DEF CodedWord
  <2> QED
    BY <2>2, <2>3, <2>4
<1>4. \A id : ~Introduces(more, words, last, id)
  <2>1. ASSUME NEW id
        PROVE  m.coded # <<id, words[id]>>
    <3>1. m.coded = <<>> \/ \E x : m.coded = <<x>>
      OBVIOUS
    <3>2. ASSUME NEW x
          PROVE  <<>> # <<id, words[id]>> /\ <<x>> # <<id, words[id]>>
      BY CodeLengths
    <3> QED
      BY <3>1, <3>2, Zenon
  <2> QED
    BY <1>1, <2>1 DEF Introduces
<1>5. \A i \in DOMAIN more : i \in DOMAIN said \/ i = last
  BY <1>1
<1>6. Coded(more, words)
  BY <1>1, <1>2, <1>3, <1>4, <1>5 DEF Coded
<1>7. AllIntroduced(more, words)
  BY <1>1, <1>2 DEF AllIntroduced
<1> QED
  BY <1>6, <1>7 DEF more

\* An entry whose word gets the next id.
LEMMA CodedThenNew ==
  ASSUME NEW said, IsSequence(said), NEW m, m.kind = "entry", NEW words \in Seq(Words),
         NEW w \in Words, Coded(said, words), AllIntroduced(said, words),
         WordsOf(m) = {w}, m.coded = <<Len(words) + 1, w>>
  PROVE  /\ Coded(Append(said, m), Append(words, w))
         /\ AllIntroduced(Append(said, m), Append(words, w))
<1> DEFINE more  == Append(said, m)
           last  == Len(said) + 1
           after == Append(words, w)
           new   == Len(words) + 1
<1>1. /\ Len(said) \in Nat /\ DOMAIN said = 1..Len(said)
      /\ DOMAIN more = 1..(Len(said) + 1)
      /\ \A i \in DOMAIN said : i \in DOMAIN more /\ more[i] = said[i]
      /\ more[last] = m
  BY Appended
<1>2. /\ Len(words) \in Nat /\ DOMAIN words = 1..Len(words)
      /\ DOMAIN after = 1..(Len(words) + 1)
      /\ \A id \in DOMAIN words : after[id] = words[id]
      /\ after[new] = w
  BY WordAppended
<1>3. /\ Coded(said, after)
      /\ \A i, id : Introduces(said, words, i, id) => Introduces(said, after, i, id)
      /\ \A i \in DOMAIN said : ~Introduces(said, after, i, new)
  BY CodedWithWord
<1>4. /\ \A i, id : Introduces(said, after, i, id) => Introduces(more, after, i, id)
      /\ \A i \in DOMAIN said : \A id :
           Introduces(more, after, i, id) => Introduces(said, after, i, id)
      /\ \A i \in DOMAIN said : CodedWord(said, after, i) => CodedWord(more, after, i)
  BY CodedBefore
<1> HIDE DEF more, after
<1>5. Introduces(more, after, last, new)
  <2>1. last \in DOMAIN more /\ new \in DOMAIN after
    BY <1>1, <1>2
  <2> QED
    BY <1>1, <1>2, <2>1 DEF Introduces
<1>6. \A id : Introduces(more, after, last, id) => id = new
  BY <1>1 DEF Introduces
<1>7. CodedWord(more, after, last)
  BY <1>1, <1>2, <1>5 DEF CodedWord, Introduces
<1>8. /\ \A i \in DOMAIN more : i \in DOMAIN said \/ i = last
      /\ \A id \in DOMAIN after : id \in DOMAIN words \/ id = new
  BY <1>1, <1>2
<1>9. ASSUME NEW id \in DOMAIN after, NEW i \in DOMAIN more, NEW j \in DOMAIN more,
             Introduces(more, after, i, id), Introduces(more, after, j, id)
      PROVE  i = j
  <2>1. CASE id = new
    BY <1>3, <1>4, <1>8, <1>9, <2>1
  <2>2. CASE id # new
    <3>1. i \in DOMAIN said /\ j \in DOMAIN said
      BY <1>6, <1>8, <1>9, <2>2
    <3>2. Introduces(said, after, i, id) /\ Introduces(said, after, j, id)
      BY <1>4, <1>9, <3>1
    <3> QED
      BY <1>3, <3>1, <3>2 DEF Coded
  <2> QED
    BY <2>1, <2>2
<1>10. \A i \in DOMAIN more : more[i].kind = "entry" => CodedWord(more, after, i)
  BY <1>1, <1>3, <1>4, <1>7, <1>8 DEF Coded
<1>11. Coded(more, after)
  BY <1>9, <1>10 DEF Coded
<1>12. AllIntroduced(more, after)
  <2>1. ASSUME NEW id \in DOMAIN words
        PROVE  \E i \in DOMAIN more : Introduces(more, after, i, id)
    BY <1>1, <1>3, <1>4 DEF AllIntroduced
  <2>2. \E i \in DOMAIN more : Introduces(more, after, i, new)
    BY <1>5 DEF Introduces
  <2> QED
    BY <1>8, <2>1, <2>2 DEF AllIntroduced
<1> QED
  BY <1>11, <1>12 DEF more, after

-----------------------------------------------------------------------------
(* The entries that are taught. *)

\* The entry m goes out, its word coded with what is known, and after it the
\* connection knows more.
Codes(m, words, after) ==
  \/ /\ after = words
     /\ \/ WordsOf(m) = {} /\ m.coded = <<>>
        \/ WordsOf(m) = {Null} /\ m.coded = <<0>>
        \/ \E id \in DOMAIN words : WordsOf(m) = {words[id]} /\ m.coded = <<id>>
  \/ \E w \in Words :
       /\ WordsOf(m) = {w} /\ m.coded = <<Len(words) + 1, w>>
       /\ after = Append(words, w)

Taught(c, m, after) ==
  /\ Write(c, m)
  /\ known' = [known EXCEPT ![c] = after] /\ after \in Seq(Words)
  /\ UNCHANGED parser /\ parser[c] = "ok"
  /\ teaching.conn = c /\ teaching.keys # {} /\ teaching.name \in DOMAIN definitions
  /\ m.kind = "entry" /\ m.name = teaching.name /\ m.key \in Keys
  /\ Store!IsAssignment(m.values)
  /\ DOMAIN m.values = definitions[teaching.name].types
  /\ Codes(m, known[c], after)

\* Each entry is told so.
LEMMA TaughtEntry ==
  ASSUME Types, MidLesson, NEW c \in Conns, TeachEntry(c)
  PROVE  \E m, after : Taught(c, m, after)
<1>1. PICK k \in teaching.keys :
        /\ Encodable(teaching.name, k)
        /\ Write(c, InCode(known[c], Encoded(teaching.name, k)))
        /\ known' = [known EXCEPT ![c] = KnownAfter(@, Encoded(teaching.name, k))]
  BY DEF TeachEntry
<1>2. InLesson(c) /\ UNCHANGED parser
  BY DEF TeachEntry
<1>3. /\ teaching.name \in DOMAIN definitions /\ k \in DOMAIN entries[teaching.name]
      /\ parser[c] = "ok" /\ teaching.conn = c
  BY <1>1, <1>2, InLessonIs
<1> DEFINE e     == Encoded(teaching.name, k)
           m     == InCode(known[c], e)
           after == KnownAfter(known[c], e)
<1>4. known[c] \in Seq(Words) /\ known' = [known EXCEPT ![c] = after]
  BY <1>1 DEF Types
<1>5. /\ DOMAIN e.values = definitions[teaching.name].types
      /\ Store!IsAssignment(e.values) /\ k \in Keys
  <2>1. /\ DOMAIN e.values = definitions[teaching.name].types \cap DOMAIN entries[teaching.name][k]
        /\ Store!IsAssignment(e.values) /\ k \in Keys
    BY <1>3, EncodedEntry
  <2>2. definitions[teaching.name].types \subseteq DOMAIN entries[teaching.name][k]
    BY <1>1 DEF Encodable
  <2> QED
    BY <2>1, <2>2
<1>6. /\ m.kind = "entry" /\ m.name = teaching.name /\ m.key = k
      /\ m.values = e.values
      /\ \/ WordsOf(m) = {} /\ m.coded = <<>> /\ after = known[c]
         \/ WordsOf(m) = {Null} /\ m.coded = <<0>> /\ after = known[c]
         \/ \E id \in DOMAIN known[c] :
              WordsOf(m) = {known[c][id]} /\ m.coded = <<id>> /\ after = known[c]
         \/ \E w \in Words :
              /\ WordsOf(m) = {w} /\ m.coded = <<Len(known[c]) + 1, w>>
              /\ after = Append(known[c], w)
  BY <1>3, <1>4, EntryInCode
<1>7. Write(c, m) /\ teaching.keys # {}
  BY <1>1
<1> HIDE DEF e, m, after
<1>8. after \in Seq(Words)
  <2>1. \A w \in Words : Append(known[c], w) \in Seq(Words)
    BY <1>4, WordAppended
  <2> QED
    BY <1>4, <1>6, <2>1
<1>9. m.key \in Keys /\ Store!IsAssignment(m.values)
      /\ DOMAIN m.values = definitions[teaching.name].types
  BY <1>5, <1>6
<1>10. Codes(m, known[c], after)
  BY <1>6 DEF Codes
<1>11. Taught(c, m, after)
  BY <1>2, <1>3, <1>4, <1>6, <1>7, <1>8, <1>9, <1>10 DEF Taught
<1> QED
  BY <1>11

\* Every step keeps the words in order.
LEMMA WordsKeptStep ==
  ASSUME Types, MidLesson, \A c \in Conns : WordsKept(c), [Next]_vars
  PROVE  \A c \in Conns : WordsKept(c)'
<1> SUFFICES ASSUME NEW c \in Conns PROVE WordsKept(c)'
  OBVIOUS
<1>1. /\ Coded(written[c], known[c])
      /\ parser[c] = "ok" => AllIntroduced(written[c], known[c])
      /\ parser'[c] = "ok" => parser[c] = "ok" /\ ~TeachThrows(c)
      /\ known[c] \in Seq(Words) /\ IsSequence(written[c])
  BY StillOk DEF WordsKept, Types
<1>2. CASE written'[c] = written[c] /\ known'[c] = known[c]
  BY <1>1, <1>2 DEF WordsKept
<1>3. ASSUME NEW m, written'[c] = Append(written[c], m), m.kind # "entry",
             known'[c] = known[c]
      PROVE  WordsKept(c)'
  <2>1. /\ Coded(Append(written[c], m), known[c])
        /\ AllIntroduced(written[c], known[c]) =>
             AllIntroduced(Append(written[c], m), known[c])
    BY <1>1, <1>3, CodedThenOther
  <2> QED
    BY <1>1, <1>3, <2>1 DEF WordsKept
<1>4. ASSUME TeachEntry(c)
      PROVE  WordsKept(c)'
  <2>1. PICK m, after : Taught(c, m, after)
    BY <1>4, TaughtEntry
  <2>2. written'[c] = Append(written[c], m) /\ known'[c] = after
    BY <2>1 DEF Types, Write, Taught
  <2>3. Coded(Append(written[c], m), after) /\ AllIntroduced(Append(written[c], m), after)
    <3>1. CASE /\ after = known[c]
               /\ \/ WordsOf(m) = {} /\ m.coded = <<>>
                  \/ WordsOf(m) = {Null} /\ m.coded = <<0>>
                  \/ \E id \in DOMAIN known[c] :
                       WordsOf(m) = {known[c][id]} /\ m.coded = <<id>>
      BY <1>1, <2>1, <3>1, CodedThenKnown DEF Taught
    <3>2. ASSUME NEW w \in Words,
                 WordsOf(m) = {w}, m.coded = <<Len(known[c]) + 1, w>>,
                 after = Append(known[c], w)
          PROVE  /\ Coded(Append(written[c], m), after)
                 /\ AllIntroduced(Append(written[c], m), after)
      BY <1>1, <2>1, <3>2, CodedThenNew DEF Taught
    <3> QED
      BY <2>1, <3>1, <3>2 DEF Taught, Codes
  <2> QED
    BY <2>2, <2>3 DEF WordsKept
<1>5. ASSUME TeachThrows(c)
      PROVE  WordsKept(c)'
  <2>1. PICK k \in teaching.keys :
          \/ UNCHANGED known
          \/ known' = [known EXCEPT ![c] = KnownAfter(@, Encoded(teaching.name, k))]
    BY <1>5 DEF TeachThrows
  <2>2. InLesson(c) /\ UNCHANGED written
    BY <1>5 DEF TeachThrows, BrokenOff
  <2>3. /\ teaching.name \in DOMAIN definitions /\ k \in DOMAIN entries[teaching.name]
    BY <2>1, <2>2, InLessonIs
  <2> DEFINE after == KnownAfter(known[c], Encoded(teaching.name, k))
  <2>4. after = known[c] \/ \E w \in Words : after = Append(known[c], w)
    BY <1>1, <2>3, EntryInCode
  <2>5. known'[c] = known[c] \/ known'[c] = after
    BY <2>1 DEF Types
  <2> HIDE DEF after
  <2>6. Coded(written[c], known'[c])
    <3>1. \A w \in Words : Coded(written[c], Append(known[c], w))
      BY <1>1, CodedWithWord
    <3> QED
      BY <1>1, <2>4, <2>5, <3>1
  <2> QED
    BY <1>1, <1>5, <2>2, <2>6 DEF WordsKept
<1>6. ASSUME NEW o \in Conns, o # c, TeachEntry(o) \/ TeachThrows(o)
      PROVE  written'[c] = written[c] /\ known'[c] = known[c]
  <2>1. UNCHANGED written \/ \E m : Write(o, m)
    BY <1>6 DEF TeachEntry, TeachThrows, BrokenOff
  <2>2. UNCHANGED known \/ \E k : known' = [known EXCEPT ![o] = k]
    BY <1>6 DEF TeachEntry, TeachThrows
  <2> QED
    BY <1>6, <2>1, <2>2 DEF Types, Write
<1>7. ASSUME NEW o \in Conns, TeachTable(o)
      PROVE  \E m : Write(o, m) /\ m.kind = "definition" /\ UNCHANGED known
  BY <1>7 DEF TeachTable, TellDefinition, Definition
<1>8. ASSUME NEW o \in Conns, NEW m, Write(o, m), m.kind # "entry", UNCHANGED known
      PROVE  WordsKept(c)'
  <2>1. CASE o = c
    BY <1>3, <1>8, <2>1 DEF Types, Write
  <2>2. CASE o # c
    BY <1>2, <1>8, <2>2 DEF Types, Write
  <2> QED
    BY <2>1, <2>2
<1>9. CASE UNCHANGED <<written, known>>
  BY <1>2, <1>9
<1>10. CASE \E o \in Conns, m \in WrittenMessages :
              Write(o, m) /\ m.kind \notin {"entry", "definition"} /\ UNCHANGED known
  BY <1>8, <1>10
<1>11. CASE \E o \in Conns : TeachTable(o) \/ TeachEntry(o) \/ TeachThrows(o)
  BY <1>2, <1>4, <1>5, <1>6, <1>7, <1>8, <1>11
<1> QED
  BY <1>9, <1>10, <1>11, Tells
-----------------------------------------------------------------------------
\* What is stored with an id at most at one place, so it is what is read.
LEMMA WordsKeptImplies ==
  ASSUME Types, \A c \in Conns : WordsKept(c)
  PROVE  LessonsResolve
<1> SUFFICES ASSUME NEW c \in Conns, NEW i \in DOMAIN written[c], NEW w \in WordsOf(written[c][i])
             PROVE  WordRead(c, i) = w
  BY DEF LessonsResolve
<1> DEFINE said   == written[c]
           words  == known[c]
           coded  == said[i].coded
           stored == {j \in 1..i : /\ said[j].kind = "entry"
                                  /\ Len(said[j].coded) = 2
                                  /\ said[j].coded[1] = coded[1]}
<1>1. /\ words \in Seq(Words) /\ IsSequence(said) /\ Coded(said, words)
      /\ Len(said) \in Nat /\ DOMAIN said = 1..Len(said)
  <2>1. IsSequence(said)
    BY DEF Types
  <2> QED
    BY <2>1, Appended DEF Types, WordsKept
<1>2. said[i].kind = "entry" /\ CodedWord(said, words, i)
  BY <1>1 DEF Coded, WordsOf
<1>3. WordRead(c, i) = IF coded = <<0>> THEN Null
                       ELSE IF stored = {} THEN None ELSE said[Max(stored)].coded[2]
  BY Zenon DEF WordRead
<1> HIDE DEF said, words
<1>4. i \in DOMAIN said /\ w \in WordsOf(said[i])
  BY DEF said
<1>5. CASE WordsOf(said[i]) = {Null} /\ said[i].coded = <<0>>
  BY <1>3, <1>4, <1>5
<1>6. ASSUME NEW id \in DOMAIN words, WordsOf(said[i]) = {words[id]},
             \/ said[i].coded = <<id, words[id]>>
             \/ said[i].coded = <<id>> /\ \E j \in 1..i : Introduces(said, words, j, id)
      PROVE  WordRead(c, i) = w
  <2>1. coded[1] = id /\ w = words[id] /\ coded # <<0>>
    <3>1. id # 0
      BY <1>1
    <3>2. <<id>> # <<0>> /\ <<id, words[id]>> # <<0>>
      BY <3>1, CodeLengths
    <3> QED
      BY <1>4, <1>6, <3>2
  <2>2. PICK j \in 1..i : Introduces(said, words, j, id)
    <3>1. i \in 1..i
      BY <1>1, <1>4
    <3> QED
      BY <1>1, <1>2, <1>4, <1>6, <3>1 DEF Introduces
  <2>3. j \in stored
    BY <2>1, <2>2 DEF Introduces
  <2>4. ASSUME NEW l \in stored
        PROVE  l = j
    <3>1. l \in DOMAIN said /\ said[l].kind = "entry"
      BY <1>1, <1>4
    <3>2. CodedWord(said, words, l)
      BY <1>1, <3>1 DEF Coded
    <3>3. Len(said[l].coded) = 2 /\ said[l].coded[1] = id
      BY <2>1
    <3>4. \E x \in DOMAIN words : said[l].coded = <<x, words[x]>>
      <4>1. ASSUME NEW x
            PROVE  said[l].coded # <<>> /\ said[l].coded # <<x>>
        <5>1. Len(<<>>) = 0 /\ Len(<<x>>) = 1
          BY CodeLengths
        <5>2. 2 # 0 /\ 2 # 1
          OBVIOUS
        <5> QED
          BY <3>3, <5>1, <5>2, Zenon
      <4> QED
        BY <3>2, <4>1 DEF CodedWord
    <3>5. said[l].coded = <<id, words[id]>>
      BY <3>3, <3>4
    <3>6. Introduces(said, words, l, id)
      BY <3>1, <3>5 DEF Introduces
    <3> QED
      BY <1>1, <2>2, <3>6 DEF Coded, Introduces
  <2>5. stored \subseteq Nat /\ \A l \in stored : j >= l
    <3>1. i \in Nat
      BY <1>1, <1>4
    <3> QED
      BY <2>4, <3>1
  <2>6. Max(stored) = j
    BY <2>3, <2>5, MaxIs
  <2>7. said[j].coded[2] = w
    BY <2>1, <2>2 DEF Introduces
  <2> QED
    BY <1>3, <2>1, <2>3, <2>6, <2>7
<1> QED
  BY <1>2, <1>4, <1>5, <1>6 DEF CodedWord

-----------------------------------------------------------------------------
(* Definitions and the entries read under them. *)

\* The last definition before place i is d.
ReadsAs(said, i, d) ==
  \E j \in 1..i :
    /\ said[j].kind = "definition" /\ said[j].definition = d
    /\ \A l \in (j + 1)..i : said[l].kind # "definition"

\* The entry at place i is read under its own table and has all its types.
EntryRead(said, i) ==
  \E d \in Definitions :
    ReadsAs(said, i, d) /\ d.name = said[i].name /\ d.types = DOMAIN said[i].values

OwnNames == \A n \in DOMAIN definitions : definitions[n].name = n

LessonsRead ==
  /\ OwnNames
  /\ teaching # None /\ teaching.keys # {} =>
       ReadsAs(written[teaching.conn], Len(written[teaching.conn]),
               definitions[teaching.name])
  /\ \A c \in Conns : \A i \in DOMAIN written[c] :
       written[c][i].kind = "entry" => EntryRead(written[c], i)

\* What was read as d stays read so, and d is what comes next is read as, until
\* the next definition.
LEMMA ReadsAsLater ==
  ASSUME NEW said, IsSequence(said), NEW m
  PROVE  /\ \A i \in DOMAIN said : \A d : ReadsAs(said, i, d) => ReadsAs(Append(said, m), i, d)
         /\ m.kind # "definition" =>
              \A d : ReadsAs(said, Len(said), d) => ReadsAs(Append(said, m), Len(said) + 1, d)
         /\ m.kind = "definition" => ReadsAs(Append(said, m), Len(said) + 1, m.definition)
         /\ \A i \in DOMAIN said : EntryRead(said, i) => EntryRead(Append(said, m), i)
<1> DEFINE more == Append(said, m)
           last == Len(said) + 1
<1>1. /\ Len(said) \in Nat /\ DOMAIN said = 1..Len(said)
      /\ DOMAIN more = 1..(Len(said) + 1)
      /\ \A i \in 1..Len(said) : more[i] = said[i]
      /\ more[last] = m
  BY Appended
<1> HIDE DEF more
<1>2. ASSUME NEW i \in DOMAIN said, NEW d, ReadsAs(said, i, d)
      PROVE  ReadsAs(more, i, d)
  <2>1. PICK j \in 1..i :
          /\ said[j].kind = "definition" /\ said[j].definition = d
          /\ \A l \in (j + 1)..i : said[l].kind # "definition"
    BY <1>2 DEF ReadsAs
  <2>2. \A l \in 1..i : more[l] = said[l]
    BY <1>1
  <2>3. \A l \in (j + 1)..i : l \in 1..i
    BY <1>1
  <2> QED
    BY <2>1, <2>2, <2>3 DEF ReadsAs
<1>3. ASSUME m.kind # "definition", NEW d, ReadsAs(said, Len(said), d)
      PROVE  ReadsAs(more, last, d)
  <2>1. PICK j \in 1..Len(said) :
          /\ said[j].kind = "definition" /\ said[j].definition = d
          /\ \A l \in (j + 1)..Len(said) : said[l].kind # "definition"
    BY <1>3 DEF ReadsAs
  <2>2. \A l \in (j + 1)..last : more[l].kind # "definition"
    <3>1. \A l \in (j + 1)..last : \/ l = last
                                 \/ (l \in (j + 1)..Len(said) /\ l \in 1..Len(said))
      BY <1>1
    <3> QED
      BY <1>1, <1>3, <2>1, <3>1
  <2>3. j \in 1..last /\ more[j] = said[j]
    BY <1>1
  <2> QED
    BY <2>1, <2>2, <2>3 DEF ReadsAs
<1>4. ASSUME m.kind = "definition"
      PROVE  ReadsAs(more, last, m.definition)
  <2>1. last \in 1..last /\ \A l \in (last + 1)..last : FALSE
    BY <1>1
  <2> QED
    BY <1>1, <1>4, <2>1 DEF ReadsAs
<1>5. \A i \in DOMAIN said : EntryRead(said, i) => EntryRead(more, i)
  BY <1>1, <1>2 DEF EntryRead
<1> QED
  BY <1>2, <1>3, <1>4, <1>5 DEF more

\* The store keeps definitions under their own names.
LEMMA OwnNamesStep ==
  ASSUME Types, OwnNames, [Next]_vars
  PROVE  OwnNames'
<1>1. [Store!Next]_Store!vars
  BY StoreStep
<1>2. \/ UNCHANGED definitions
      \/ \E d \in Definitions : definitions' = Store!Put(definitions, d.name, d)
  BY <1>1 DEF Store!Next, Store!vars, Store!ApplyDefinition, Store!ApplyUpdate,
    Store!ClearEntries
<1>3. ASSUME NEW d \in Definitions, definitions' = Store!Put(definitions, d.name, d)
      PROVE  OwnNames'
  <2>1. definitions' = [x \in DOMAIN definitions \cup {d.name} |->
                          IF x = d.name THEN d ELSE definitions[x]]
    BY <1>3 DEF Store!Put
  <2> QED
    BY <2>1 DEF OwnNames
<1> QED
  BY <1>2, <1>3 DEF OwnNames

\* What the next entry of a lesson is read under.
LEMMA MidLessonRead ==
  ASSUME Types, MidLesson, LessonsRead, [Next]_vars
  PROVE  (teaching # None /\ teaching.keys # {} =>
            ReadsAs(written[teaching.conn], Len(written[teaching.conn]),
                    definitions[teaching.name]))'
<1> SUFFICES ASSUME teaching' # None, teaching'.keys # {}
             PROVE  ReadsAs(written'[teaching'.conn], Len(written'[teaching'.conn]),
                            definitions'[teaching'.name])
  OBVIOUS
<1>1. CASE UNCHANGED <<phase, timer, parser, table, known, written, teaching, storeVars>>
  <2>1. /\ written' = written /\ teaching' = teaching /\ definitions' = definitions
    BY <1>1 DEF storeVars
  <2>2. ReadsAs(written[teaching.conn], Len(written[teaching.conn]),
                definitions[teaching.name])
    BY <2>1 DEF LessonsRead
  <2> QED
    BY <2>1, <2>2
<1>2. ASSUME NEW c \in Conns, TeachTable(c)
      PROVE  ReadsAs(written'[teaching'.conn], Len(written'[teaching'.conn]),
                     definitions'[teaching'.name])
  <2>1. PICK n \in teaching.tables :
          /\ Write(c, Definition(definitions[n]))
          /\ teaching' = [conn |-> c, name |-> n, keys |-> DOMAIN entries[n],
                          tables |-> teaching.tables \ {n}]
    BY <1>2 DEF TeachTable, TellDefinition
  <2>2. definitions' = definitions
    BY <1>2 DEF TeachTable, storeVars
  <2> DEFINE m == Definition(definitions[n])
  <2>3. written'[c] = Append(written[c], m) /\ IsSequence(written[c])
        /\ Len(written'[c]) = Len(written[c]) + 1
    BY <2>1, WriteStep DEF Types, Write
  <2>4. m.kind = "definition" /\ m.definition = definitions[n]
    BY DEF Definition
  <2> HIDE DEF m
  <2>5. ReadsAs(Append(written[c], m), Len(written[c]) + 1, definitions[n])
    BY <2>3, <2>4, ReadsAsLater
  <2> QED
    BY <2>1, <2>2, <2>3, <2>5
<1>3. ASSUME NEW c \in Conns, TeachEntry(c)
      PROVE  ReadsAs(written'[teaching'.conn], Len(written'[teaching'.conn]),
                     definitions'[teaching'.name])
  <2>1. PICK m, after : Taught(c, m, after)
    BY <1>3, TaughtEntry
  <2>2. definitions' = definitions /\ InLesson(c)
        /\ \E k \in teaching.keys : teaching' = [teaching EXCEPT !.keys = @ \ {k}]
    BY <1>3 DEF TeachEntry, storeVars
  <2>3. teaching'.conn = c /\ teaching'.name = teaching.name
    BY <2>2, InLessonIs DEF Lessons
  <2>4. ReadsAs(written[c], Len(written[c]), definitions[teaching.name])
    BY <2>1, <2>2 DEF LessonsRead, Taught, InLesson
  <2>5. written'[c] = Append(written[c], m) /\ IsSequence(written[c])
        /\ Len(written'[c]) = Len(written[c]) + 1 /\ m.kind # "definition"
    BY <2>1, WriteStep DEF Types, Write, Taught
  <2>6. ReadsAs(Append(written[c], m), Len(written[c]) + 1, definitions[teaching.name])
    BY <2>4, <2>5, ReadsAsLater
  <2> QED
    BY <2>2, <2>3, <2>5, <2>6
<1>4. ASSUME NEW c \in Conns, Teach(c) \/ TeachThrows(c) \/ TeachEnd(c)
      PROVE  FALSE
  BY <1>4 DEF Teach, TeachThrows, TeachEnd
<1> QED
  BY <1>1, <1>2, <1>3, <1>4, LessonAlone DEF Teaches

\* Every step leaves what was taught readable.
LEMMA LessonsReadStep ==
  ASSUME Types, MidLesson, LessonsRead, [Next]_vars
  PROVE  LessonsRead'
<1>1. ASSUME NEW o \in Conns, NEW m, Write(o, m),
             m.kind = "entry" =>
               \E d \in Definitions :
                 /\ ReadsAs(written[o], Len(written[o]), d)
                 /\ d.name = m.name /\ d.types = DOMAIN m.values,
             NEW c \in Conns, NEW i \in DOMAIN written'[c], written'[c][i].kind = "entry"
      PROVE  EntryRead(written'[c], i)
  <2>1. CASE c # o
    BY <1>1, <2>1 DEF Types, Write, LessonsRead
  <2>2. CASE c = o
    <3>1. /\ written'[o] = Append(written[o], m) /\ IsSequence(written[o])
          /\ Len(written[o]) \in Nat /\ DOMAIN written[o] = 1..Len(written[o])
          /\ DOMAIN written'[o] = 1..(Len(written[o]) + 1)
          /\ \A j \in 1..Len(written[o]) : written'[o][j] = written[o][j]
          /\ written'[o][Len(written[o]) + 1] = m
      BY <1>1, WriteStep DEF Types, Write
    <3>2. CASE i \in DOMAIN written[o]
      <4>1. EntryRead(written[o], i)
        BY <1>1, <2>2, <3>1, <3>2 DEF LessonsRead
      <4>2. EntryRead(Append(written[o], m), i)
        BY <3>1, <3>2, <4>1, ReadsAsLater
      <4> QED
        BY <2>2, <3>1, <4>2
    <3>3. CASE i = Len(written[o]) + 1
      <4>1. PICK d \in Definitions :
              /\ ReadsAs(written[o], Len(written[o]), d)
              /\ d.name = m.name /\ d.types = DOMAIN m.values
        BY <1>1, <2>2, <3>1, <3>3
      <4>2. m.kind # "definition"
        BY <1>1, <2>2, <3>1, <3>3
      <4>3. ReadsAs(Append(written[o], m), Len(written[o]) + 1, d)
        BY <3>1, <4>1, <4>2, ReadsAsLater
      <4> QED
        BY <2>2, <3>1, <3>3, <4>1, <4>3 DEF EntryRead
    <3> QED
      BY <1>1, <2>2, <3>1, <3>2, <3>3
  <2> QED
    BY <2>1, <2>2
<1> DEFINE Read == \A c \in Conns : \A i \in DOMAIN written'[c] :
                     written'[c][i].kind = "entry" => EntryRead(written'[c], i)
<1>2. ASSUME UNCHANGED written
      PROVE  Read
  BY <1>2 DEF LessonsRead
<1>3. ASSUME NEW o \in Conns, NEW m, Write(o, m), m.kind # "entry"
      PROVE  Read
  BY <1>1, <1>3
<1>4. ASSUME NEW o \in Conns, TeachTable(o)
      PROVE  Read
  <2>1. \E m : Write(o, m) /\ m.kind = "definition"
    BY <1>4 DEF TeachTable, TellDefinition, Definition
  <2> QED
    BY <1>3, <2>1
<1>5. ASSUME NEW o \in Conns, TeachEntry(o)
      PROVE  Read
  <2>1. PICK m, after : Taught(o, m, after)
    BY <1>5, TaughtEntry
  <2>2. InLesson(o)
    BY <1>5 DEF TeachEntry
  <2>3. ReadsAs(written[o], Len(written[o]), definitions[teaching.name])
    BY <2>1, <2>2 DEF LessonsRead, InLesson, Taught
  <2>4. /\ teaching.name \in DOMAIN definitions
        /\ definitions[teaching.name].name = m.name
        /\ definitions[teaching.name].types = DOMAIN m.values
        /\ Write(o, m)
    BY <2>1 DEF Taught, LessonsRead, OwnNames
  <2>5. definitions[teaching.name] \in Definitions
    BY <2>4, StoreTypes DEF Store!TypeOK
  <2> QED
    BY <1>1, <2>3, <2>4, <2>5
<1>6. ASSUME NEW o \in Conns, TeachThrows(o)
      PROVE  UNCHANGED written
  BY <1>6 DEF TeachThrows, BrokenOff
<1>7. Read
  <2>1. CASE UNCHANGED <<written, known>>
    BY <1>2, <2>1
  <2>2. CASE \E c \in Conns, m \in WrittenMessages :
               Write(c, m) /\ m.kind \notin {"entry", "definition"} /\ UNCHANGED known
    BY <1>3, <2>2
  <2>3. CASE \E c \in Conns : TeachTable(c) \/ TeachEntry(c) \/ TeachThrows(c)
    BY <1>2, <1>4, <1>5, <1>6, <2>3
  <2> QED
    BY <2>1, <2>2, <2>3, Tells
<1> HIDE DEF Read
<1>8. OwnNames'
  BY OwnNamesStep DEF LessonsRead
<1> QED
  BY <1>7, <1>8, MidLessonRead DEF LessonsRead, Read

\* So the last definition before an entry is the one it was taught under.
LEMMA LessonsReadImplies == Types /\ LessonsRead => LessonsReadable
<1> SUFFICES ASSUME Types, LessonsRead, NEW c \in Conns, NEW i \in DOMAIN written[c],
                    written[c][i].kind = "entry"
             PROVE  /\ ReadUnder(c, i) # None
                    /\ ReadUnder(c, i).name = written[c][i].name
                    /\ ReadUnder(c, i).types = DOMAIN written[c][i].values
  BY DEF LessonsReadable
<1> DEFINE said == written[c]
           defs == {j \in 1..i : said[j].kind = "definition"}
<1>1. PICK d \in Definitions : /\ ReadsAs(said, i, d)
                               /\ d.name = said[i].name /\ d.types = DOMAIN said[i].values
  BY DEF LessonsRead, EntryRead
<1>2. PICK j \in 1..i : /\ said[j].kind = "definition" /\ said[j].definition = d
                        /\ \A l \in (j + 1)..i : said[l].kind # "definition"
  BY <1>1 DEF ReadsAs
<1>3. i \in Nat
  <2>1. IsSequence(said)
    BY DEF Types
  <2> QED
    BY <2>1, Appended
<1>4. ReadUnder(c, i) = IF defs = {} THEN None ELSE said[Max(defs)].definition
  BY Zenon DEF ReadUnder
<1> HIDE DEF said
<1>5. j \in defs /\ defs \subseteq Nat /\ \A l \in defs : j >= l
  BY <1>2, <1>3
<1>6. Max(defs) = j
  BY <1>5, MaxIs
<1>7. ReadUnder(c, i) = d
  BY <1>2, <1>4, <1>5, <1>6
<1> QED
  BY <1>1, <1>7, ServerAssumption DEF said
=============================================================================
