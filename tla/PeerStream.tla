----------------------------- MODULE PeerStream -----------------------------
(***************************************************************************)
(* The frames of a peer connection and what a stream of them means, said   *)
(* without a parser, a buffer or a state: each operator looks at the whole *)
(* sequence of frames sent.  PeerParser pushes messages that mean this.    *)
(***************************************************************************)
EXTENDS Naturals, Sequences, FiniteSets

CONSTANTS
  Tables,       \* table definitions
  Keys,         \* ids of the lines of the dictionary cache
  Words,        \* strings of a server-side dictionary
  None          \* no table, no word

ASSUME NoneAssumption == None \notin Tables \cup Words

(***************************************************************************)
(* class    "control", "definition", "update" (all four entry updates),    *)
(*          "unhandled" (a control class or update type without a case),   *)
(*          "unknown" (a class byte that is neither control nor update)    *)
(* head     bytes of the length varint, body the bytes it announces; both  *)
(*          0 for a frame that has none                                    *)
(* valid    the body parses: its fields fill the length, its types exist   *)
(* table    what a definition defines                                      *)
(* incremental, id   an update's id: previous plus one, or explicit        *)
(* dict, key, word   an update's dictionary value: none, a new line of the *)
(*          cache with its id and string, or a reference to a line         *)
(***************************************************************************)
Frame == [class : {"control", "definition", "update", "unhandled", "unknown"},
          head : Nat, body : Nat, valid : BOOLEAN,
          table : Tables, incremental : BOOLEAN, id : Nat,
          dict : {"none", "line", "reference"}, key : Keys, word : Words]

\* The bytes that tell what a frame is, and all of its bytes.
HeaderSize(f) == IF f.class = "unknown" THEN 1 ELSE 2
Size(f)       == HeaderSize(f) + f.head + f.body

\* What a parser pushes for a frame it understands.
Messages == [class : {"control"}]
            \cup [class : {"definition"}, table : Tables]
            \cup [class : {"update"}, table : Tables, id : Nat,
                  dict : Words \cup {None}]

-----------------------------------------------------------------------------
\* What has come up to the i-th frame of a stream s.
IsUpdate(s, j) == s[j].class = "update"

Definitions(s, i) == {j \in 1..i : s[j].class = "definition"}
Explicits(s, i)   == {j \in 1..i : IsUpdate(s, j) /\ ~s[j].incremental}
Lines(s, i, key)  == {j \in 1..i : /\ IsUpdate(s, j) /\ s[j].dict = "line"
                                   /\ s[j].key = key}
CountedSince(s, j, i) ==
  {k \in (j + 1)..i : IsUpdate(s, k) /\ s[k].incremental}

\* j is the last of a set of positions, 0 when there is none.
IsLast(j, S) == IF S = {} THEN j = 0 ELSE j \in S /\ \A k \in S : k <= j

\* After i frames t is the table in force, n the update id counted to, and w
\* the word of a key.
TableIs(s, i, t) ==
  \E j \in 0..i : /\ IsLast(j, Definitions(s, i))
                  /\ t = IF j = 0 THEN None ELSE s[j].table

IdIs(s, i, n) ==
  \E j \in 0..i : /\ IsLast(j, Explicits(s, i))
                  /\ n = (IF j = 0 THEN 0 ELSE s[j].id)
                           + Cardinality(CountedSince(s, j, i))

WordIs(s, i, key, w) ==
  \E j \in 0..i : /\ IsLast(j, Lines(s, i, key))
                  /\ w = IF j = 0 THEN None ELSE s[j].word

\* m is what the i-th frame means.
Means(s, m, i) ==
  LET f == s[i] IN
    CASE f.class = "definition" -> m = [class |-> "definition", table |-> f.table]
      [] f.class = "update"     -> /\ m.class = "update"
                                   /\ TableIs(s, i, m.table)
                                   /\ IdIs(s, i, m.id)
                                   /\ IF f.dict = "none" THEN m.dict = None
                                      ELSE WordIs(s, i, f.key, m.dict)
      [] OTHER                  -> m = [class |-> "control"]

\* The i-th frame can be understood after the ones before it.
Understandable(s, i) ==
  LET f == s[i] IN
    /\ f.class \in {"control", "definition", "update"}
    /\ f.class # "control" => f.valid
    /\ f.class = "update" => Definitions(s, i) # {}
    /\ f.class = "update" /\ f.dict = "reference" => Lines(s, i, f.key) # {}

=============================================================================
