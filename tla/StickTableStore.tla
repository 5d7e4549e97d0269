--------------------------- MODULE StickTableStore ---------------------------
(***************************************************************************)
(* The store of src/aggregator.ts, where every connection applies what it  *)
(* receives: table definitions by table name, and per table the entries by *)
(* key.  A table is known exactly when it has a definition, so a map of    *)
(* its own for the tables is not needed.                                   *)
(*                                                                         *)
(* The five sets of data types are the cases defaultMergeStrategy tells    *)
(* apart; a rate keeps its tick and one of its two counters (the other is  *)
(* added the same way), an array holds plain counters.  Numbers are not    *)
(* reduced to a width, as they are not in the code.  An entry's expiry is  *)
(* that of the last update and is left out.                                *)
(*                                                                         *)
(* `history' is not in the code: the updates each entry is made of, with   *)
(* the peer they came from, which the store itself is never told.          *)
(***************************************************************************)
EXTENDS Naturals, Sequences, FiniteSetsExt

CONSTANTS
  Names, Keys, Peers,
  Words,            \* values of dictionary entries
  Counters,         \* summed (isCounter)
  Rates,            \* frequency counters
  Arrays,           \* arrays of counters
  Dictionaries,     \* dictionary entries
  Latests,          \* the last value wins: ids, tags, signed integers
  Definitions,      \* definitions a peer may send
  Updates,          \* entry updates a peer may send
  MaxUpdates,       \* bound on the updates applied
  Null              \* a dictionary's null

DataTypes == Counters \cup Rates \cup Arrays \cup Dictionaries \cup Latests

ValuesOf(t) ==
  CASE t \in Counters \cup Latests -> Nat
    [] t \in Rates                 -> [tick : Nat, count : Nat]
    [] t \in Arrays                -> Seq(Nat)
    [] t \in Dictionaries          -> Words \cup {Null}

\* An assignment gives some data types a value.
IsAssignment(v) ==
  DOMAIN v \subseteq DataTypes /\ \A t \in DOMAIN v : v[t] \in ValuesOf(t)

\* A definition names a table, its data types and the length of its arrays;
\* an update assigns values to a key.
ASSUME DataTypesAssumption ==
  /\ Counters \cap (Rates \cup Arrays \cup Dictionaries \cup Latests) = {}
  /\ Rates \cap (Arrays \cup Dictionaries \cup Latests) = {}
  /\ Arrays \cap (Dictionaries \cup Latests) = {}
  /\ Dictionaries \cap Latests = {}

ASSUME InputsAssumption ==
  /\ MaxUpdates \in Nat
  /\ \A d \in Definitions :
       d.name \in Names /\ d.types \subseteq DataTypes /\ d.count \in Nat
  /\ \A u \in Updates : u.key \in Keys /\ IsAssignment(u.values)

VARIABLES
  definitions,      \* this.definitions, a map from names
  entries,          \* this.tables: per name a map from keys to assignments
  history           \* per name and key the updates an entry is made of

vars == <<definitions, entries, history>>

\* Map.set
Put(map, k, v) == [x \in DOMAIN map \cup {k} |-> IF x = k THEN v ELSE map[x]]

Init ==
  /\ definitions = <<>>
  /\ entries = [n \in Names |-> <<>>]
  /\ history = [n \in Names |-> [k \in Keys |-> <<>>]]

-----------------------------------------------------------------------------
\* Operators named <definition>_<fault> are faulty variants of a definition:
\* each breaks one property, which shows that the property can fail.

MergeRates_LastWins(old, new) == new

\* mergeFrequencyCounters: equal ticks add up, otherwise the later one wins.
MergeRates(old, new) ==
  CASE old.tick = new.tick -> [tick |-> new.tick, count |-> old.count + new.count]
    [] new.tick > old.tick -> new
    [] new.tick < old.tick -> old

\* Element by element; what one of them lacks is taken from the other.
MergeArrays_Shortest(old, new) ==
  [i \in 1..(IF Len(old) < Len(new) THEN Len(old) ELSE Len(new)) |->
     old[i] + new[i]]

MergeArrays(old, new) ==
  [i \in 1..(IF Len(old) < Len(new) THEN Len(new) ELSE Len(old)) |->
     CASE i > Len(old) -> new[i]
       [] i > Len(new) -> old[i]
       [] OTHER        -> old[i] + new[i]]

\* defaultMergeStrategy, for a data type that has a value already.
Merge(t, old, new) ==
  CASE t \in Counters     -> old + new
    [] t \in Rates        -> MergeRates(old, new)
    [] t \in Arrays       -> MergeArrays(old, new)
    [] t \in Dictionaries -> IF new = Null THEN old ELSE new
    [] t \in Latests      -> new

DefaultValue_AlwaysNull(t, d) == Null

\* defaultValue: what no later merge will show.
DefaultValue(t, d) ==
  CASE t \in Counters \cup Latests -> 0
    [] t \in Rates                 -> [tick |-> 0, count |-> 0]
    [] t \in Arrays                -> [i \in 1..d.count |-> 0]
    [] t \in Dictionaries          -> Null

Completed_DropsOthers(v, d) ==
  [t \in d.types |-> IF t \in DOMAIN v THEN v[t] ELSE DefaultValue(t, d)]

\* Every data type of the definition gets a value.
Completed(v, d) ==
  [t \in DOMAIN v \cup d.types |->
     IF t \in DOMAIN v THEN v[t] ELSE DefaultValue(t, d)]

\* An entry's values with those of an update merged into them.
Merged(old, new) ==
  [t \in DOMAIN old \cup DOMAIN new |->
     CASE t \notin DOMAIN new -> old[t]
       [] t \notin DOMAIN old -> new[t]
       [] OTHER               -> Merge(t, old[t], new[t])]

\* The values an update finds.
Existing(name, key) ==
  IF key \in DOMAIN entries[name] THEN entries[name][key] ELSE <<>>

-----------------------------------------------------------------------------
AppliedUpdates == {[peer |-> p, types |-> d.types, values |-> u.values] :
                     p \in Peers, d \in Definitions, u \in Updates}

ApplyDefinition(d) ==
  /\ definitions' = Put(definitions, d.name, d)
  /\ UNCHANGED <<entries, history>>

\* applyUpdate, which refreshes the definition first, and keeps what the update
\* has beyond the data types of the definition.
ApplyUpdate(p, d, u) ==
  /\ definitions' = Put(definitions, d.name, d)
  /\ entries' = [entries EXCEPT ![d.name] =
       Put(@, u.key, Completed(Merged(Existing(d.name, u.key), u.values), d))]
  /\ history' = [history EXCEPT ![d.name][u.key] =
       Append(@, [peer |-> p, types |-> d.types, values |-> u.values])]

ClearEntries(name) ==
  /\ entries' = [entries EXCEPT ![name] = <<>>]
  /\ history' = [history EXCEPT ![name] = [k \in Keys |-> <<>>]]
  /\ UNCHANGED definitions

Applied == MapThenSumSet(LAMBDA nk : Len(history[nk[1]][nk[2]]), Names \X Keys)

Next ==
  \/ \E d \in Definitions : ApplyDefinition(d)
  \/ /\ Applied < MaxUpdates
     /\ \E p \in Peers, d \in Definitions, u \in Updates : ApplyUpdate(p, d, u)
  \/ \E name \in Names : ClearEntries(name)

Spec == Init /\ [][Next]_vars

-----------------------------------------------------------------------------
\* Type invariant: a definition is one that was sent, and an entry assigns
\* values of the right kind to data types.
TypeOK ==
  /\ DOMAIN definitions \subseteq Names
  /\ \A n \in DOMAIN definitions : definitions[n] \in Definitions
  /\ DOMAIN entries = Names /\ DOMAIN history = Names
  /\ \A n \in Names :
       /\ DOMAIN entries[n] \subseteq Keys /\ DOMAIN history[n] = Keys
       /\ \A k \in DOMAIN entries[n] : IsAssignment(entries[n][k])
       /\ \A k \in Keys : history[n][k] \in Seq(AppliedUpdates)

(***************************************************************************)
(* What an entry should be, said of its whole history at once: the samples *)
(* of a data type are the positions of the updates that gave it a value.   *)
(***************************************************************************)
Samples(h, t)  == {i \in 1..Len(h) : t \in DOMAIN h[i].values}
Value(h, t, i) == h[i].values[t]
LastOf(S)      == CHOOSE i \in S : \A j \in S : j <= i

\* The sum of a function's values.
Total(f) == MapThenSumSet(LAMBDA i : f[i], DOMAIN f)

SumOver(S, h, t) == Total([i \in S |-> Value(h, t, i)])

\* The latest tick there was, and the sum over the samples of that tick.
RateIs(v, S, h, t) ==
  LET latest == {i \in S : Value(h, t, i).tick = v.tick}
  IN /\ \A i \in S : Value(h, t, i).tick <= v.tick
     /\ v.tick = 0 \/ latest # {}
     /\ v.count = Total([i \in latest |-> Value(h, t, i).count])

\* The sum of the items that are there, place by place.
ArrayIs(v, S, h, t) ==
  /\ \A i \in S : Len(Value(h, t, i)) <= Len(v)
  /\ \A x \in 1..Len(v) :
       v[x] = Total([i \in {j \in S : x <= Len(Value(h, t, j))} |-> Value(h, t, i)[x]])

WordIs(v, S, h, t) ==
  LET spelled == {i \in S : Value(h, t, i) # Null}
  IN v = IF spelled = {} THEN Null ELSE Value(h, t, LastOf(spelled))

LatestIs(v, S, h, t) == v = IF S = {} THEN 0 ELSE Value(h, t, LastOf(S))

\* v is what the samples of t amount to.
Aggregates(v, h, t) ==
  LET S == Samples(h, t) IN
    CASE t \in Counters     -> v = SumOver(S, h, t)
      [] t \in Rates        -> RateIs(v, S, h, t)
      [] t \in Arrays       -> ArrayIs(v, S, h, t)
      [] t \in Dictionaries -> WordIs(v, S, h, t)
      [] t \in Latests      -> LatestIs(v, S, h, t)

\* Every entry is the aggregate of the updates it is made of, whichever
\* tables the peers redefine in between and whichever types an update lacks:
\* the defaults that complete an entry never show in a later merge.  For
\* counters, rates and arrays the aggregate does not depend on the order, so
\* neither does it on how the connections interleave.
EntriesAggregateHistory ==
  \A n \in Names, k \in Keys :
    /\ k \in DOMAIN entries[n] <=> history[n][k] # <<>>
    /\ k \in DOMAIN entries[n] =>
         \A t \in DOMAIN entries[n][k] :
           Aggregates(entries[n][k][t], history[n][k], t)

\* An entry has every data type of every definition that any of its updates
\* came with, and every one that an update gave a value, the narrower
\* definitions of other peers notwithstanding.
CompleteForItsUpdates ==
  \A n \in Names, k \in Keys :
    \A i \in 1..Len(history[n][k]) :
      /\ k \in DOMAIN entries[n]
      /\ history[n][k][i].types \cup DOMAIN history[n][k][i].values
           \subseteq DOMAIN entries[n][k]

NotBehind(t, old, new) ==
  /\ t \in Counters => new >= old
  /\ t \in Rates => new.tick >= old.tick
  /\ t \in Arrays => Len(new) >= Len(old)

Forward ==
  \A n \in Names : \A k \in DOMAIN entries[n] \cap DOMAIN entries'[n] :
    \A t \in DOMAIN entries[n][k] :
      t \in DOMAIN entries'[n][k] /\ NotBehind(t, entries[n][k][t], entries'[n][k][t])

\* Until a table is cleared its entries lose no data type, their counters never
\* go back, their rates never go back to an older tick and their arrays never
\* get shorter.
NeverBackwards == [][Forward]_vars

\* What the comment of MergeStrategy says: the values merged into one come
\* from different peers.  An entry's counter is then the sum of what each
\* peer said last.
CountersSumPeers ==
  \A n \in Names : \A k \in DOMAIN entries[n] :
    \A t \in DOMAIN entries[n][k] \cap Counters :
      LET h    == history[n][k]
          S    == Samples(h, t)
          last == {i \in S : \A j \in S : h[j].peer = h[i].peer => j <= i}
      IN entries[n][k][t] = SumOver(last, h, t)
=============================================================================
