------------------------ MODULE StickTableStoreProofs ------------------------
(***************************************************************************)
(* For every set of tables, keys, peers, definitions and updates the store *)
(* keeps entries well typed and complete for every definition their        *)
(* updates came with, never moves a value backwards, and an entry is the   *)
(* aggregate of all the updates it is made of, however many they are.      *)
(*                                                                         *)
(* The aggregates are sums, last values and latest ticks over the samples  *)
(* of a history.  A sum is a fold; it is shown to be the number of pairs   *)
(* (argument, unit of its value), by induction over the subsets of its     *)
(* domain, so that what is known of cardinalities carries over to it.      *)
(***************************************************************************)
EXTENDS StickTableStore, SequenceTheorems, FiniteSetTheorems, TLAPS

\* The values of the data types that merging adds up.
LEMMA ValueKinds ==
  /\ \A t \in Counters : ValuesOf(t) = Nat
  /\ \A t \in Rates : ValuesOf(t) = [tick : Nat, count : Nat]
  /\ \A t \in Arrays : ValuesOf(t) = Seq(Nat)
BY DataTypesAssumption DEF ValuesOf

\* A value of the right kind is not behind itself.
LEMMA NotBehindItself ==
  ASSUME NEW t, NEW v \in ValuesOf(t)
  PROVE  NotBehind(t, v, v)
<1>1. t \in Counters => v >= v
  BY ValueKinds
<1>2. t \in Rates => v.tick >= v.tick
  <2>1. t \in Rates => v \in [tick : Nat, count : Nat]
    BY ValueKinds
  <2>2. t \in Rates => v.tick \in Nat
    BY <2>1
  <2> QED BY <2>2
<1>3. t \in Arrays => Len(v) >= Len(v)
  BY ValueKinds
<1> QED BY <1>1, <1>2, <1>3 DEF NotBehind

\* Merging arrays gives an array as long as the longer one.
LEMMA MergeArraysType ==
  ASSUME NEW old \in Seq(Nat), NEW new \in Seq(Nat)
  PROVE  /\ MergeArrays(old, new) \in Seq(Nat)
         /\ Len(MergeArrays(old, new)) >= Len(old)
<1> DEFINE n == IF Len(old) < Len(new) THEN Len(new) ELSE Len(old)
           at(i) == CASE i > Len(old) -> new[i]
                      [] i > Len(new) -> old[i]
                      [] OTHER        -> old[i] + new[i]
<1>1. n \in Nat /\ n >= Len(old) /\ n >= Len(new)
  OBVIOUS
<1>2. ASSUME NEW i \in 1..n PROVE at(i) \in Nat
  <2>1. CASE i > Len(old)
    <3>1. i \in 1..Len(new)
      BY <2>1
    <3>2. at(i) = new[i]
      BY <2>1, <3>1
    <3> QED BY <3>1, <3>2
  <2>2. CASE i > Len(new)
    <3>1. i \in 1..Len(old)
      BY <2>2
    <3>2. at(i) = old[i]
      BY <2>2, <3>1
    <3> QED BY <3>1, <3>2
  <2>3. CASE i <= Len(old) /\ i <= Len(new)
    <3>1. old[i] \in Nat /\ new[i] \in Nat
      BY <2>3
    <3>2. at(i) = old[i] + new[i]
      BY <2>3
    <3> HIDE DEF at
    <3> QED BY <3>1, <3>2
  <2> QED BY <2>1, <2>2, <2>3
<1>3. MergeArrays(old, new) = [i \in 1..n |-> at(i)]
  BY DEF MergeArrays
<1> HIDE DEF n, at
<1>4. [i \in 1..n |-> at(i)] \in [1..n -> Nat]
  BY <1>2
<1>5. [i \in 1..n |-> at(i)] \in Seq(Nat) /\ Len([i \in 1..n |-> at(i)]) = n
  BY <1>1, <1>4, SeqDef
<1> QED BY <1>1, <1>3, <1>5

\* A merge keeps the kind of a value and moves nothing backwards.
LEMMA MergeMonotone ==
  ASSUME NEW t \in DataTypes, NEW old \in ValuesOf(t), NEW new \in ValuesOf(t)
  PROVE  /\ Merge(t, old, new) \in ValuesOf(t)
         /\ NotBehind(t, old, Merge(t, old, new))
<1> USE DataTypesAssumption DEF NotBehind
<1>1. CASE t \in Counters
  <2>1. ValuesOf(t) = Nat /\ Merge(t, old, new) = old + new
    BY <1>1 DEF ValuesOf, Merge
  <2>2. t \notin Rates /\ t \notin Arrays
    BY <1>1
  <2> QED BY <1>1, <2>1, <2>2
<1>2. CASE t \in Rates
  <2>1. /\ ValuesOf(t) = [tick : Nat, count : Nat]
        /\ Merge(t, old, new) = MergeRates(old, new)
    BY <1>2 DEF ValuesOf, Merge
  <2>2. t \notin Counters /\ t \notin Arrays
    BY <1>2
  <2>3. MergeRates(old, new) \in [tick : Nat, count : Nat]
    BY <2>1 DEF MergeRates
  <2>4. MergeRates(old, new).tick >= old.tick
    BY <2>1 DEF MergeRates
  <2> QED BY <2>1, <2>2, <2>3, <2>4
<1>3. CASE t \in Arrays
  <2>1. ValuesOf(t) = Seq(Nat) /\ Merge(t, old, new) = MergeArrays(old, new)
    BY <1>3 DEF ValuesOf, Merge
  <2>2. t \notin Counters /\ t \notin Rates
    BY <1>3
  <2> QED BY <2>1, <2>2, MergeArraysType
<1>4. CASE t \in Dictionaries
  BY <1>4 DEF Merge
<1>5. CASE t \in Latests
  <2>1. Merge(t, old, new) = new
    BY <1>5 DEF Merge
  <2> QED BY <1>5, <2>1
<1> QED BY <1>1, <1>2, <1>3, <1>4, <1>5 DEF DataTypes

\* A default is a value of the right kind.
LEMMA DefaultValueType ==
  ASSUME NEW t \in DataTypes, NEW d \in Definitions
  PROVE  DefaultValue(t, d) \in ValuesOf(t)
<1> USE DataTypesAssumption
<1>1. CASE t \in Counters \cup Latests
  BY <1>1 DEF DefaultValue, ValuesOf
<1>2. CASE t \in Rates
  BY <1>2 DEF DefaultValue, ValuesOf
<1>3. CASE t \in Arrays
  <2>1. d.count \in Nat
    BY InputsAssumption
  <2>2. [i \in 1..d.count |-> 0] \in Seq(Nat)
    BY <2>1, SeqDef
  <2> QED BY <1>3, <2>2 DEF DefaultValue, ValuesOf
<1>4. CASE t \in Dictionaries
  BY <1>4 DEF DefaultValue, ValuesOf
<1> QED BY <1>1, <1>2, <1>3, <1>4 DEF DataTypes

\* The new values of an entry: all the old types and those of the definition,
\* each with a value of its kind that is no further back.
LEMMA UpdatedEntry ==
  ASSUME NEW old, IsAssignment(old), NEW new, IsAssignment(new),
         NEW d \in Definitions
  PROVE  /\ IsAssignment(Completed(Merged(old, new), d))
         /\ DOMAIN Completed(Merged(old, new), d)
              = DOMAIN old \cup DOMAIN new \cup d.types
         /\ \A t \in DOMAIN old :
              NotBehind(t, old[t], Completed(Merged(old, new), d)[t])
<1> DEFINE m == Merged(old, new)
           e == Completed(m, d)
<1>1. DOMAIN m = DOMAIN old \cup DOMAIN new /\ DOMAIN m \subseteq DataTypes
  BY DEF Merged, IsAssignment
<1>2. d.types \subseteq DataTypes
  BY InputsAssumption
<1>3. ASSUME NEW t \in DOMAIN m
      PROVE  /\ m[t] \in ValuesOf(t)
             /\ t \in DOMAIN old => NotBehind(t, old[t], m[t])
  <2>1. CASE t \notin DOMAIN new
    <3>1. t \in DOMAIN old /\ m[t] = old[t]
      BY <1>1, <2>1 DEF Merged
    <3>2. old[t] \in ValuesOf(t) /\ t \in DataTypes
      BY <3>1 DEF IsAssignment
    <3> QED BY <3>1, <3>2, NotBehindItself
  <2>2. CASE t \in DOMAIN new /\ t \notin DOMAIN old
    <3>1. m[t] = new[t]
      BY <1>1, <2>2 DEF Merged
    <3> QED BY <2>2, <3>1 DEF IsAssignment
  <2>3. CASE t \in DOMAIN new /\ t \in DOMAIN old
    <3>1. m[t] = Merge(t, old[t], new[t])
      BY <1>1, <2>3 DEF Merged
    <3>2. t \in DataTypes /\ old[t] \in ValuesOf(t) /\ new[t] \in ValuesOf(t)
      BY <2>3 DEF IsAssignment
    <3> QED BY <3>1, <3>2, MergeMonotone
  <2> QED BY <2>1, <2>2, <2>3
<1> HIDE DEF m
<1>4. DOMAIN e = DOMAIN m \cup d.types
  BY DEF Completed
<1>5. \A t \in DOMAIN m : e[t] = m[t]
  BY DEF Completed
<1>6. ASSUME NEW t \in d.types, t \notin DOMAIN m
      PROVE  e[t] \in ValuesOf(t)
  <2>1. e[t] = DefaultValue(t, d)
    BY <1>6 DEF Completed
  <2> QED BY <1>2, <1>6, <2>1, DefaultValueType
<1>7. IsAssignment(e)
  BY <1>1, <1>2, <1>3, <1>4, <1>5, <1>6 DEF IsAssignment
<1>8. DOMAIN e = DOMAIN old \cup DOMAIN new \cup d.types
  BY <1>1, <1>4
<1>9. \A t \in DOMAIN old : NotBehind(t, old[t], e[t])
  BY <1>1, <1>3, <1>5
<1> QED BY <1>7, <1>8, <1>9 DEF m

-----------------------------------------------------------------------------
IInv == TypeOK /\ CompleteForItsUpdates

\* Assigning nothing is an assignment.
LEMMA EmptyAssignment == DOMAIN <<>> = {} /\ IsAssignment(<<>>)
BY DEF IsAssignment

\* The empty store satisfies the inductive invariant.
LEMMA InitIInv == Init => IInv
BY DEF Init, IInv, TypeOK, CompleteForItsUpdates

\* The entry an update finds is an assignment, whether there is one or not.
LEMMA ExistingType ==
  ASSUME TypeOK, NEW n \in Names, NEW k \in Keys
  PROVE  IsAssignment(Existing(n, k))
BY EmptyAssignment DEF TypeOK, Existing

\* What an update does to the maps, one name and key at a time.
LEMMA UpdateStep ==
  ASSUME IInv, NEW p \in Peers, NEW d \in Definitions, NEW u \in Updates,
         ApplyUpdate(p, d, u)
  PROVE  /\ d.name \in Names /\ u.key \in Keys /\ d.types \subseteq DataTypes
         /\ IsAssignment(u.values)
         /\ DOMAIN entries' = Names /\ DOMAIN history' = Names
         /\ \A n \in Names \ {d.name} :
              entries'[n] = entries[n] /\ history'[n] = history[n]
         /\ DOMAIN entries'[d.name] = DOMAIN entries[d.name] \cup {u.key}
         /\ DOMAIN history'[d.name] = Keys
         /\ \A k \in Keys \ {u.key} :
              /\ k \in DOMAIN entries[d.name] =>
                   entries'[d.name][k] = entries[d.name][k]
              /\ history'[d.name][k] = history[d.name][k]
         /\ entries'[d.name][u.key] =
              Completed(Merged(Existing(d.name, u.key), u.values), d)
         /\ history'[d.name][u.key] =
              Append(history[d.name][u.key],
                     [peer |-> p, types |-> d.types, values |-> u.values])
<1>1. /\ d.name \in Names /\ u.key \in Keys /\ d.types \subseteq DataTypes
      /\ IsAssignment(u.values)
  BY InputsAssumption
<1>2. /\ DOMAIN entries = Names /\ DOMAIN history = Names
      /\ DOMAIN history[d.name] = Keys
  BY <1>1 DEF IInv, TypeOK
<1>3. DOMAIN entries' = Names /\ DOMAIN history' = Names
  BY <1>2 DEF ApplyUpdate
<1>4. \A n \in Names \ {d.name} :
        entries'[n] = entries[n] /\ history'[n] = history[n]
  BY <1>2 DEF ApplyUpdate
<1>5. entries'[d.name] =
        Put(entries[d.name], u.key,
            Completed(Merged(Existing(d.name, u.key), u.values), d))
  BY <1>1, <1>2 DEF ApplyUpdate
<1>6. /\ DOMAIN history'[d.name] = Keys
      /\ \A k \in Keys \ {u.key} : history'[d.name][k] = history[d.name][k]
      /\ history'[d.name][u.key] =
              Append(history[d.name][u.key],
                     [peer |-> p, types |-> d.types, values |-> u.values])
  BY <1>1, <1>2 DEF ApplyUpdate
<1>7. /\ DOMAIN entries'[d.name] = DOMAIN entries[d.name] \cup {u.key}
      /\ entries'[d.name][u.key] =
              Completed(Merged(Existing(d.name, u.key), u.values), d)
      /\ \A k \in DOMAIN entries[d.name] \ {u.key} :
           entries'[d.name][k] = entries[d.name][k]
  BY <1>5 DEF Put
<1> QED BY <1>1, <1>3, <1>4, <1>6, <1>7

\* Refreshing a definition keeps the map of definitions well typed.
LEMMA DefinitionsType ==
  ASSUME TypeOK, NEW d \in Definitions,
         definitions' = Put(definitions, d.name, d)
  PROVE  /\ DOMAIN definitions' \subseteq Names
         /\ \A n \in DOMAIN definitions' : definitions'[n] \in Definitions
<1>1. d.name \in Names
  BY InputsAssumption
<1> QED BY <1>1 DEF TypeOK, Put

\* Every call on the store preserves it.
LEMMA StepIInv == IInv /\ [Next]_vars => IInv'
<1> SUFFICES ASSUME IInv, [Next]_vars PROVE IInv'
  OBVIOUS
<1>1. ASSUME NEW d \in Definitions, ApplyDefinition(d) PROVE IInv'
  BY <1>1, DefinitionsType
  DEF ApplyDefinition, IInv, TypeOK, CompleteForItsUpdates
<1>2. ASSUME NEW p \in Peers, NEW d \in Definitions, NEW u \in Updates,
             ApplyUpdate(p, d, u)
      PROVE  IInv'
  <2> DEFINE n0 == d.name
             k0 == u.key
             h0 == history[n0][k0]
             rec == [peer |-> p, types |-> d.types, values |-> u.values]
             old == Existing(n0, k0)
             new == entries'[n0][k0]
  <2>0. /\ n0 \in Names /\ k0 \in Keys /\ IsAssignment(u.values)
        /\ DOMAIN entries' = Names /\ DOMAIN history' = Names
        /\ \A n \in Names \ {n0} :
             entries'[n] = entries[n] /\ history'[n] = history[n]
        /\ DOMAIN entries'[n0] = DOMAIN entries[n0] \cup {k0}
        /\ DOMAIN history'[n0] = Keys
        /\ \A k \in Keys \ {k0} :
             /\ k \in DOMAIN entries[n0] => entries'[n0][k] = entries[n0][k]
             /\ history'[n0][k] = history[n0][k]
        /\ new = Completed(Merged(old, u.values), d)
        /\ history'[n0][k0] = Append(h0, rec)
    BY <1>2, UpdateStep
  <2>1. IsAssignment(old)
    BY <2>0, ExistingType DEF IInv
  <2>2. /\ IsAssignment(new)
        /\ DOMAIN new = DOMAIN old \cup DOMAIN u.values \cup d.types
    <3> DEFINE v == u.values
    <3>1. IsAssignment(v) /\ new = Completed(Merged(old, v), d)
      BY <2>0
    <3> HIDE DEF old, new, v
    <3>2. IsAssignment(Completed(Merged(old, v), d))
      BY <2>1, <3>1, UpdatedEntry
    <3>3. DOMAIN Completed(Merged(old, v), d)
            = DOMAIN old \cup DOMAIN v \cup d.types
      BY DEF Completed, Merged
    <3> QED BY <3>1, <3>2, <3>3 DEF v
  <2>3. h0 \in Seq(AppliedUpdates) /\ rec \in AppliedUpdates
    <3>1. h0 \in Seq(AppliedUpdates)
      BY <2>0 DEF IInv, TypeOK
    <3>2. rec \in AppliedUpdates
      BY DEF AppliedUpdates
    <3> QED BY <3>1, <3>2
  <2> HIDE DEF n0, k0, h0, rec, old, new
  <2>4. TypeOK'
    <3>1. /\ DOMAIN definitions' \subseteq Names
          /\ \A n \in DOMAIN definitions' : definitions'[n] \in Definitions
      BY <1>2, DefinitionsType DEF IInv, ApplyUpdate
    <3>2. DOMAIN entries' = Names /\ DOMAIN history' = Names
      BY <2>0
    <3>3. ASSUME NEW n \in Names
          PROVE  /\ DOMAIN entries'[n] \subseteq Keys /\ DOMAIN history'[n] = Keys
                 /\ \A k \in DOMAIN entries'[n] : IsAssignment(entries'[n][k])
                 /\ \A k \in Keys : history'[n][k] \in Seq(AppliedUpdates)
      <4>1. CASE n # n0
        BY <2>0, <4>1 DEF IInv, TypeOK
      <4>2. CASE n = n0
        <5>1. DOMAIN entries'[n] \subseteq Keys /\ DOMAIN history'[n] = Keys
          BY <2>0, <4>2 DEF IInv, TypeOK
        <5>2. ASSUME NEW k \in DOMAIN entries'[n]
              PROVE  IsAssignment(entries'[n][k])
          <6>1. CASE k = k0
            BY <2>2, <4>2, <6>1 DEF new
          <6>2. CASE k # k0
            BY <2>0, <4>2, <5>1, <6>2 DEF IInv, TypeOK
          <6> QED BY <6>1, <6>2
        <5>3. ASSUME NEW k \in Keys
              PROVE  history'[n][k] \in Seq(AppliedUpdates)
          <6>1. CASE k = k0
            BY <2>0, <2>3, <4>2, <6>1
          <6>2. CASE k # k0
            BY <2>0, <4>2, <5>1, <6>2 DEF IInv, TypeOK
          <6> QED BY <6>1, <6>2
        <5> QED BY <5>1, <5>2, <5>3
      <4> QED BY <4>1, <4>2
    <3> QED BY <3>1, <3>2, <3>3 DEF TypeOK
  <2>5. CompleteForItsUpdates'
    <3> SUFFICES ASSUME NEW n \in Names, NEW k \in Keys,
                        NEW i \in 1..Len(history'[n][k])
                 PROVE  /\ k \in DOMAIN entries'[n]
                        /\ history'[n][k][i].types \cup DOMAIN history'[n][k][i].values
                             \subseteq DOMAIN entries'[n][k]
      BY DEF CompleteForItsUpdates
    <3>1. CASE ~(n = n0 /\ k = k0)
      <4>1. history'[n][k] = history[n][k]
        BY <2>0, <3>1
      <4>2. /\ k \in DOMAIN entries[n]
            /\ history[n][k][i].types \cup DOMAIN history[n][k][i].values
                 \subseteq DOMAIN entries[n][k]
        BY <4>1 DEF IInv, CompleteForItsUpdates
      <4>3. k \in DOMAIN entries'[n] /\ entries'[n][k] = entries[n][k]
        BY <2>0, <3>1, <4>2
      <4> QED BY <4>1, <4>2, <4>3
    <3>2. CASE n = n0 /\ k = k0
      <4>1. k \in DOMAIN entries'[n]
        BY <2>0, <3>2
      <4>2. CASE i \in 1..Len(h0)
        <5>1. history'[n][k][i] = h0[i]
          BY <2>0, <2>3, <3>2, <4>2
        <5>2. /\ k0 \in DOMAIN entries[n0]
              /\ h0[i].types \cup DOMAIN h0[i].values \subseteq DOMAIN entries[n0][k0]
          BY <2>0, <4>2 DEF IInv, CompleteForItsUpdates, h0
        <5>3. old = entries[n0][k0]
          BY <5>2 DEF Existing, old
        <5> QED BY <2>2, <3>2, <4>1, <5>1, <5>2, <5>3 DEF new
      <4>3. CASE i = Len(h0) + 1
        <5>1. history'[n][k][i] = rec
          BY <2>0, <2>3, <3>2, <4>3
        <5>2. rec.types = d.types /\ rec.values = u.values
          BY DEF rec
        <5> QED BY <2>2, <3>2, <4>1, <5>1, <5>2 DEF new
      <4> QED BY <2>0, <2>3, <3>2, <4>2, <4>3
    <3> QED BY <3>1, <3>2
  <2> QED BY <2>4, <2>5 DEF IInv
<1>3. ASSUME NEW name \in Names, ClearEntries(name) PROVE IInv'
  <2>1. /\ DOMAIN entries' = Names /\ DOMAIN history' = Names
        /\ entries'[name] = <<>> /\ history'[name] = [k \in Keys |-> <<>>]
        /\ \A n \in Names \ {name} :
             entries'[n] = entries[n] /\ history'[n] = history[n]
        /\ definitions' = definitions
    BY <1>3 DEF ClearEntries, IInv, TypeOK
  <2>2. <<>> \in Seq(AppliedUpdates) /\ Len(<<>>) = 0 /\ DOMAIN <<>> = {}
    BY EmptyAssignment
  <2>3. TypeOK'
    BY <2>1, <2>2 DEF IInv, TypeOK
  <2>4. CompleteForItsUpdates'
    BY <2>1, <2>2 DEF IInv, CompleteForItsUpdates
  <2> QED BY <2>3, <2>4 DEF IInv
<1>4. CASE UNCHANGED vars
  BY <1>4 DEF vars, IInv, TypeOK, CompleteForItsUpdates
<1> QED BY <1>1, <1>2, <1>3, <1>4 DEF Next

\* The inductive invariant: types, and completeness for the updates applied.
THEOREM Invariance == Spec => []IInv
BY InitIInv, StepIInv, PTL DEF Spec

\* The store holds well-typed values for known tables and keys.
THEOREM StoreTypes == Spec => []TypeOK
<1>1. IInv => TypeOK
  BY DEF IInv
<1> QED BY <1>1, Invariance, PTL

\* An entry has every data type of every definition its updates came with, and
\* every one that an update gave a value (applyUpdate in src/src/aggregator.ts).
THEOREM EntriesCompleteForUpdates == Spec => []CompleteForItsUpdates
<1>1. IInv => CompleteForItsUpdates
  BY DEF IInv
<1> QED BY <1>1, Invariance, PTL

-----------------------------------------------------------------------------
\* An entry that stays as it is, is not behind itself.
LEMMA SameEntry ==
  ASSUME TypeOK, NEW n \in Names, NEW k \in DOMAIN entries[n],
         entries'[n][k] = entries[n][k], NEW t \in DOMAIN entries[n][k]
  PROVE  /\ t \in DOMAIN entries'[n][k]
         /\ NotBehind(t, entries[n][k][t], entries'[n][k][t])
<1>1. entries[n][k][t] \in ValuesOf(t)
  BY DEF TypeOK, IsAssignment
<1> QED BY <1>1, NotBehindItself

\* No call on the store moves an entry backwards.
LEMMA StepForward == IInv /\ [Next]_vars => Forward
<1> SUFFICES ASSUME IInv, [Next]_vars,
                    NEW n \in Names,
                    NEW k \in DOMAIN entries[n] \cap DOMAIN entries'[n],
                    NEW t \in DOMAIN entries[n][k]
             PROVE  /\ t \in DOMAIN entries'[n][k]
                    /\ NotBehind(t, entries[n][k][t], entries'[n][k][t])
  BY DEF Forward
<1>1. TypeOK /\ k \in Keys /\ k \in DOMAIN entries[n]
  BY DEF IInv, TypeOK
<1>2. CASE entries'[n][k] = entries[n][k]
  BY <1>1, <1>2, SameEntry
<1>3. ASSUME NEW p \in Peers, NEW d \in Definitions, NEW u \in Updates,
             ApplyUpdate(p, d, u), entries'[n][k] # entries[n][k]
      PROVE  /\ t \in DOMAIN entries'[n][k]
             /\ NotBehind(t, entries[n][k][t], entries'[n][k][t])
  <2> DEFINE old == entries[n][k]
             v == u.values
  <2>1. n = d.name /\ k = u.key
    <3>1. n # d.name => entries'[n] = entries[n]
      BY <1>3, UpdateStep
    <3>2. k # u.key => entries'[d.name][k] = entries[d.name][k]
      <4>1. \A x \in Keys \ {u.key} :
              /\ x \in DOMAIN entries[d.name] =>
                   entries'[d.name][x] = entries[d.name][x]
              /\ history'[d.name][x] = history[d.name][x]
        BY <1>3, UpdateStep
      <4> QED BY <1>1, <1>3, <3>1, <4>1
    <3> QED BY <1>3, <3>1, <3>2
  <2>2. /\ IsAssignment(v)
        /\ entries'[n][k] = Completed(Merged(Existing(n, k), v), d)
    BY <1>3, <2>1, UpdateStep
  <2>3. Existing(n, k) = old /\ IsAssignment(old)
    BY <1>1, ExistingType DEF Existing
  <2>4. entries'[n][k] = Completed(Merged(old, v), d)
    BY <2>2, <2>3
  <2> HIDE DEF v, old
  <2>5. /\ DOMAIN Completed(Merged(old, v), d)
             = DOMAIN old \cup DOMAIN v \cup d.types
        /\ \A x \in DOMAIN old :
             NotBehind(x, old[x], Completed(Merged(old, v), d)[x])
    <3>1. IsAssignment(old) /\ IsAssignment(v)
      BY <2>2, <2>3
    <3>2. DOMAIN Completed(Merged(old, v), d)
            = DOMAIN old \cup DOMAIN v \cup d.types
      BY DEF Completed, Merged
    <3>3. \A x \in DOMAIN old :
            NotBehind(x, old[x], Completed(Merged(old, v), d)[x])
      BY <3>1, UpdatedEntry
    <3> QED BY <3>2, <3>3
  <2> QED BY <2>4, <2>5 DEF old
<1>4. CASE \E name \in Names : ClearEntries(name)
  <2>1. PICK name \in Names : ClearEntries(name)
    BY <1>4
  <2>2. n # name
    BY <1>1, <2>1, EmptyAssignment DEF ClearEntries, TypeOK
  <2>3. entries'[n][k] = entries[n][k]
    BY <2>1, <2>2, <1>1 DEF ClearEntries, TypeOK
  <2> QED BY <1>2, <2>3
<1>5. CASE \/ \E d \in Definitions : ApplyDefinition(d)
           \/ UNCHANGED vars
  <2>1. entries'[n][k] = entries[n][k]
    BY <1>5 DEF ApplyDefinition, vars
  <2> QED BY <1>2, <2>1
<1> QED BY <1>2, <1>3, <1>4, <1>5 DEF Next

\* Until its table is cleared no counter, tick or array length goes back,
\* whoever sends the updates and however their definitions differ.
THEOREM NothingGoesBackwards == Spec => NeverBackwards
BY StepForward, Invariance, PTL DEF NeverBackwards, Spec

-----------------------------------------------------------------------------
(* Sums. *)

\* Induction over the subsets of a finite set, P being a set of them: what
\* holds of a set when it holds of all smaller ones holds of all.
LEMMA SubsetInduction ==
  ASSUME NEW S, IsFiniteSet(S), NEW P,
         \A T \in SUBSET S : (\A U \in SUBSET T : U # T => U \in P) => T \in P
  PROVE  S \in P
<1> DEFINE R == StrictSubsetOrdering(S)
           F == FiniteSubsetsOf(S)
           Bad == (SUBSET S) \ P
<1>1. F = SUBSET S
  BY FS_FiniteSubsetsOfFinite
<1>2. SUFFICES ASSUME Bad # {} PROVE FALSE
  OBVIOUS
<1>3. PICK T \in Bad : \A U \in Bad : ~(<<U, T>> \in R)
  <2>1. IsWellFoundedOn(R, F)
    BY FS_StrictSubsetOrderingWellFounded
  <2>2. Bad \subseteq F
    BY <1>1
  <2> HIDE DEF R, F, Bad
  <2> QED BY <2>1, <2>2, <1>2, WFMin
<1>4. \A U \in SUBSET T : U # T => U \in P
  BY <1>3 DEF StrictSubsetOrdering
<1> QED BY <1>3, <1>4

\* As many pairs as f adds up to.
Units(f, T) == {p \in T \X Nat : p[2] \in 1..f[p[1]]}

\* An argument more has its value's number of pairs more.
LEMMA UnitsAdded ==
  ASSUME NEW f, NEW T, IsFiniteSet(Units(f, T)), NEW x, x \notin T, f[x] \in Nat
  PROVE  /\ IsFiniteSet(Units(f, T \cup {x}))
         /\ Cardinality(Units(f, T \cup {x})) = Cardinality(Units(f, T)) + f[x]
<1> DEFINE X == {x} \X (1..f[x])
<1>1. Units(f, T \cup {x}) = Units(f, T) \cup X
  BY DEF Units
<1>2. Units(f, T) \cap X = {}
  BY DEF Units
<1>3. IsFiniteSet(X) /\ Cardinality(X) = f[x]
  <2>1. IsFiniteSet({x}) /\ Cardinality({x}) = 1
    BY FS_Singleton
  <2>2. IsFiniteSet(1..f[x]) /\ Cardinality(1..f[x]) = f[x]
    BY FS_Interval
  <2>3. /\ IsFiniteSet(X)
        /\ Cardinality(X) = Cardinality({x}) * Cardinality(1..f[x])
    BY <2>1, <2>2, FS_Product
  <2> HIDE DEF X
  <2>4. Cardinality(X) = 1 * f[x]
    BY <2>1, <2>2, <2>3
  <2> QED
    BY <2>3, <2>4
<1>4. Cardinality(Units(f, T)) \in Nat
  BY FS_CardinalityType
<1>5. Cardinality(Units(f, T) \cap X) = 0
  BY <1>2, FS_EmptySet
<1> HIDE DEF X
<1>6. /\ IsFiniteSet(Units(f, T) \cup X)
      /\ Cardinality(Units(f, T) \cup X)
           = Cardinality(Units(f, T)) + Cardinality(X) - Cardinality(Units(f, T) \cap X)
  BY <1>3, FS_Union
<1>7. Cardinality(Units(f, T) \cup X) = Cardinality(Units(f, T)) + f[x]
  BY <1>3, <1>4, <1>5, <1>6
<1> QED
  BY <1>1, <1>6, <1>7, Zenon

\* One argument less.
LEMMA UnitsTaken ==
  ASSUME NEW f, NEW T, NEW x \in T, f[x] \in Nat, IsFiniteSet(Units(f, T \ {x}))
  PROVE  /\ IsFiniteSet(Units(f, T))
         /\ Cardinality(Units(f, T)) = f[x] + Cardinality(Units(f, T \ {x}))
<1>1. (T \ {x}) \cup {x} = T /\ x \notin T \ {x}
  OBVIOUS
<1>2. Cardinality(Units(f, T \ {x})) \in Nat
  BY FS_CardinalityType
<1> QED
  BY <1>1, <1>2, UnitsAdded

\* There are finitely many.
LEMMA UnitsFinite ==
  ASSUME NEW f, NEW S, IsFiniteSet(S), \A i \in S : f[i] \in Nat
  PROVE  IsFiniteSet(Units(f, S))
<1> DEFINE P == {T \in SUBSET S : IsFiniteSet(Units(f, T))}
<1>1. ASSUME NEW T \in SUBSET S, \A U \in SUBSET T : U # T => U \in P
      PROVE  T \in P
  <2>1. CASE T = {}
    <3>1. Units(f, T) = {}
      BY <2>1 DEF Units
    <3> QED
      BY <3>1, FS_EmptySet
  <2>2. CASE T # {}
    <3>1. PICK x \in T : TRUE
      BY <2>2
    <3>2. IsFiniteSet(Units(f, T \ {x}))
      BY <1>1
    <3> QED
      BY <3>2, UnitsTaken
  <2> QED
    BY <2>1, <2>2
<1>2. S \in P
  <2> HIDE DEF P
  <2> QED BY <1>1, SubsetInduction
<1> QED
  BY <1>2

\* What the fold of MapThenSumSet computes is their number.
LEMMA TotalIs ==
  ASSUME NEW S, IsFiniteSet(S), NEW f \in [S -> Nat]
  PROVE  Total(f) = Cardinality(Units(f, S))
<1> DEFINE first(s) == CHOOSE x \in s : TRUE
           IsIter(g) == g = [s \in SUBSET S |-> IF s = {} THEN 0
                                                ELSE f[first(s)] + g[s \ {first(s)}]]
           iter == CHOOSE g : IsIter(g)
           count == [s \in SUBSET S |-> Cardinality(Units(f, s))]
           P == {s \in SUBSET S : iter[s] = count[s]}
<1>1. Total(f) = iter[S]
  BY DEF Total, MapThenSumSet, MapThenFoldSet
<1>2. ASSUME NEW s \in SUBSET S
      PROVE  IF s = {} THEN count[s] = 0
             ELSE /\ first(s) \in s /\ s \ {first(s)} \in SUBSET S
                  /\ count[s] = f[first(s)] + count[s \ {first(s)}]
  <2>1. CASE s = {}
    <3>1. Units(f, s) = {}
      BY <2>1 DEF Units
    <3> QED
      BY <3>1, <2>1, FS_EmptySet
  <2>2. CASE s # {}
    <3>1. first(s) \in s
      BY <2>2
    <3> HIDE DEF first
    <3>2. IsFiniteSet(s \ {first(s)})
      BY FS_Subset
    <3>3. IsFiniteSet(Units(f, s \ {first(s)}))
      BY <3>2, UnitsFinite
    <3>4. Cardinality(Units(f, s)) = f[first(s)] + Cardinality(Units(f, s \ {first(s)}))
      BY <3>1, <3>3, UnitsTaken
    <3> QED
      BY <3>1, <3>4, <2>2
  <2> QED
    BY <2>1, <2>2
<1>3. IsIter(count)
  <2> HIDE DEF first
  <2>1. count = [s \in SUBSET S |-> count[s]]
    OBVIOUS
  <2>2. \A s \in SUBSET S :
          count[s] = IF s = {} THEN 0 ELSE f[first(s)] + count[s \ {first(s)}]
    <3> HIDE DEF count
    <3> QED BY <1>2
  <2> HIDE DEF count
  <2> QED
    BY <2>1, <2>2
<1>4. IsIter(iter)
  <2> HIDE DEF IsIter, count
  <2> QED BY <1>3
<1>5. ASSUME NEW s \in SUBSET S, \A u \in SUBSET s : u # s => u \in P
      PROVE  s \in P
  <2> HIDE DEF first, count, iter
  <2>1. iter[s] = IF s = {} THEN 0 ELSE f[first(s)] + iter[s \ {first(s)}]
    BY <1>4
  <2>2. CASE s = {}
    BY <2>1, <2>2, <1>2
  <2>3. CASE s # {}
    <3>1. first(s) \in s /\ s \ {first(s)} \in SUBSET S
      BY <1>2, <2>3
    <3>2. s \ {first(s)} \in P
      BY <1>5, <3>1
    <3> QED
      BY <3>1, <3>2, <2>1, <1>2, <2>3
  <2> QED
    BY <2>2, <2>3
<1>6. S \in P
  <2> HIDE DEF P
  <2> QED BY <1>5, SubsetInduction
<1> QED
  BY <1>1, <1>6

\* The number of no values ...
LEMMA TotalOfNone ==
  ASSUME NEW f, DOMAIN f = {}, f \in [{} -> Nat]
  PROVE  Total(f) = 0
<1>1. Units(f, {}) = {}
  BY DEF Units
<1> QED
  BY <1>1, FS_EmptySet, TotalIs

\* f is g with an argument more.
OneMore(f, g, x) ==
  /\ IsFiniteSet(DOMAIN g) /\ x \notin DOMAIN g /\ DOMAIN f = DOMAIN g \cup {x}
  /\ f \in [DOMAIN f -> Nat] /\ g \in [DOMAIN g -> Nat]
  /\ \A i \in DOMAIN g : g[i] = f[i]

\* ... and of one value more.
LEMMA TotalAdded ==
  ASSUME NEW f, NEW g, NEW x, OneMore(f, g, x)
  PROVE  Total(g) \in Nat /\ Total(f) = Total(g) + f[x]
<1> DEFINE S == DOMAIN g
<1> USE DEF OneMore
<1>1. Units(f, S) = Units(g, S)
  BY DEF Units
<1>2. IsFiniteSet(Units(g, S)) /\ Cardinality(Units(g, S)) \in Nat
  BY UnitsFinite, FS_CardinalityType
<1>3. Cardinality(Units(f, S \cup {x})) = Cardinality(Units(g, S)) + f[x]
  BY <1>1, <1>2, UnitsAdded
<1>4. IsFiniteSet(S \cup {x})
  BY FS_AddElement
<1>5. Total(f) = Cardinality(Units(f, S \cup {x}))
  BY <1>4, TotalIs
<1>6. Total(g) = Cardinality(Units(g, S))
  BY TotalIs
<1> QED
  BY <1>2, <1>3, <1>5, <1>6

-----------------------------------------------------------------------------
(* Samples, and what one more makes of an aggregate. *)

\* A history with one update more.
LEMMA SamplesStep ==
  ASSUME NEW h \in Seq(AppliedUpdates), NEW r \in AppliedUpdates, NEW t
  PROVE  /\ Len(h) \in Nat /\ Len(h) + 1 \notin Samples(h, t)
         /\ Samples(h, t) \subseteq 1..Len(h) /\ IsFiniteSet(Samples(h, t))
         /\ t \in DOMAIN r.values =>
              Samples(Append(h, r), t) = Samples(h, t) \cup {Len(h) + 1}
         /\ t \notin DOMAIN r.values => Samples(Append(h, r), t) = Samples(h, t)
         /\ \A i \in Samples(h, t) : Value(Append(h, r), t, i) = Value(h, t, i)
         /\ Value(Append(h, r), t, Len(h) + 1) = r.values[t]
<1> DEFINE g == Append(h, r)
<1>1. /\ Len(h) \in Nat /\ Len(g) = Len(h) + 1
      /\ \A i \in 1..Len(h) : g[i] = h[i]
      /\ g[Len(h) + 1] = r
  OBVIOUS
<1> HIDE DEF g
<1>2. Samples(h, t) \subseteq 1..Len(h)
  BY DEF Samples
<1>3. IsFiniteSet(Samples(h, t))
  <2>1. IsFiniteSet(1..Len(h))
    BY <1>1, FS_Interval
  <2> QED
    BY <2>1, <1>2, FS_Subset
<1>4. /\ t \in DOMAIN r.values => Samples(g, t) = Samples(h, t) \cup {Len(h) + 1}
      /\ t \notin DOMAIN r.values => Samples(g, t) = Samples(h, t)
  BY <1>1 DEF Samples
<1>5. \A i \in Samples(h, t) : Value(g, t, i) = Value(h, t, i)
  BY <1>1, <1>2 DEF Value
<1>6. Value(g, t, Len(h) + 1) = r.values[t]
  BY <1>1 DEF Value
<1>7. Len(h) + 1 \notin Samples(h, t)
  BY <1>1, <1>2
<1> QED
  BY <1>1, <1>2, <1>3, <1>4, <1>5, <1>6, <1>7 DEF g

\* Some places of a sequence, if there are any, have a last one.
LEMMA LastExists ==
  ASSUME NEW n \in Nat, NEW S, S \subseteq 1..n, S # {}
  PROVE  \E i \in S : \A j \in S : j <= i
<1> DEFINE P == {T \in SUBSET S : T = {} \/ \E i \in T : \A j \in T : j <= i}
<1>1. IsFiniteSet(S)
  <2>1. IsFiniteSet(1..n)
    BY FS_Interval
  <2> QED
    BY <2>1, FS_Subset
<1>2. ASSUME NEW T \in SUBSET S, \A U \in SUBSET T : U # T => U \in P
      PROVE  T \in P
  <2>1. CASE T = {}
    BY <2>1
  <2>2. CASE T # {}
    <3>1. PICK x \in T : TRUE
      BY <2>2
    <3>2. T \ {x} \in P
      BY <1>2
    <3>3. CASE T \ {x} = {}
      <4>1. \A j \in T : j <= x
        BY <3>3
      <4> QED
        BY <4>1
    <3>4. CASE \E i \in T \ {x} : \A j \in T \ {x} : j <= i
      <4>1. PICK i \in T \ {x} : \A j \in T \ {x} : j <= i
        BY <3>4
      <4>2. i \in Nat /\ x \in Nat /\ \A j \in T : j \in Nat
        OBVIOUS
      <4>3. CASE x <= i
        BY <4>1, <4>2, <4>3
      <4>4. CASE i <= x
        <5>1. \A j \in T : j <= x
          BY <4>1, <4>2, <4>4
        <5> QED
          BY <5>1
      <4> QED
        BY <4>2, <4>3, <4>4
    <3> QED
      BY <3>2, <3>3, <3>4
  <2> QED
    BY <2>1, <2>2
<1>3. S \in P
  <2> HIDE DEF P
  <2> QED BY <1>1, <1>2, SubsetInduction
<1> QED
  BY <1>3

\* A sample's value is one of its data type.
LEMMA SampleType ==
  ASSUME NEW h \in Seq(AppliedUpdates), NEW t, NEW i \in Samples(h, t)
  PROVE  t \in DataTypes /\ Value(h, t, i) \in ValuesOf(t)
<1>1. i \in 1..Len(h) /\ t \in DOMAIN h[i].values
  BY DEF Samples
<1>2. h[i] \in AppliedUpdates
  BY <1>1
<1>3. PICK u \in Updates : h[i].values = u.values
  BY <1>2 DEF AppliedUpdates
<1>4. IsAssignment(h[i].values)
  BY <1>3, InputsAssumption
<1> QED
  BY <1>1, <1>4 DEF IsAssignment, Value

\* The kinds of data types are disjoint, and so are their aggregates.
LEMMA AggregatesOf ==
  ASSUME NEW v, NEW h, NEW t
  PROVE  /\ t \in Counters =>
              (Aggregates(v, h, t) <=> v = SumOver(Samples(h, t), h, t))
         /\ t \in Rates =>
              (Aggregates(v, h, t) <=> RateIs(v, Samples(h, t), h, t))
         /\ t \in Arrays =>
              (Aggregates(v, h, t) <=> ArrayIs(v, Samples(h, t), h, t))
         /\ t \in Dictionaries =>
              (Aggregates(v, h, t) <=> WordIs(v, Samples(h, t), h, t))
         /\ t \in Latests =>
              (Aggregates(v, h, t) <=> LatestIs(v, Samples(h, t), h, t))
BY DataTypesAssumption DEF Aggregates

\* An update that does not have the data type is no sample of it.
LEMMA SampleOfOthers ==
  ASSUME NEW h \in Seq(AppliedUpdates), NEW r \in AppliedUpdates,
         NEW t \in DataTypes, NEW v, t \notin DOMAIN r.values, Aggregates(v, h, t)
  PROVE  Aggregates(v, Append(h, r), t)
<1> DEFINE g == Append(h, r)
           S == Samples(h, t)
<1>1. Samples(g, t) = S /\ \A i \in S : Value(g, t, i) = Value(h, t, i)
  BY SamplesStep
<1> HIDE DEF g, S
<1>2. SumOver(S, g, t) = SumOver(S, h, t)
  <2>1. [i \in S |-> Value(g, t, i)] = [i \in S |-> Value(h, t, i)]
    BY <1>1
  <2> QED
    BY <2>1 DEF SumOver
<1>3. RateIs(v, S, h, t) => RateIs(v, S, g, t)
  <2> DEFINE L(f) == {i \in S : Value(f, t, i).tick = v.tick}
  <2>1. L(g) = L(h)
    BY <1>1
  <2>2. [i \in L(g) |-> Value(g, t, i).count] = [i \in L(h) |-> Value(h, t, i).count]
    <3>1. \A i \in L(h) : Value(g, t, i) = Value(h, t, i)
      BY <1>1
    <3> HIDE DEF L
    <3> QED
      BY <2>1, <3>1
  <2>3. \A i \in S : Value(g, t, i).tick = Value(h, t, i).tick
    BY <1>1
  <2>4. ASSUME RateIs(v, S, h, t)
        PROVE  /\ \A i \in S : Value(h, t, i).tick <= v.tick
               /\ v.tick = 0 \/ L(h) # {}
               /\ v.count = Total([i \in L(h) |-> Value(h, t, i).count])
    BY <2>4, Zenon DEF RateIs
  <2>5. ASSUME /\ \A i \in S : Value(g, t, i).tick <= v.tick
               /\ v.tick = 0 \/ L(g) # {}
               /\ v.count = Total([i \in L(g) |-> Value(g, t, i).count])
        PROVE  RateIs(v, S, g, t)
    BY <2>5, Zenon DEF RateIs
  <2> HIDE DEF L
  <2>6. ASSUME RateIs(v, S, h, t) PROVE RateIs(v, S, g, t)
    <3>1. v.count = Total([i \in L(g) |-> Value(g, t, i).count])
      BY <2>2, <2>4, <2>6
    <3>2. v.tick = 0 \/ L(g) # {}
      BY <2>1, <2>4, <2>6
    <3>3. \A i \in S : Value(g, t, i).tick <= v.tick
      BY <2>3, <2>4, <2>6
    <3> QED
      BY <2>5, <3>1, <3>2, <3>3
  <2> QED
    BY <2>6
<1>4. ArrayIs(v, S, h, t) => ArrayIs(v, S, g, t)
  <2> DEFINE L(f, x) == {i \in S : x <= Len(Value(f, t, i))}
             I(f, x) == [i \in L(f, x) |-> Value(f, t, i)[x]]
  <2>1. ASSUME NEW x PROVE I(g, x) = I(h, x)
    <3>1. L(g, x) = L(h, x)
      BY <1>1
    <3>2. \A i \in L(h, x) : Value(g, t, i) = Value(h, t, i)
      BY <1>1
    <3> HIDE DEF L
    <3> QED
      BY <3>1, <3>2
  <2>2. \A i \in S : Len(Value(g, t, i)) = Len(Value(h, t, i))
    BY <1>1
  <2>3. ArrayIs(v, S, h, t) => /\ \A i \in S : Len(Value(h, t, i)) <= Len(v)
                               /\ \A x \in 1..Len(v) : v[x] = Total(I(h, x))
    BY Zenon DEF ArrayIs
  <2>4. /\ \A i \in S : Len(Value(g, t, i)) <= Len(v)
        /\ \A x \in 1..Len(v) : v[x] = Total(I(g, x))
        => ArrayIs(v, S, g, t)
    BY Zenon DEF ArrayIs
  <2> HIDE DEF I
  <2> QED
    BY <2>1, <2>2, <2>3, <2>4
<1>5. WordIs(v, S, h, t) => WordIs(v, S, g, t)
  <2> DEFINE L(f) == {i \in S : Value(f, t, i) # Null}
  <2>1. L(g) = L(h)
    BY <1>1
  <2>2. L(h) # {} => LastOf(L(h)) \in S
    <3>1. L(h) \subseteq S /\ S \subseteq 1..Len(h) /\ Len(h) \in Nat
      BY SamplesStep DEF S
    <3> HIDE DEF L
    <3>2. L(h) # {} => LastOf(L(h)) \in L(h)
      <4> SUFFICES ASSUME L(h) # {} PROVE LastOf(L(h)) \in L(h)
        OBVIOUS
      <4>1. \E i \in L(h) : \A j \in L(h) : j <= i
        BY <3>1, LastExists
      <4> QED
        BY <4>1 DEF LastOf
    <3> QED
      BY <3>1, <3>2
  <2>3. Value(g, t, LastOf(L(h))) = Value(h, t, LastOf(L(h))) \/ L(h) = {}
    BY <1>1, <2>2
  <2>4. ASSUME WordIs(v, S, h, t)
        PROVE  v = IF L(h) = {} THEN Null ELSE Value(h, t, LastOf(L(h)))
    BY <2>4, Zenon DEF WordIs
  <2>5. ASSUME v = IF L(g) = {} THEN Null ELSE Value(g, t, LastOf(L(g)))
        PROVE  WordIs(v, S, g, t)
    BY <2>5, Zenon DEF WordIs
  <2> HIDE DEF L
  <2> QED
    BY <2>1, <2>3, <2>4, <2>5
<1>6. LatestIs(v, S, h, t) => LatestIs(v, S, g, t)
  <2>1. S # {} => LastOf(S) \in S
    <3> SUFFICES ASSUME S # {} PROVE LastOf(S) \in S
      OBVIOUS
    <3>1. S \subseteq 1..Len(h) /\ Len(h) \in Nat
      BY SamplesStep DEF S
    <3>2. \E i \in S : \A j \in S : j <= i
      BY <3>1, LastExists
    <3> QED
      BY <3>2 DEF LastOf
  <2> QED
    BY <2>1, <1>1 DEF LatestIs
<1>7. Aggregates(v, h, t) => Aggregates(v, g, t)
  <2> USE DEF S
  <2>1. CASE t \in Counters
    BY <2>1, <1>1, <1>2, AggregatesOf
  <2>2. CASE t \in Rates
    BY <2>2, <1>1, <1>3, AggregatesOf
  <2>3. CASE t \in Arrays
    BY <2>3, <1>1, <1>4, AggregatesOf
  <2>4. CASE t \in Dictionaries
    BY <2>4, <1>1, <1>5, AggregatesOf
  <2>5. CASE t \in Latests
    BY <2>5, <1>1, <1>6, AggregatesOf
  <2> QED
    BY <2>1, <2>2, <2>3, <2>4, <2>5 DEF DataTypes
<1> QED
  BY <1>7 DEF g

\* The last of some places is one of them, and the last.
LEMMA LastIs ==
  ASSUME NEW n \in Nat, NEW S, S \subseteq 1..n
  PROVE  /\ S # {} => LastOf(S) \in S
         /\ LastOf(S \cup {n + 1}) = n + 1
<1>1. S # {} => LastOf(S) \in S
  <2> SUFFICES ASSUME S # {} PROVE LastOf(S) \in S
    OBVIOUS
  <2>1. \E i \in S : \A j \in S : j <= i
    BY LastExists
  <2> QED
    BY <2>1 DEF LastOf
<1>2. \A i \in S \cup {n + 1} : (\A j \in S \cup {n + 1} : j <= i) => i = n + 1
  OBVIOUS
<1>3. \A j \in S \cup {n + 1} : j <= n + 1
  OBVIOUS
<1> QED
  BY <1>1, <1>2, <1>3 DEF LastOf

\* A sample more of a counter.
LEMMA CounterSample ==
  ASSUME NEW h \in Seq(AppliedUpdates), NEW r \in AppliedUpdates, NEW t \in Counters,
         NEW v, t \in DOMAIN r.values, r.values[t] \in Nat, Aggregates(v, h, t)
  PROVE  Aggregates(v + r.values[t], Append(h, r), t)
<1> DEFINE g == Append(h, r)
           S == Samples(h, t)
           n == Len(h) + 1
           a == [i \in S |-> Value(h, t, i)]
           b == [i \in S \cup {n} |-> Value(g, t, i)]
<1>1. /\ Samples(g, t) = S \cup {n} /\ n \notin S /\ IsFiniteSet(S)
      /\ \A i \in S : Value(g, t, i) = Value(h, t, i)
      /\ Value(g, t, n) = r.values[t]
  BY SamplesStep
<1>2. \A i \in S : Value(h, t, i) \in Nat
  BY SampleType, ValueKinds
<1> HIDE DEF g, S, n
<1>3. a \in [S -> Nat] /\ b \in [S \cup {n} -> Nat] /\ \A i \in S : a[i] = b[i]
  BY <1>1, <1>2
<1>4. b[n] = r.values[t]
  BY <1>1
<1>5. v = Total(a)
  BY AggregatesOf DEF SumOver, S
<1> HIDE DEF a, b
<1>6. Total(b) = v + r.values[t]
  <2>1. OneMore(b, a, n)
    BY <1>1, <1>3 DEF OneMore
  <2>2. Total(b) = Total(a) + b[n]
    BY <2>1, TotalAdded, Zenon
  <2> QED
    BY <2>2, <1>4, <1>5
<1>7. SumOver(Samples(g, t), g, t) = Total(b)
  BY <1>1, Zenon DEF SumOver, b
<1> QED
  BY <1>6, <1>7, AggregatesOf DEF g

\* A sample more of a rate.
LEMMA RateSample ==
  ASSUME NEW h \in Seq(AppliedUpdates), NEW r \in AppliedUpdates, NEW t \in Rates,
         NEW v \in [tick : Nat, count : Nat], t \in DOMAIN r.values,
         r.values[t] \in [tick : Nat, count : Nat], Aggregates(v, h, t)
  PROVE  Aggregates(MergeRates(v, r.values[t]), Append(h, r), t)
<1> DEFINE g == Append(h, r)
           S == Samples(h, t)
           n == Len(h) + 1
           new == r.values[t]
           w == MergeRates(v, new)
           L(f, T, u) == {i \in T : Value(f, t, i).tick = u.tick}
           C(f, T, u) == [i \in L(f, T, u) |-> Value(f, t, i).count]
<1>1. /\ Samples(g, t) = S \cup {n} /\ n \notin S /\ IsFiniteSet(S)
      /\ \A i \in S : Value(g, t, i) = Value(h, t, i)
      /\ Value(g, t, n) = new
  BY SamplesStep
<1>2. \A i \in S : Value(h, t, i) \in [tick : Nat, count : Nat]
  BY SampleType, ValueKinds
<1>3. RateIs(v, S, h, t)
  BY AggregatesOf
<1> HIDE DEF S, n, g
<1>4. /\ \A i \in S : Value(h, t, i).tick <= v.tick
      /\ v.tick = 0 \/ L(h, S, v) # {}
      /\ v.count = Total(C(h, S, v))
  BY <1>3, Zenon DEF RateIs
<1>5. ASSUME NEW u PROVE L(g, S, u) = L(h, S, u) /\ C(g, S, u) = C(h, S, u)
  <2>1. L(g, S, u) = L(h, S, u) /\ \A i \in L(h, S, u) : Value(g, t, i) = Value(h, t, i)
    BY <1>1
  <2> HIDE DEF L
  <2> QED
    BY <2>1
<1>6. \A u : IsFiniteSet(L(g, S, u))
  BY <1>1, FS_Subset
<1>7. new.tick \in Nat /\ new.count \in Nat /\ v.tick \in Nat /\ v.count \in Nat
  OBVIOUS
<1>8. ASSUME /\ \A i \in S \cup {n} : Value(g, t, i).tick <= w.tick
             /\ w.tick = 0 \/ L(g, S \cup {n}, w) # {}
             /\ w.count = Total(C(g, S \cup {n}, w))
      PROVE  Aggregates(MergeRates(v, r.values[t]), Append(h, r), t)
  <2>1. RateIs(w, S \cup {n}, g, t)
    BY <1>8, Zenon DEF RateIs
  <2>2. RateIs(w, Samples(g, t), g, t)
    BY <1>1, <2>1
  <2> QED
    BY <2>2, AggregatesOf DEF g
<1>9. CASE new.tick = v.tick
  <2>1. w.tick = v.tick /\ w.count = v.count + new.count
    BY <1>9 DEF MergeRates
  <2>2. L(g, S \cup {n}, w) = L(g, S, v) \cup {n}
    BY <1>1, <1>9, <2>1
  <2>3. /\ C(g, S, v) \in [L(g, S, v) -> Nat]
        /\ C(g, S \cup {n}, w) \in [L(g, S, v) \cup {n} -> Nat]
        /\ \A i \in L(g, S, v) : C(g, S, v)[i] = C(g, S \cup {n}, w)[i]
        /\ C(g, S \cup {n}, w)[n] = new.count
    <3>1. \A i \in L(g, S, v) \cup {n} : Value(g, t, i).count \in Nat
      BY <1>1, <1>2, <1>7
    <3> HIDE DEF L
    <3> QED
      BY <3>1, <2>2, <1>1
  <2>4. n \notin L(g, S, v)
    BY <1>1
  <2> HIDE DEF L, C, w
  <2>5. Total(C(g, S \cup {n}, w)) = Total(C(g, S, v)) + new.count
    <3>1. IsFiniteSet(L(g, S, v))
      BY <1>6
    <3>2. OneMore(C(g, S \cup {n}, w), C(g, S, v), n)
      BY <2>3, <2>4, <3>1 DEF OneMore
    <3>3. Total(C(g, S \cup {n}, w)) = Total(C(g, S, v)) + C(g, S \cup {n}, w)[n]
      BY <3>2, TotalAdded, Zenon
    <3> QED
      BY <2>3, <3>3
  <2>6. /\ w.count = Total(C(g, S \cup {n}, w))
        /\ L(g, S \cup {n}, w) # {}
    BY <1>4, <1>5, <2>1, <2>2, <2>5
  <2>7. \A i \in S \cup {n} : Value(g, t, i).tick <= w.tick
    BY <1>1, <1>4, <1>7, <1>9, <2>1
  <2> QED
    BY <2>6, <2>7, <1>8
<1>10. CASE new.tick > v.tick
  <2>1. w = new
    BY <1>10, <1>7 DEF MergeRates
  <2>2. L(g, S \cup {n}, w) = {n}
    BY <1>1, <1>2, <1>4, <1>7, <1>10, <2>1
  <2>3. L(g, {}, w) = {} /\ C(g, {}, w) \in [{} -> Nat] /\ DOMAIN C(g, {}, w) = {}
    OBVIOUS
  <2>4. Total(C(g, {}, w)) = 0
    <3> HIDE DEF C
    <3> QED
      BY <2>3, TotalOfNone
  <2>5. OneMore(C(g, S \cup {n}, w), C(g, {}, w), n)
    <3>1. /\ C(g, S \cup {n}, w) \in [{n} -> Nat] /\ DOMAIN C(g, S \cup {n}, w) = {n}
      BY <1>1, <1>7, <2>2
    <3> HIDE DEF C, L
    <3> QED
      BY <2>3, <3>1, FS_EmptySet DEF OneMore
  <2>6. C(g, S \cup {n}, w)[n] = new.count
    BY <1>1, <2>2
  <2>7. w.count = new.count
    BY <2>1
  <2> HIDE DEF L, C, w, new
  <2>8. Total(C(g, S \cup {n}, w)) = Total(C(g, {}, w)) + C(g, S \cup {n}, w)[n]
    BY <2>5, TotalAdded, Zenon
  <2>9. w.count = Total(C(g, S \cup {n}, w))
    BY <2>4, <2>6, <2>8, <2>7, <1>7
  <2>10. L(g, S \cup {n}, w) # {}
    BY <2>2
  <2>11. \A i \in S \cup {n} : Value(g, t, i).tick <= w.tick
    <3>1. w.tick = new.tick
      BY <2>1
    <3>2. \A i \in S : Value(h, t, i).tick \in Nat
      BY <1>2
    <3> QED
      BY <1>1, <3>2, <1>4, <1>7, <1>10, <3>1
  <2> QED
    BY <2>9, <2>10, <2>11, <1>8
<1>11. CASE new.tick < v.tick
  <2>1. w = v
    BY <1>11, <1>7 DEF MergeRates
  <2>2. L(g, S \cup {n}, w) = L(h, S, v)
    BY <1>1, <1>5, <1>7, <1>11, <2>1
  <2>3. C(g, S \cup {n}, w) = C(h, S, v)
    <3>1. \A i \in L(h, S, v) : Value(g, t, i) = Value(h, t, i)
      BY <1>1
    <3> HIDE DEF L, w
    <3> QED
      BY <2>2, <3>1
  <2> HIDE DEF L, C, w
  <2>4. \A i \in S \cup {n} : Value(g, t, i).tick <= w.tick
    BY <1>1, <1>4, <1>7, <1>11, <2>1
  <2> QED
    BY <2>1, <2>2, <2>3, <2>4, <1>4, <1>8
<1> QED
  BY <1>7, <1>9, <1>10, <1>11

\* Place by place, what merging two arrays gives.
LEMMA MergeArraysAt ==
  ASSUME NEW old \in Seq(Nat), NEW new \in Seq(Nat)
  PROVE  /\ Len(MergeArrays(old, new)) =
              (IF Len(old) < Len(new) THEN Len(new) ELSE Len(old))
         /\ \A x \in 1..Len(MergeArrays(old, new)) :
              /\ x > Len(old) => MergeArrays(old, new)[x] = new[x]
              /\ x > Len(new) => MergeArrays(old, new)[x] = old[x]
              /\ x <= Len(old) /\ x <= Len(new) =>
                   MergeArrays(old, new)[x] = old[x] + new[x]
<1> DEFINE n == IF Len(old) < Len(new) THEN Len(new) ELSE Len(old)
           at(i) == CASE i > Len(old) -> new[i]
                      [] i > Len(new) -> old[i]
                      [] OTHER        -> old[i] + new[i]
           w == MergeArrays(old, new)
<1>1. w = [i \in 1..n |-> at(i)] /\ n \in Nat
  BY DEF MergeArrays
<1>2. w \in Seq(Nat)
  BY MergeArraysType
<1>3. ASSUME NEW x \in 1..n
      PROVE  /\ x > Len(old) => at(x) = new[x]
             /\ x > Len(new) => at(x) = old[x]
             /\ x <= Len(old) /\ x <= Len(new) => at(x) = old[x] + new[x]
  <2>1. x > Len(old) => ~(x > Len(new))
    OBVIOUS
  <2> QED
    BY <2>1
<1> HIDE DEF at, w
<1>4. Len(w) = n
  <2>1. DOMAIN w = 1..n
    BY <1>1
  <2>2. DOMAIN w = 1..Len(w) /\ Len(w) \in Nat
    BY <1>2
  <2> HIDE DEF n
  <2> QED
    BY <1>1, <2>1, <2>2
<1>5. \A x \in 1..n : w[x] = at(x)
  BY <1>1
<1> HIDE DEF n
<1>6. \A x \in 1..Len(w) :
        /\ x > Len(old) => w[x] = new[x]
        /\ x > Len(new) => w[x] = old[x]
        /\ x <= Len(old) /\ x <= Len(new) => w[x] = old[x] + new[x]
  BY <1>3, <1>4, <1>5
<1> QED
  BY <1>4, <1>6 DEF n, w

\* A sample more of an array.
LEMMA ArraySample ==
  ASSUME NEW h \in Seq(AppliedUpdates), NEW r \in AppliedUpdates, NEW t \in Arrays,
         NEW v \in Seq(Nat), t \in DOMAIN r.values, r.values[t] \in Seq(Nat),
         Aggregates(v, h, t)
  PROVE  Aggregates(MergeArrays(v, r.values[t]), Append(h, r), t)
<1> DEFINE g == Append(h, r)
           S == Samples(h, t)
           n == Len(h) + 1
           new == r.values[t]
           w == MergeArrays(v, new)
           L(f, T, x) == {i \in T : x <= Len(Value(f, t, i))}
           I(f, T, x) == [i \in L(f, T, x) |-> Value(f, t, i)[x]]
<1>1. /\ Samples(g, t) = S \cup {n} /\ n \notin S /\ IsFiniteSet(S)
      /\ \A i \in S : Value(g, t, i) = Value(h, t, i)
      /\ Value(g, t, n) = new
  BY SamplesStep
<1>2. \A i \in S : Value(h, t, i) \in Seq(Nat)
  BY SampleType, ValueKinds
<1>3. ArrayIs(v, S, h, t)
  BY AggregatesOf
<1>4. /\ Len(w) = (IF Len(v) < Len(new) THEN Len(new) ELSE Len(v))
      /\ \A x \in 1..Len(w) :
           /\ x > Len(v) => w[x] = new[x]
           /\ x > Len(new) => w[x] = v[x]
           /\ x <= Len(v) /\ x <= Len(new) => w[x] = v[x] + new[x]
  BY MergeArraysAt
<1>5. Len(v) \in Nat /\ Len(new) \in Nat /\ \A x \in 1..Len(new) : new[x] \in Nat
  OBVIOUS
<1> HIDE DEF S, n, g, w, new
<1>6. /\ \A i \in S : Len(Value(h, t, i)) <= Len(v)
      /\ \A x \in 1..Len(v) : v[x] = Total(I(h, S, x))
  BY <1>3, Zenon DEF ArrayIs
<1>7. ASSUME /\ \A i \in S \cup {n} : Len(Value(g, t, i)) <= Len(w)
             /\ \A x \in 1..Len(w) : w[x] = Total(I(g, S \cup {n}, x))
      PROVE  Aggregates(MergeArrays(v, r.values[t]), Append(h, r), t)
  <2>1. ArrayIs(w, S \cup {n}, g, t)
    BY <1>7, Zenon DEF ArrayIs
  <2>2. ArrayIs(w, Samples(g, t), g, t)
    BY <1>1, <2>1
  <2> QED
    BY <2>2, AggregatesOf DEF g, w, new
<1>8. \A i \in S : Len(Value(h, t, i)) \in Nat
  BY <1>2
<1>9. \A i \in S \cup {n} : Len(Value(g, t, i)) <= Len(w)
  BY <1>1, <1>4, <1>5, <1>6, <1>8
<1>10. ASSUME NEW x \in 1..Len(w)
       PROVE  /\ IsFiniteSet(L(h, S, x)) /\ n \notin L(h, S, x)
              /\ I(h, S, x) \in [L(h, S, x) -> Nat]
              /\ \A i \in L(h, S, x) : Value(g, t, i) = Value(h, t, i)
  <2>1. x \in Nat /\ x >= 1
    BY <1>4, <1>5
  <2>2. \A i \in L(h, S, x) : x \in 1..Len(Value(h, t, i))
    BY <1>8, <2>1
  <2>3. \A i \in L(h, S, x) : Value(h, t, i)[x] \in Nat
    BY <1>2, <2>2
  <2>4. IsFiniteSet(L(h, S, x))
    BY <1>1, FS_Subset
  <2> QED
    BY <1>1, <2>3, <2>4
<1>11. ASSUME NEW x \in 1..Len(w), x <= Len(new)
       PROVE  Total(I(g, S \cup {n}, x)) = Total(I(h, S, x)) + new[x]
  <2>1. L(g, S \cup {n}, x) = L(h, S, x) \cup {n}
    BY <1>1, <1>11
  <2>2. new[x] \in Nat
    BY <1>4, <1>5, <1>11
  <2>3. \A i \in L(h, S, x) : I(h, S, x)[i] = Value(h, t, i)[x]
    OBVIOUS
  <2>4. /\ I(g, S \cup {n}, x) = [i \in L(h, S, x) \cup {n} |-> Value(g, t, i)[x]]
        /\ DOMAIN I(h, S, x) = L(h, S, x)
    BY <2>1
  <2> HIDE DEF L, I
  <2>5. /\ I(g, S \cup {n}, x) \in [L(h, S, x) \cup {n} -> Nat]
        /\ I(g, S \cup {n}, x)[n] = new[x]
        /\ \A i \in L(h, S, x) : I(h, S, x)[i] = I(g, S \cup {n}, x)[i]
    <3>1. \A i \in L(h, S, x) : Value(g, t, i)[x] = I(h, S, x)[i]
      BY <1>10, <2>3
    <3>2. \A i \in L(h, S, x) : Value(g, t, i)[x] \in Nat
      BY <1>10, <3>1
    <3>3. Value(g, t, n)[x] = new[x]
      BY <1>1
    <3> DEFINE at(i) == Value(g, t, i)[x]
    <3> HIDE DEF at
    <3>4. \A i \in L(h, S, x) \cup {n} : at(i) \in Nat
      BY <2>2, <3>2, <3>3 DEF at
    <3>5. I(g, S \cup {n}, x) = [i \in L(h, S, x) \cup {n} |-> at(i)]
      BY <2>4 DEF at
    <3>6. I(g, S \cup {n}, x) \in [L(h, S, x) \cup {n} -> Nat]
      BY <3>4, <3>5
    <3>7. \A i \in L(h, S, x) \cup {n} : I(g, S \cup {n}, x)[i] = at(i)
      BY <3>5
    <3> QED
      BY <3>1, <3>3, <3>6, <3>7 DEF at
  <2>6. OneMore(I(g, S \cup {n}, x), I(h, S, x), n)
    BY <1>10, <2>4, <2>5 DEF OneMore
  <2>7. Total(I(g, S \cup {n}, x)) = Total(I(h, S, x)) + I(g, S \cup {n}, x)[n]
    BY <2>6, TotalAdded, Zenon
  <2> QED
    BY <2>5, <2>7
<1>12. ASSUME NEW x \in 1..Len(w), x > Len(new)
       PROVE  I(g, S \cup {n}, x) = I(h, S, x)
  <2>1. L(g, S \cup {n}, x) = L(h, S, x)
    BY <1>1, <1>4, <1>5, <1>12
  <2> HIDE DEF L
  <2> QED
    BY <1>10, <2>1
<1>13. ASSUME NEW x \in 1..Len(w), x > Len(v)
       PROVE  Total(I(h, S, x)) = 0
  <2>1. L(h, S, x) = {}
    BY <1>4, <1>5, <1>6, <1>8, <1>13
  <2>2. I(h, S, x) \in [{} -> Nat] /\ DOMAIN I(h, S, x) = {}
    BY <2>1
  <2> HIDE DEF I
  <2> QED
    BY <2>2, TotalOfNone
<1> HIDE DEF I, L
<1>14. ASSUME NEW x \in 1..Len(w) PROVE w[x] = Total(I(g, S \cup {n}, x))
  <2>1. CASE x > Len(v)
    <3>1. ~(x > Len(new)) /\ x \in 1..Len(new)
      BY <2>1, <1>4, <1>5
    <3>2. w[x] = new[x] /\ new[x] \in Nat
      BY <2>1, <3>1, <1>4, <1>5
    <3>4. x <= Len(new)
      BY <3>1, <1>5
    <3>5. Total(I(h, S, x)) = 0
      BY <2>1, <1>13
    <3>3. Total(I(g, S \cup {n}, x)) = 0 + new[x]
      BY <3>4, <3>5, <1>11
    <3> QED
      BY <3>2, <3>3
  <2>2. CASE x > Len(new)
    <3>1. x \in 1..Len(v)
      BY <2>2, <1>4, <1>5
    <3>2. w[x] = v[x]
      BY <2>2, <1>4
    <3>3. v[x] = Total(I(h, S, x))
      BY <3>1, <1>6
    <3> QED
      BY <2>2, <3>2, <3>3, <1>12
  <2>3. CASE x <= Len(v) /\ x <= Len(new)
    <3>1. x \in 1..Len(v)
      BY <2>3, <1>4, <1>5
    <3>2. w[x] = v[x] + new[x]
      BY <2>3, <1>4
    <3>3. v[x] = Total(I(h, S, x))
      BY <3>1, <1>6
    <3> QED
      BY <2>3, <3>2, <3>3, <1>11
  <2> QED
    BY <2>1, <2>2, <2>3, <1>4, <1>5
<1> QED
  BY <1>7, <1>9, <1>14 DEF I, L

\* A sample more of a dictionary's entry.
LEMMA WordSample ==
  ASSUME NEW h \in Seq(AppliedUpdates), NEW r \in AppliedUpdates,
         NEW t \in Dictionaries, NEW v, t \in DOMAIN r.values, Aggregates(v, h, t)
  PROVE  Aggregates(IF r.values[t] = Null THEN v ELSE r.values[t], Append(h, r), t)
<1> DEFINE g == Append(h, r)
           S == Samples(h, t)
           n == Len(h) + 1
           new == r.values[t]
           w == IF new = Null THEN v ELSE new
           L(f, T) == {i \in T : Value(f, t, i) # Null}
<1>1. /\ Samples(g, t) = S \cup {n} /\ n \notin S /\ S \subseteq 1..Len(h)
      /\ Len(h) \in Nat
      /\ \A i \in S : Value(g, t, i) = Value(h, t, i)
      /\ Value(g, t, n) = new
  BY SamplesStep
<1>2. WordIs(v, S, h, t)
  BY AggregatesOf
<1>3. v = IF L(h, S) = {} THEN Null ELSE Value(h, t, LastOf(L(h, S)))
  BY <1>2, Zenon DEF WordIs
<1>4. /\ L(h, S) # {} => LastOf(L(h, S)) \in L(h, S)
      /\ LastOf(L(h, S) \cup {n}) = n
  BY <1>1, LastIs
<1>5. SUFFICES w = IF L(g, S \cup {n}) = {} THEN Null
                   ELSE Value(g, t, LastOf(L(g, S \cup {n})))
  <2> HIDE DEF S, g, n
  <2>1. ASSUME w = IF L(g, S \cup {n}) = {} THEN Null
                   ELSE Value(g, t, LastOf(L(g, S \cup {n})))
        PROVE  WordIs(w, S \cup {n}, g, t)
    BY <2>1, Zenon DEF WordIs
  <2> HIDE DEF L, w
  <2>2. ASSUME WordIs(w, S \cup {n}, g, t) PROVE WordIs(w, Samples(g, t), g, t)
    BY <1>1, <2>2
  <2> QED
    BY <2>1, <2>2, AggregatesOf DEF g, w, new
<1> HIDE DEF S, g, n, new
<1>6. CASE new = Null
  <2>1. L(g, S \cup {n}) = L(h, S)
    BY <1>1, <1>6
  <2>2. L(h, S) # {} => Value(g, t, LastOf(L(h, S))) = Value(h, t, LastOf(L(h, S)))
    BY <1>1, <1>4
  <2>3. w = v
    BY <1>6
  <2> HIDE DEF L, w
  <2> QED
    BY <1>3, <2>1, <2>2, <2>3
<1>7. CASE new # Null
  <2>1. L(g, S \cup {n}) = L(h, S) \cup {n}
    BY <1>1, <1>7
  <2>2. w = new
    BY <1>7
  <2>3. L(g, S \cup {n}) # {}
    BY <2>1
  <2> HIDE DEF L, w
  <2> QED
    BY <1>1, <1>4, <2>1, <2>2, <2>3
<1> QED
  BY <1>6, <1>7

\* A sample more of a value of which the last one counts.
LEMMA LatestSample ==
  ASSUME NEW h \in Seq(AppliedUpdates), NEW r \in AppliedUpdates, NEW t \in Latests,
         t \in DOMAIN r.values
  PROVE  Aggregates(r.values[t], Append(h, r), t)
<1> DEFINE g == Append(h, r)
           S == Samples(h, t)
           n == Len(h) + 1
<1>1. /\ Samples(g, t) = S \cup {n} /\ S \subseteq 1..Len(h) /\ Len(h) \in Nat
      /\ Value(g, t, n) = r.values[t]
  BY SamplesStep
<1>2. LastOf(S \cup {n}) = n
  BY <1>1, LastIs
<1> HIDE DEF g, S, n
<1>3. LatestIs(r.values[t], Samples(g, t), g, t)
  BY <1>1, <1>2 DEF LatestIs
<1> QED
  BY <1>3, AggregatesOf DEF g

\* What merging a value in makes of an aggregate.
LEMMA SampleMerged ==
  ASSUME NEW h \in Seq(AppliedUpdates), NEW r \in AppliedUpdates, NEW t \in DataTypes,
         NEW v \in ValuesOf(t), t \in DOMAIN r.values, r.values[t] \in ValuesOf(t),
         Aggregates(v, h, t)
  PROVE  Aggregates(Merge(t, v, r.values[t]), Append(h, r), t)
<1> USE DataTypesAssumption DEF Merge
<1>1. CASE t \in Counters
  <2>1. ValuesOf(t) = Nat /\ Merge(t, v, r.values[t]) = v + r.values[t]
    BY <1>1, ValueKinds
  <2> QED
    BY <1>1, <2>1, CounterSample
<1>2. CASE t \in Rates
  <2>1. /\ ValuesOf(t) = [tick : Nat, count : Nat]
        /\ Merge(t, v, r.values[t]) = MergeRates(v, r.values[t])
    BY <1>2, ValueKinds
  <2> QED
    BY <1>2, <2>1, RateSample
<1>3. CASE t \in Arrays
  <2>1. ValuesOf(t) = Seq(Nat) /\ Merge(t, v, r.values[t]) = MergeArrays(v, r.values[t])
    BY <1>3, ValueKinds
  <2> QED
    BY <1>3, <2>1, ArraySample
<1>4. CASE t \in Dictionaries
  <2>1. Merge(t, v, r.values[t]) = IF r.values[t] = Null THEN v ELSE r.values[t]
    BY <1>4
  <2>2. Aggregates(IF r.values[t] = Null THEN v ELSE r.values[t], Append(h, r), t)
    BY <1>4, WordSample
  <2> QED
    BY <2>1, <2>2
<1>5. CASE t \in Latests
  <2>1. Merge(t, v, r.values[t]) = r.values[t]
    BY <1>5
  <2> QED
    BY <1>5, <2>1, LatestSample
<1> QED
  BY <1>1, <1>2, <1>3, <1>4, <1>5 DEF DataTypes

\* A default is what no samples amount to.
LEMMA DefaultAggregates ==
  ASSUME NEW h, NEW t \in DataTypes, NEW d, d.count \in Nat, Samples(h, t) = {}
  PROVE  Aggregates(DefaultValue(t, d), h, t)
<1> USE DataTypesAssumption
<1>1. CASE t \in Counters
  <2> DEFINE f == [i \in {} |-> Value(h, t, i)]
  <2>1. f \in [{} -> Nat] /\ DOMAIN f = {}
    OBVIOUS
  <2>2. SumOver({}, h, t) = Total(f)
    BY DEF SumOver
  <2> HIDE DEF f
  <2>3. Total(f) = 0
    BY <2>1, TotalOfNone
  <2>4. DefaultValue(t, d) = 0
    BY <1>1 DEF DefaultValue
  <2> QED
    BY <1>1, <2>2, <2>3, <2>4, AggregatesOf
<1>2. CASE t \in Rates
  <2> DEFINE w == DefaultValue(t, d)
             L == {i \in {} : Value(h, t, i).tick = w.tick}
             f == [i \in L |-> Value(h, t, i).count]
  <2>1. w.tick = 0 /\ w.count = 0
    BY <1>2 DEF DefaultValue
  <2> HIDE DEF w
  <2>2. f \in [{} -> Nat] /\ DOMAIN f = {}
    OBVIOUS
  <2>3. w.count = Total(f) => RateIs(w, {}, h, t)
    BY <2>1 DEF RateIs
  <2> HIDE DEF f
  <2>4. Total(f) = 0
    BY <2>2, TotalOfNone
  <2> QED
    BY <1>2, <2>1, <2>3, <2>4, AggregatesOf DEF w
<1>3. CASE t \in Arrays
  <2> DEFINE w == DefaultValue(t, d)
             f(x) == [i \in {j \in {} : x <= Len(Value(h, t, j))} |-> Value(h, t, i)[x]]
  <2>1. w = [x \in 1..d.count |-> 0]
    BY <1>3 DEF DefaultValue
  <2> HIDE DEF w
  <2>2. w \in Seq(Nat) /\ Len(w) = d.count /\ \A x \in 1..Len(w) : w[x] = 0
    BY <2>1, SeqDef
  <2>3. ASSUME NEW x PROVE Total(f(x)) = 0
    <3>1. f(x) \in [{} -> Nat] /\ DOMAIN f(x) = {}
      OBVIOUS
    <3> HIDE DEF f
    <3> QED
      BY <3>1, TotalOfNone
  <2>4. (\A x \in 1..Len(w) : w[x] = Total(f(x))) => ArrayIs(w, {}, h, t)
    BY DEF ArrayIs
  <2> HIDE DEF f
  <2> QED
    BY <1>3, <2>2, <2>3, <2>4, AggregatesOf DEF w
<1>4. CASE t \in Dictionaries
  BY <1>4, AggregatesOf DEF DefaultValue, WordIs
<1>5. CASE t \in Latests
  BY <1>5, AggregatesOf DEF DefaultValue, LatestIs
<1> QED
  BY <1>1, <1>2, <1>3, <1>4, <1>5 DEF DataTypes

\* A default that has no length does not show in a merge.
LEMMA MergedWithDefault ==
  ASSUME NEW t \in DataTypes, NEW new \in ValuesOf(t)
  PROVE  /\ DefaultValue(t, [count |-> 0]) \in ValuesOf(t)
         /\ Merge(t, DefaultValue(t, [count |-> 0]), new) = new
<1> USE DataTypesAssumption DEF DefaultValue, Merge
<1>1. CASE t \in Counters
  BY <1>1, ValueKinds
<1>2. CASE t \in Rates
  <2>1. DefaultValue(t, [count |-> 0]) = [tick |-> 0, count |-> 0]
    BY <1>2
  <2>2. new \in [tick : Nat, count : Nat]
    BY <1>2, ValueKinds
  <2>3. MergeRates([tick |-> 0, count |-> 0], new) = new
    BY <2>2 DEF MergeRates
  <2> QED
    BY <1>2, <2>1, <2>3, ValueKinds
<1>3. CASE t \in Arrays
  <2> DEFINE none == DefaultValue(t, [count |-> 0])
             w == MergeArrays(none, new)
  <2>1. none = [x \in 1..0 |-> 0] /\ new \in Seq(Nat)
    BY <1>3, ValueKinds
  <2> HIDE DEF none
  <2>2. none \in Seq(Nat) /\ Len(none) = 0
    BY <2>1, SeqDef
  <2>3. /\ Len(w) = Len(new) /\ w \in Seq(Nat)
        /\ \A x \in 1..Len(w) : w[x] = new[x]
    <3>1. /\ Len(w) = (IF Len(none) < Len(new) THEN Len(new) ELSE Len(none))
          /\ \A x \in 1..Len(w) : x > Len(none) => w[x] = new[x]
      BY <2>1, <2>2, MergeArraysAt
    <3>2. w \in Seq(Nat)
      BY <2>1, <2>2, MergeArraysType
    <3> HIDE DEF w
    <3> QED
      BY <2>1, <2>2, <3>1, <3>2
  <2> HIDE DEF w
  <2>4. w = new
    BY <2>1, <2>3, SeqEqual
  <2> QED
    BY <1>3, <2>2, <2>4, ValueKinds DEF none, w
<1>4. CASE t \in Dictionaries
  BY <1>4 DEF ValuesOf
<1>5. CASE t \in Latests
  BY <1>5 DEF ValuesOf
<1> QED
  BY <1>1, <1>2, <1>3, <1>4, <1>5 DEF DataTypes

-----------------------------------------------------------------------------
\* An entry's values after an update, if they were what the history amounted to
\* and no update of the history had a data type that the entry lacks.
LEMMA EntryAggregates ==
  ASSUME NEW h \in Seq(AppliedUpdates), NEW r \in AppliedUpdates,
         NEW old, IsAssignment(old), IsAssignment(r.values), NEW d \in Definitions,
         \A t \in DOMAIN old : Aggregates(old[t], h, t),
         \A i \in 1..Len(h) : DOMAIN h[i].values \subseteq DOMAIN old
  PROVE  \A t \in DOMAIN Completed(Merged(old, r.values), d) :
           Aggregates(Completed(Merged(old, r.values), d)[t], Append(h, r), t)
<1> DEFINE m == Merged(old, r.values)
           e == Completed(m, d)
<1>1. /\ DOMAIN m = DOMAIN old \cup DOMAIN r.values
      /\ DOMAIN e = DOMAIN m \cup d.types
      /\ DOMAIN m \subseteq DataTypes /\ d.types \subseteq DataTypes
      /\ d.count \in Nat
  BY InputsAssumption DEF Merged, Completed, IsAssignment
<1> SUFFICES ASSUME NEW t \in DOMAIN e PROVE Aggregates(e[t], Append(h, r), t)
  OBVIOUS
<1>2. t \in DataTypes
  BY <1>1
<1>3. t \notin DOMAIN old => Samples(h, t) = {}
  BY DEF Samples
<1>4. CASE t \in DOMAIN old /\ t \in DOMAIN r.values
  <2>1. e[t] = Merge(t, old[t], r.values[t])
    BY <1>4 DEF Completed, Merged
  <2>2. old[t] \in ValuesOf(t) /\ r.values[t] \in ValuesOf(t)
    BY <1>4 DEF IsAssignment
  <2> HIDE DEF e
  <2> QED
    BY <1>2, <1>4, <2>1, <2>2, SampleMerged
<1>5. CASE t \in DOMAIN old /\ t \notin DOMAIN r.values
  <2>1. e[t] = old[t]
    BY <1>5 DEF Completed, Merged
  <2> HIDE DEF e
  <2> QED
    BY <1>2, <1>5, <2>1, SampleOfOthers
<1>6. CASE t \notin DOMAIN old /\ t \in DOMAIN r.values
  <2> DEFINE none == DefaultValue(t, [count |-> 0])
  <2>1. e[t] = r.values[t]
    BY <1>6 DEF Completed, Merged
  <2>2. r.values[t] \in ValuesOf(t)
    BY <1>6 DEF IsAssignment
  <2>3. none \in ValuesOf(t) /\ Merge(t, none, r.values[t]) = r.values[t]
    BY <1>2, <2>2, MergedWithDefault
  <2>4. Aggregates(none, h, t)
    BY <1>2, <1>3, <1>6, DefaultAggregates
  <2> HIDE DEF e, none
  <2>5. Aggregates(Merge(t, none, r.values[t]), Append(h, r), t)
    BY <1>2, <1>6, <2>2, <2>3, <2>4, SampleMerged
  <2> QED
    BY <2>1, <2>3, <2>5
<1>7. CASE t \notin DOMAIN old /\ t \notin DOMAIN r.values
  <2> DEFINE none == DefaultValue(t, d)
  <2>1. e[t] = none
    BY <1>1, <1>7 DEF Completed, Merged
  <2>2. Aggregates(none, h, t)
    BY <1>1, <1>2, <1>3, <1>7, DefaultAggregates
  <2> HIDE DEF e, none
  <2> QED
    BY <1>2, <1>7, <2>1, <2>2, SampleOfOthers
<1> QED
  BY <1>4, <1>5, <1>6, <1>7

\* No entry is the aggregate of no updates.
LEMMA InitAggregates == Init => EntriesAggregateHistory
BY EmptyAssignment DEF Init, EntriesAggregateHistory

\* Every call on the store keeps the entries aggregates of their histories.
LEMMA StepAggregates ==
  IInv /\ EntriesAggregateHistory /\ [Next]_vars => EntriesAggregateHistory'
<1> SUFFICES ASSUME IInv, EntriesAggregateHistory, [Next]_vars
             PROVE  EntriesAggregateHistory'
  OBVIOUS
<1>1. ASSUME NEW p \in Peers, NEW d \in Definitions, NEW u \in Updates,
             ApplyUpdate(p, d, u)
      PROVE  EntriesAggregateHistory'
  <2> DEFINE n0 == d.name
             k0 == u.key
             h0 == history[n0][k0]
             rec == [peer |-> p, types |-> d.types, values |-> u.values]
             old == Existing(n0, k0)
             new == entries'[n0][k0]
  <2>1. /\ n0 \in Names /\ k0 \in Keys /\ IsAssignment(u.values)
        /\ \A n \in Names \ {n0} :
             entries'[n] = entries[n] /\ history'[n] = history[n]
        /\ DOMAIN entries'[n0] = DOMAIN entries[n0] \cup {k0}
        /\ \A k \in Keys \ {k0} :
             /\ k \in DOMAIN entries[n0] => entries'[n0][k] = entries[n0][k]
             /\ history'[n0][k] = history[n0][k]
        /\ new = Completed(Merged(old, u.values), d)
        /\ history'[n0][k0] = Append(h0, rec)
    BY <1>1, UpdateStep
  <2>2. h0 \in Seq(AppliedUpdates) /\ rec \in AppliedUpdates
    <3>1. h0 \in Seq(AppliedUpdates)
      BY <2>1 DEF IInv, TypeOK
    <3>2. rec \in AppliedUpdates
      BY DEF AppliedUpdates
    <3> QED BY <3>1, <3>2
  <2>3. rec.values = u.values
    OBVIOUS
  <2>4. IsAssignment(old)
    BY <2>1, ExistingType DEF IInv
  <2>5. /\ \A i \in 1..Len(h0) : DOMAIN h0[i].values \subseteq DOMAIN old
        /\ \A t \in DOMAIN old : Aggregates(old[t], h0, t)
    <3>1. CASE k0 \in DOMAIN entries[n0]
      <4>1. old = entries[n0][k0]
        BY <3>1 DEF Existing
      <4>2. \A i \in 1..Len(h0) :
              DOMAIN h0[i].values \subseteq DOMAIN entries[n0][k0]
        BY <2>1 DEF IInv, CompleteForItsUpdates
      <4>3. \A t \in DOMAIN entries[n0][k0] : Aggregates(entries[n0][k0][t], h0, t)
        BY <2>1, <3>1, Zenon DEF EntriesAggregateHistory
      <4> QED
        BY <4>1, <4>2, <4>3
    <3>2. CASE k0 \notin DOMAIN entries[n0]
      <4>1. old = <<>> /\ DOMAIN old = {}
        BY <3>2, EmptyAssignment DEF Existing
      <4>2. h0 = <<>>
        BY <2>1, <3>2, Zenon DEF EntriesAggregateHistory
      <4>3. Len(h0) = 0
        BY <4>2
      <4> QED
        BY <4>1, <4>3
    <3> QED
      BY <3>1, <3>2
  <2>6. \A t \in DOMAIN new : Aggregates(new[t], history'[n0][k0], t)
    <3> HIDE DEF n0, k0, h0, rec, old, new
    <3>1. \A t \in DOMAIN Completed(Merged(old, rec.values), d) :
            Aggregates(Completed(Merged(old, rec.values), d)[t], Append(h0, rec), t)
      BY <2>1, <2>2, <2>3, <2>4, <2>5, EntryAggregates
    <3> QED
      BY <2>1, <2>3, <3>1
  <2>7. history'[n0][k0] # <<>>
    <3> HIDE DEF h0, rec
    <3>1. Len(h0) \in Nat /\ Len(Append(h0, rec)) = Len(h0) + 1
      BY <2>2
    <3>2. Append(h0, rec) # <<>>
      BY <3>1
    <3> QED
      BY <2>1, <3>2
  <2>8. ASSUME NEW n \in Names, NEW k \in Keys, ~(n = n0 /\ k = k0)
        PROVE  /\ history'[n][k] = history[n][k]
               /\ k \in DOMAIN entries'[n] <=> k \in DOMAIN entries[n]
               /\ k \in DOMAIN entries[n] => entries'[n][k] = entries[n][k]
    <3> HIDE DEF n0, k0
    <3>1. CASE n # n0
      BY <2>1, <3>1
    <3>2. CASE n = n0 /\ k # k0
      <4> HIDE DEF new, old, h0, rec
      <4> QED
        BY <2>1, <3>2
    <3> QED
      BY <2>8, <3>1, <3>2
  <2> QED
    <3> SUFFICES ASSUME NEW n \in Names, NEW k \in Keys
                 PROVE  /\ k \in DOMAIN entries'[n] <=> history'[n][k] # <<>>
                        /\ k \in DOMAIN entries'[n] =>
                             \A t \in DOMAIN entries'[n][k] :
                               Aggregates(entries'[n][k][t], history'[n][k], t)
      BY Zenon DEF EntriesAggregateHistory
    <3>1. CASE n = n0 /\ k = k0
      <4>1. k0 \in DOMAIN entries'[n0]
        BY <2>1
      <4> QED
        BY <2>6, <2>7, <3>1, <4>1
    <3>2. CASE ~(n = n0 /\ k = k0)
      <4>1. /\ k \in DOMAIN entries[n] <=> history[n][k] # <<>>
            /\ k \in DOMAIN entries[n] =>
                 \A t \in DOMAIN entries[n][k] :
                   Aggregates(entries[n][k][t], history[n][k], t)
        BY Zenon DEF EntriesAggregateHistory
      <4> QED
        BY <2>8, <3>2, <4>1
    <3> QED
      BY <3>1, <3>2
<1>2. ASSUME NEW name \in Names, ClearEntries(name)
      PROVE  EntriesAggregateHistory'
  <2>1. /\ entries'[name] = <<>> /\ history'[name] = [k \in Keys |-> <<>>]
        /\ \A n \in Names \ {name} :
             entries'[n] = entries[n] /\ history'[n] = history[n]
    BY <1>2 DEF ClearEntries, IInv, TypeOK
  <2>2. ASSUME NEW n \in Names, NEW k \in Keys
        PROVE  /\ k \in DOMAIN entries'[n] <=> history'[n][k] # <<>>
               /\ k \in DOMAIN entries'[n] =>
                    \A t \in DOMAIN entries'[n][k] :
                      Aggregates(entries'[n][k][t], history'[n][k], t)
    <3>1. CASE n = name
      BY <2>1, <3>1, EmptyAssignment
    <3>2. CASE n # name
      <4>1. /\ k \in DOMAIN entries[n] <=> history[n][k] # <<>>
            /\ k \in DOMAIN entries[n] =>
                 \A t \in DOMAIN entries[n][k] :
                   Aggregates(entries[n][k][t], history[n][k], t)
        BY Zenon DEF EntriesAggregateHistory
      <4> QED
        BY <2>1, <3>2, <4>1
    <3> QED
      BY <3>1, <3>2
  <2> QED
    BY <2>2, Zenon DEF EntriesAggregateHistory
<1>3. CASE \/ \E d \in Definitions : ApplyDefinition(d)
           \/ UNCHANGED vars
  <2>1. entries' = entries /\ history' = history
    BY <1>3 DEF ApplyDefinition, vars
  <2> QED
    BY <2>1 DEF EntriesAggregateHistory
<1> QED
  BY <1>1, <1>2, <1>3 DEF Next

\* Every entry is the aggregate of the updates it is made of, however many they
\* are, whichever peers they come from and however their definitions differ.
THEOREM EntriesAreAggregates == Spec => []EntriesAggregateHistory
BY InitAggregates, StepAggregates, Invariance, PTL DEF Spec
=============================================================================
