------------------------- MODULE MCStickTableStore -------------------------
(***************************************************************************)
(* StickTableStore with one data type of each kind, a table that two peers *)
(* configure differently and another table, and a second key.              *)
(***************************************************************************)
EXTENDS StickTableStore

CONSTANTS a, b, k1, k2, p1, p2

MCNames == {a, b}
MCKeys  == {k1, k2}
MCWords == {"web1", "web2"}

\* Only CountersSumPeers looks at the peers.
OnePeer  == {p1}
TwoPeers == {p1, p2}

MCCounters     == {"gpc0"}
MCRates        == {"conn_rate"}
MCArrays       == {"gpc"}
MCDictionaries == {"server_key"}
MCLatests      == {"gpt0"}

Narrow    == [name |-> a, types |-> {"gpc0", "server_key"}, count |-> 1]
Wide      == [name |-> a, types |-> DataTypes, count |-> 2]
Elsewhere == [name |-> b, types |-> {"gpc0", "gpc"}, count |-> 1]

MCDefinitions == {Narrow, Wide, Elsewhere}

With(k, values) == [key |-> k, values |-> values]

MCUpdates ==
  { With(k1, [gpc0 |-> 3, server_key |-> "web1"]),
    With(k1, [gpc0 |-> 1, server_key |-> Null]),
    With(k1, [gpc0 |-> 2, conn_rate |-> [tick |-> 5, count |-> 1],
              gpc |-> <<1, 4>>, server_key |-> "web2", gpt0 |-> 7]),
    With(k1, [gpc0 |-> 0, conn_rate |-> [tick |-> 6, count |-> 2],
              gpc |-> <<2, 0>>, server_key |-> Null, gpt0 |-> 8]),
    With(k1, [gpc |-> <<9>>]),
    With(k2, [gpc0 |-> 5]) }
=============================================================================
