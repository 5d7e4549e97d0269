---------------------------- MODULE MCPeerServer ----------------------------
(***************************************************************************)
(* PeerServer with two connections, a table that the two peers configure   *)
(* differently, and another table.  The values are few: how they merge is  *)
(* checked in StickTableStore.                                             *)
(***************************************************************************)
EXTENDS PeerServer, TLC

CONSTANTS a, b, k1, c1, c2

MCConns  == {c1, c2}
Symmetry == Permutations(MCConns)

OneName  == {a}
TwoNames == {a, b}
MCKeys   == {k1}

MCWords        == {"w1", "w2"}
MCCounters     == {"gpc0"}
MCArrays       == {"gpc"}
MCDictionaries == {"server_key"}

Narrow    == [name |-> a, types |-> {"server_key"}, count |-> 0]
Wide      == [name |-> a, types |-> {"gpc0", "server_key"}, count |-> 0]
Long      == [name |-> a, types |-> {"gpc0", "gpc"}, count |-> 2]
Short     == [name |-> a, types |-> {"gpc0", "gpc"}, count |-> 1]
Elsewhere == [name |-> b, types |-> {"server_key"}, count |-> 0]

TwoPeers  == {Narrow, Wide}
TwoTables == {Narrow, Wide, Elsewhere}
TwoSizes  == {Long, Short}

\* For TwoPeers and TwoTables, and for TwoSizes.
WordUpdates ==
  { [key |-> k1, values |-> [server_key |-> "w1"]],
    [key |-> k1, values |-> [gpc0 |-> 1, server_key |-> "w2"]] }

SizeUpdates ==
  { [key |-> k1, values |-> [gpc0 |-> 1, gpc |-> <<1, 2>>]],
    [key |-> k1, values |-> [gpc0 |-> 1, gpc |-> <<3>>]] }
=============================================================================
