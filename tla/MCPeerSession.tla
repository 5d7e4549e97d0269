---------------------------- MODULE MCPeerSession ----------------------------
(***************************************************************************)
(* PeerSession with two connections, so that one the client has left and   *)
(* the next may both be open at the server, and a table that other peers   *)
(* configure differently, so that what the store holds shows or does not,  *)
(* and a lesson may break off.                                             *)
(***************************************************************************)
EXTENDS PeerSession

CONSTANTS s1, s2, feeder, a, k1

MCSockets == {s1, s2}

MCNames        == {a}
MCKeys         == {k1}
MCWords        == {"w1"}
MCCounters     == {"gpc0"}
MCDictionaries == {"server_key"}

MCDefinitions ==
  { [name |-> a, types |-> {"server_key"}, count |-> 0],
    [name |-> a, types |-> {"gpc0"}, count |-> 0] }

MCUpdates ==
  { [key |-> k1, values |-> [server_key |-> "w1"]] }
=============================================================================
