---------------------------- MODULE MCPeerParser ----------------------------
(***************************************************************************)
(* PeerParser on small frames: two tables, two dictionary words under one  *)
(* key, length varints of one and of two bytes.                            *)
(***************************************************************************)
EXTENDS PeerParser

CONSTANTS t1, t2, k1, w1, w2

MCTables == {t1, t2}
MCKeys   == {k1}
MCWords  == {w1, w2}

Plain == [class |-> "control", head |-> 0, body |-> 0, valid |-> TRUE,
          table |-> t1, incremental |-> FALSE, id |-> 0,
          dict |-> "none", key |-> k1, word |-> w1]

Definition(t, head) ==
  [Plain EXCEPT !.class = "definition", !.head = head, !.body = 1, !.table = t]
Update(incremental, id, head, dict, word) ==
  [Plain EXCEPT !.class = "update", !.head = head, !.body = 1,
                !.incremental = incremental, !.id = id, !.dict = dict, !.word = word]

\* What a peer that respects the protocol sends.
GoodFrames ==
  { Plain, Definition(t1, 1), Definition(t2, 2),
    Update(FALSE, 5, 1, "line", w1), Update(TRUE, 0, 1, "line", w2),
    Update(TRUE, 0, 2, "reference", w1) }

\* Malformed bodies, types without a case, and a class that does not exist.
BadFrames ==
  { [Definition(t1, 1) EXCEPT !.valid = FALSE],
    [Plain EXCEPT !.class = "unhandled"],
    [Plain EXCEPT !.class = "unknown"] }

MCFrames == GoodFrames \cup BadFrames
=============================================================================
