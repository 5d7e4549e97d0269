------------------------------ MODULE MCVarInt ------------------------------
(***************************************************************************)
(* VarInt around every length an integer below 2^31 can have: the last     *)
(* integer of each length and the first of the next.                       *)
(***************************************************************************)
EXTENDS VarInt

Lasts == {239, 2287, 264431, 33818863}

MCInts == {0, 127, 128, 255, 256, 2147483647}
            \cup UNION {{n - 1, n, n + 1, n + 2} : n \in Lasts}

\* Nothing, a byte that a decoder which runs on would stop at, and bytes
\* that it would go on with.
MCTails == {<<>>, <<0>>, <<255, 128, 1>>}
=============================================================================
