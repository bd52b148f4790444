------------------------------ MODULE MCNinepTcp -----------------------------
(* Instances of NinepTcp: a client with two streams, and one that waits. *)
EXTENDS NinepTcp

CONSTANTS c1, c2
MCClient == {c1, c2}
MCPieces == [c \in MCClient |-> [s \in Stream |-> IF c # c1 THEN 0 ELSE IF s = 1 THEN 4 ELSE 1]]
MCTooLarge == {<<c1, 1, 2>>}
=============================================================================
