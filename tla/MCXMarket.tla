----------------------------- MODULE MCXMarket -----------------------------
(***************************************************************************)
(* Nodes s and m are connected and b joins late; a connection of b with    *)
(* both closes a cycle.  Node s owns coin c1, node m coin c2; two asks, of *)
(* one coin or of both.  The chain of m lags: it has not got c1 yet.       *)
(***************************************************************************)
EXTENDS XMarket

CONSTANTS s, m, b, c1, c2

MCOwner == [c \in Coin |-> IF c = c1 THEN s ELSE m]

MCLists == [a \in Ask |-> IF a = 1 THEN {c1} ELSE Coin]

MCLinks == {{<<s, m>>, <<m, s>>}}

MCSeen == {[n \in Node |-> IF n = m THEN {c2} ELSE Coin]}
=============================================================================
