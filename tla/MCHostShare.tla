---------------------------- MODULE MCHostShare ----------------------------
(* Two wins, paid to different payout scripts of the host, whose guest pots *)
(* do not divide evenly.                                                    *)
EXTENDS HostShare

CONSTANTS s1, s2

MCValue == [w \in Win |-> 105 + 2 * w]

MCPaidTo == [w \in Win |-> IF w = 1 THEN s1 ELSE s2]
=============================================================================
