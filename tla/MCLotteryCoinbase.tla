------------------------- MODULE MCLotteryCoinbase -------------------------
(***************************************************************************)
(* Instances of LotteryCoinbase.  Other nodes present every commitment of  *)
(* at most two ids, sorted or not, with every payout of at most two        *)
(* outputs of small values.                                                *)
(***************************************************************************)
EXTENDS LotteryCoinbase

CONSTANTS
    PeerIds,     \* ids in the coinbases others assemble
    PeerValues   \* and their output values

UpTo2(S) == {<<>>} \cup {<<a>> : a \in S} \cup {<<a, b>> : a \in S, b \in S}

\* What the seed signed, when this node is not the seed.
MCSeedSigned == {<<1, 2>>}

MCPeerCoinbases ==
    [xhb : UpTo2(PeerIds) \cup {Absent},
     pays : UpTo2([to : PeerIds, value : PeerValues \cup {-1}])]
=============================================================================
